----------------------------- MODULE SafetyProofs -----------------------------
(***************************************************************************)
(* The safety of raftsim's Raft for any number of servers, any logs and    *)
(* any faults, as long as no membership change is proposed: logs match,    *)
(* leaders are complete, and applications agree.                           *)
(*                                                                         *)
(* The state of the cluster shows only the present; the argument needs the *)
(* past.  The inductive invariant says that there is a history (defined in *)
(* RaftNodeProofs) of which the stores, the live nodes and the messages    *)
(* tell the truth.  A method of a node either leaves that history alone    *)
(* or extends it by one of its moves.                                      *)
(*                                                                         *)
(* The last section shows that the cluster implements the replicated log:  *)
(* what its servers were seen to commit is, in the order of the indexes,   *)
(* one sequence that only grows, and applications and snapshots are        *)
(* prefixes of it.  Beside the safety invariant this needs that the        *)
(* entries seen committed leave no gap, and that no step replaces a        *)
(* snapshot on disk by an older one.                                       *)
(***************************************************************************)
EXTENDS ClusterProofs

-----------------------------------------------------------------------------
(* What nodes, messages and stores say of a history *)

TermOf(a, k) == IF k = 0 THEN 0 ELSE a[k].term

\* The snapshot holds the entries up to its index; all of them are in R, the
\* entries seen committed.
Covers(s) == Len(s.data) = s.index /\ s.term = TermOf(s.data, s.index)

Vouched(R, s) == \A k \in 1 .. Len(s.data) : s.data[k] \in R

\* A candidate's request quotes the log it stands with.
TrueRequest(h, m) ==
  LET b == h.bid[m.from][m.term]
  IN  /\ h.vote[m.from][m.term] = m.from
      /\ m.lastLogIndex = Len(b) /\ m.lastLogTerm = TermOfLast(b)

\* Entries are a part of the log of the term's leader, committed up to commit.
TrueEntries(h, m) ==
  LET c == h.led[m.term]
  IN  /\ h.owner[m.term] # None
      /\ m.prevLogIndex + Len(m.entries) <= Len(c)
      /\ \A k \in 1 .. Len(m.entries) : m.entries[k] = c[m.prevLogIndex + k]
      /\ m.prevLogTerm = TermOf(c, m.prevLogIndex)
      /\ Sealed(h, c, m.commit, m.term)

TrueSnapshot(h, R, m) ==
  LET c == h.led[m.term]
      s == m.snapshot
  IN  /\ h.owner[m.term] # None
      /\ Covers(s) /\ Vouched(R, s) /\ s.index > 0
      /\ Agree(s.data, c, s.index) /\ Sealed(h, c, s.index, m.term)

Truthful(h, R, m) ==
  /\ m.type = "Vote" => m.preVote \/ TrueRequest(h, m)
  /\ Granted(m) => h.vote[m.from][m.term] = m.to
  /\ m.type = "App" => TrueEntries(h, m)
  /\ m.type \in {"AppResp", "SnapResp"} => Holds(h, m.from, m.term, m.matchIndex)
  /\ m.type = "Snap" => TrueSnapshot(h, R, m)

\* The history is up to date with n, and n's application, which had applied a
\* when the step began, follows what is committed.
Core(h, R, a, n) ==
  /\ h.term[n.id] = n.term /\ h.vote[n.id][n.term] = n.votedFor
  /\ Mine(h, n.id) = FullLog(n)
  /\ Covers(n.snapshot) /\ Vouched(R, n.snapshot)
  /\ Sealed(h, FullLog(n), n.commitIndex, n.term)
  /\ n.lastApplied = n.commitIndex /\ Len(a) <= n.commitIndex
  /\ AppAfter(a, n) = SubSeq(FullLog(n), 1, n.commitIndex)
  /\ ~n.panic
  /\ \A m \in n.out : Truthful(h, R, m)

\* What a leader believes of the others.
Peers(h, n) ==
  \A s \in Server :
    /\ n.prs[s].next <= Len(FullLog(n)) + 1
    /\ Agree(h.held[s][n.term], FullLog(n), n.prs[s].match)

Stands(h, n) ==
  /\ h.owner[n.term] # n.id /\ n.votedFor = n.id
  /\ h.bid[n.id][n.term] = FullLog(n)
  /\ \A v \in Server : n.votes[v] = "yes" => h.vote[v][n.term] = n.id

Role(h, n) ==
  /\ n.state = "Candidate" => Stands(h, n)
  /\ n.state = "Leader" => h.owner[n.term] = n.id /\ Peers(h, n)

\* A node in the middle of a step, whose store is d.
Good(d, h, R, a, n) ==
  /\ d \in Durable /\ a \in Seq(Entry) /\ HistoryInv(h)
  /\ Tracks(d, n) /\ Static(n) /\ Core(h, R, a, n) /\ Role(h, n)

-----------------------------------------------------------------------------
(* Logs *)

LEMMA LogOf ==
  ASSUME NEW n \in Node, Shape(n), Covers(n.snapshot)
  PROVE  /\ FullLog(n) \in Seq(Entry) /\ Len(FullLog(n)) \in Nat
         /\ Len(FullLog(n)) = LastIndex(n.log)
         /\ \A k \in 1 .. n.log.snapIndex : FullLog(n)[k] = n.snapshot.data[k]
         /\ \A j \in 1 .. Len(n.log.entries) :
              FullLog(n)[n.log.snapIndex + j] = n.log.entries[j]
         /\ Len(n.snapshot.data) = n.log.snapIndex
<1> DEFINE L == FullLog(n)
           da == n.snapshot.data
           es == n.log.entries
<1>1. /\ da \in Seq(Entry) /\ es \in Seq(Entry) /\ Len(es) \in Nat
      /\ n.log.snapIndex \in Nat
  BY NodeFields, SnapshotFields, LogFields
<1>2. Len(da) = n.log.snapIndex
  BY DEF Covers, Shape
<1>3. /\ L \in Seq(Entry) /\ Len(L) = Len(da) + Len(es)
      /\ \A k \in 1 .. Len(da) + Len(es) :
           L[k] = IF k <= Len(da) THEN da[k] ELSE es[k - Len(da)]
  BY <1>1, ConcatProperties DEF FullLog
<1>4. Len(L) = LastIndex(n.log)
  BY <1>2, <1>3 DEF LastIndex
<1> HIDE DEF L, da, es
<1>5. ASSUME NEW k \in 1 .. n.log.snapIndex PROVE L[k] = da[k]
  BY <1>1, <1>2, <1>3, <1>5
<1>6. ASSUME NEW j \in 1 .. Len(es) PROVE L[n.log.snapIndex + j] = es[j]
  <2> DEFINE k == n.log.snapIndex + j
  <2>1. j \in Nat /\ j >= 1 /\ j <= Len(es)
    BY <1>1
  <2>2. k \in 1 .. Len(da) + Len(es) /\ ~(k <= Len(da)) /\ k - Len(da) = j
    BY <1>1, <1>2, <2>1
  <2>3. L[k] = IF k <= Len(da) THEN da[k] ELSE es[k - Len(da)]
    BY <1>3, <2>2
  <2> QED
    BY <2>2, <2>3
<1> QED
  BY <1>1, <1>2, <1>3, <1>4, <1>5, <1>6 DEF L, da, es

LEMMA TermOfLog ==
  ASSUME NEW n \in Node, Shape(n), Covers(n.snapshot)
  PROVE  /\ \A k \in Nat : HasTerm(n.log, k) =>
              k <= Len(FullLog(n)) /\ TermAt(n.log, k) = TermOf(FullLog(n), k)
         /\ LastTerm(n.log) = TermOfLast(FullLog(n))
<1> DEFINE L == FullLog(n)
           s == n.log.snapIndex
           es == n.log.entries
<1>1. /\ L \in Seq(Entry) /\ Len(L) = LastIndex(n.log) /\ Len(L) \in Nat
      /\ \A k \in 1 .. s : L[k] = n.snapshot.data[k]
      /\ \A j \in 1 .. Len(es) : L[s + j] = es[j]
  BY LogOf
<1>2. /\ s \in Nat /\ Len(es) \in Nat /\ Len(L) = s + Len(es)
  BY <1>1, NodeFields, LogFields DEF LastIndex
<1>3. n.log.snapTerm = TermOf(n.snapshot.data, s)
  BY DEF Covers, Shape
<1> HIDE DEF L
<1>4. ASSUME NEW k \in Nat, HasTerm(n.log, k)
      PROVE  k <= Len(L) /\ TermAt(n.log, k) = TermOf(L, k)
  <2>1. k >= s /\ k <= Len(L)
    BY <1>1, <1>2, <1>4 DEF HasTerm
  <2>2. CASE k = s
    <3>1. TermAt(n.log, k) = n.log.snapTerm
      BY <1>4, <2>2 DEF TermAt
    <3>2. k # 0 => k \in 1 .. s
      BY <1>2, <2>2
    <3>4. k # 0 => L[k] = n.snapshot.data[k]
      BY <1>1, <3>2
    <3> QED
      BY <1>3, <2>1, <2>2, <3>1, <3>4 DEF TermOf
  <2>3. CASE k # s
    <3>1. k - s \in 1 .. Len(es) /\ s + (k - s) = k /\ k # 0
      BY <1>2, <2>1, <2>3, SMTT(30)
    <3>2. L[k] = es[k - s]
      BY <1>1, <3>1
    <3>3. TermAt(n.log, k) = es[k - s].term
      BY <1>4, <2>3 DEF TermAt
    <3> QED
      BY <2>1, <3>1, <3>2, <3>3 DEF TermOf
  <2> QED
    BY <2>2, <2>3
<1>5. LastTerm(n.log) = TermOfLast(L)
  <2>1. HasTerm(n.log, LastIndex(n.log))
    BY <1>2, NodeFields, LogFields DEF HasTerm, LastIndex
  <2>2. LastTerm(n.log) = TermOf(L, Len(L))
    BY <1>1, <1>4, <2>1 DEF LastTerm
  <2>3. L = <<>> <=> Len(L) = 0
    BY <1>1, EmptySeq
  <2> QED
    BY <2>2, <2>3 DEF TermOf, TermOfLast
<1> QED
  BY <1>4, <1>5 DEF L

\* The entries that are sent: a part of the whole log.
LEMMA SliceOf ==
  ASSUME NEW n \in Node, Shape(n), Covers(n.snapshot), NEW lo \in Nat,
         n.log.snapIndex < lo, lo <= Len(FullLog(n)) + 1, NEW max \in Nat
  PROVE  LET x == Slice(n.log, lo, LastIndex(n.log) + 1, max) IN
         /\ x \in Seq(Entry) /\ lo - 1 + Len(x) <= Len(FullLog(n))
         /\ \A k \in 1 .. Len(x) : x[k] = FullLog(n)[lo - 1 + k]
<1> DEFINE L == FullLog(n)
           s == n.log.snapIndex
           es == n.log.entries
           x == Slice(n.log, lo, LastIndex(n.log) + 1, max)
<1>1. /\ Len(L) = LastIndex(n.log) /\ Len(L) \in Nat
      /\ \A j \in 1 .. Len(es) : L[s + j] = es[j]
  BY LogOf
<1>2. /\ n.log \in Log /\ s \in Nat /\ es \in Seq(Entry) /\ Len(es) \in Nat
      /\ Len(L) = s + Len(es) /\ lo >= FirstIndex(n.log)
  BY <1>1, NodeFields, LogFields DEF LastIndex, FirstIndex
<1>3. PICK c \in Int :
        /\ c <= Len(es) /\ (max = 0 => c = Len(es))
        /\ x = SubSeq(es, lo - s, c)
  <2>1. n.log \in Log /\ lo \in Int /\ lo >= FirstIndex(n.log)
    BY <1>2
  <2>2. \E c \in Int :
          /\ c <= Len(n.log.entries) /\ (max = 0 => c = Len(n.log.entries))
          /\ Slice(n.log, lo, LastIndex(n.log) + 1, max)
               = SubSeq(n.log.entries, lo - n.log.snapIndex, c)
    BY <2>1, SliceToEnd
  <2> QED
    BY <2>2
<1>4. lo - s \in Nat \ {0} /\ lo <= Len(L) + 1
  BY <1>2
<1> HIDE DEF L, x, es, s
<1>5. /\ x \in Seq(Entry) /\ Len(x) = IF lo - s <= c THEN c - (lo - s) + 1 ELSE 0
      /\ \A k \in 1 .. Len(x) : x[k] = es[lo - s + k - 1]
  BY <1>2, <1>3, <1>4, PartFields
<1>6. lo - 1 + Len(x) <= Len(L)
  BY <1>1, <1>2, <1>3, <1>4, <1>5
<1>7. ASSUME NEW k \in 1 .. Len(x) PROVE x[k] = L[lo - 1 + k]
  <2>1. lo - s + k - 1 \in 1 .. Len(es) /\ s + (lo - s + k - 1) = lo - 1 + k
    BY <1>2, <1>3, <1>4, <1>5
  <2>2. L[s + (lo - s + k - 1)] = es[lo - s + k - 1]
    BY <1>1, <2>1
  <2> QED
    BY <1>5, <2>1, <2>2
<1> QED
  BY <1>5, <1>6, <1>7 DEF L, x

-----------------------------------------------------------------------------
(* A node in the middle of a step *)

LEMMA GoodFacts ==
  ASSUME NEW d, NEW h, NEW R, NEW a, NEW n, Good(d, h, R, a, n)
  PROVE  /\ n \in Node /\ Shape(n) /\ n.snapDirty = "none" /\ InitialOnly(n)
         /\ Static(n) /\ Tracks(d, n) /\ d \in Durable /\ a \in Seq(Entry)
         /\ Config(n) = InitialVoters
         /\ HistoryInv(h) /\ h \in History /\ LedOK(h) /\ PastOK(h)
         /\ h.term[n.id] = n.term /\ h.vote[n.id][n.term] = n.votedFor
         /\ Mine(h, n.id) = FullLog(n) /\ h.held[n.id][n.term] = FullLog(n)
         /\ Covers(n.snapshot) /\ Vouched(R, n.snapshot)
         /\ FullLog(n) \in Seq(Entry) /\ Len(FullLog(n)) = LastIndex(n.log)
         /\ Len(FullLog(n)) \in Nat
         /\ Rooted(h, FullLog(n)) /\ AtMost(FullLog(n), n.term)
<1>1. n \in Node /\ Shape(n) /\ n.snapDirty = "none"
  BY DEF Good, Tracks, Appending
<1>2. InitialOnly(n) /\ Static(n)
  BY DEF Good, Static
<1>3. Config(n) = InitialVoters
  BY <1>1, <1>2, StaticConfig
<1>4. HistoryInv(h) /\ h \in History /\ LedOK(h) /\ PastOK(h)
  BY DEF Good, HistoryInv
<1>5. /\ h.term[n.id] = n.term /\ h.vote[n.id][n.term] = n.votedFor
      /\ Mine(h, n.id) = FullLog(n) /\ Covers(n.snapshot) /\ Vouched(R, n.snapshot)
  BY DEF Good, Core
<1>6. h.held[n.id][n.term] = FullLog(n)
  BY <1>5 DEF Mine
<1>7. /\ FullLog(n) \in Seq(Entry) /\ Len(FullLog(n)) = LastIndex(n.log)
      /\ Len(FullLog(n)) \in Nat
  BY <1>1, <1>5, LogOf
<1>8. n.id \in Server
  BY <1>1, NodeFields
<1>9. Rooted(h, FullLog(n)) /\ AtMost(FullLog(n), n.term)
  BY <1>4, <1>5, <1>8, MineRooted
<1> QED
  BY <1>1, <1>2, <1>3, <1>4, <1>5, <1>6, <1>7, <1>9 DEF Good

\* How far n has committed and applied.
LEMMA GoodBounds ==
  ASSUME NEW d, NEW h, NEW R, NEW a, NEW n, Good(d, h, R, a, n)
  PROVE  /\ n.id \in Server /\ n.term \in Nat /\ n.commitIndex \in Nat
         /\ n.log \in Log /\ n.prs \in [Server -> Progress] /\ n.state \in States
         /\ n.log.snapIndex \in Nat /\ n.log.snapIndex <= n.commitIndex
         /\ n.commitIndex <= Len(FullLog(n)) /\ n.lastApplied = n.commitIndex
         /\ Sealed(h, FullLog(n), n.commitIndex, n.term)
<1>1. n \in Node /\ Shape(n) /\ FullLog(n) \in Seq(Entry) /\ Len(FullLog(n)) \in Nat
  BY GoodFacts
<1>2. Core(h, R, a, n)
  BY DEF Good
<1>3. /\ n.id \in Server /\ n.term \in Nat /\ n.commitIndex \in Nat /\ n.log.snapIndex \in Nat
      /\ n.log \in Log /\ n.prs \in [Server -> Progress] /\ n.state \in States
  BY <1>1, NodeFields, LogFields
<1>4. n.log.snapIndex <= n.commitIndex
  BY <1>1 DEF Shape
<1>5. Sealed(h, FullLog(n), n.commitIndex, n.term) /\ n.lastApplied = n.commitIndex
  BY <1>2 DEF Core
<1>6. n.commitIndex <= Len(FullLog(n))
  BY <1>1, <1>3, <1>5 DEF Sealed, Agree
<1> QED
  BY <1>3, <1>4, <1>5, <1>6

\* A leader's log is that of its term, and a candidate or leader has voted
\* for itself.
LEMMA GoodLeader ==
  ASSUME NEW d, NEW h, NEW R, NEW a, NEW n, Good(d, h, R, a, n)
  PROVE  /\ n.state = "Leader" =>
              /\ h.owner[n.term] = n.id /\ h.led[n.term] = FullLog(n)
              /\ n.votedFor = n.id /\ Peers(h, n)
         /\ n.state = "Candidate" => Stands(h, n) /\ n.votedFor = n.id
<1>1. /\ LedOK(h) /\ h.term[n.id] = n.term /\ h.vote[n.id][n.term] = n.votedFor
      /\ h.held[n.id][n.term] = FullLog(n) /\ n.id \in Server /\ n.term \in Nat
  BY GoodFacts, GoodBounds
<1>2. Role(h, n)
  BY DEF Good
<1>3. ASSUME n.state = "Leader"
      PROVE  /\ h.owner[n.term] = n.id /\ h.led[n.term] = FullLog(n)
             /\ n.votedFor = n.id /\ Peers(h, n)
  <2>1. h.owner[n.term] = n.id /\ Peers(h, n) /\ n.id # None
    BY <1>1, <1>2, <1>3, ServerAssumption DEF Role
  <2> QED
    BY <1>1, <2>1 DEF LedOK
<1>4. n.state = "Candidate" => Stands(h, n) /\ n.votedFor = n.id
  BY <1>2 DEF Role, Stands
<1> QED
  BY <1>3, <1>4

\* What a method that leaves the log and the hard state alone must not touch.
Same(n, q) ==
  /\ q.id = n.id /\ q.term = n.term /\ q.votedFor = n.votedFor
  /\ q.log = n.log /\ q.snapshot = n.snapshot
  /\ q.commitIndex = n.commitIndex /\ q.lastApplied = n.lastApplied
  /\ q.applied = n.applied /\ q.panic = n.panic

LEMMA CoreSame ==
  ASSUME NEW h, NEW R, NEW a, NEW n, Core(h, R, a, n), NEW q, Same(n, q),
         q.snapDirty = n.snapDirty,
         \A m \in q.out : m \in n.out \/ Truthful(h, R, m)
  PROVE  Core(h, R, a, q)
<1>1. FullLog(q) = FullLog(n)
  BY DEF FullLog, Same
<1>2. AppAfter(a, q) = AppAfter(a, n)
  BY DEF AppAfter, Same
<1>3. \A m \in q.out : Truthful(h, R, m)
  BY DEF Core
<1> QED
  BY <1>1, <1>2, <1>3 DEF Core, Same

LEMMA GoodSame ==
  ASSUME NEW d, NEW h, NEW R, NEW a, NEW n, Good(d, h, R, a, n),
         NEW q, Tracks(d, q), Static(q), Same(n, q),
         \A m \in q.out : m \in n.out \/ Truthful(h, R, m), Role(h, q)
  PROVE  Good(d, h, R, a, q)
<1>1. q.snapDirty = n.snapDirty
  BY DEF Good, Tracks, Appending
<1>2. Core(h, R, a, q)
  BY <1>1, CoreSame DEF Good
<1> QED
  BY <1>2 DEF Good

\* Nothing is asked of followers and pre-candidates.
LEMMA RoleNone ==
  ASSUME NEW h, NEW q, q.state \in {"Follower", "PreCandidate"}
  PROVE  Role(h, q)
BY DEF Role

LEMMA RoleSame ==
  ASSUME NEW h, NEW n, NEW q, Role(h, n), Same(n, q), q.state = n.state,
         q.votes = n.votes,
         q.state = "Leader" => \A s \in Server :
            /\ q.prs[s].next <= Len(FullLog(n)) + 1 /\ q.prs[s].match = n.prs[s].match
  PROVE  Role(h, q)
<1>1. FullLog(q) = FullLog(n)
  BY DEF FullLog, Same
<1>2. q.state = "Candidate" => Stands(h, q)
  BY <1>1 DEF Role, Stands, Same
<1>3. q.state = "Leader" => h.owner[q.term] = q.id /\ Peers(h, q)
  BY <1>1 DEF Role, Peers, Same
<1> QED
  BY <1>2, <1>3 DEF Role

-----------------------------------------------------------------------------
(* What is sent *)

\* A node may say of itself that it has what its term's leader has.
LEMMA AgreeNothing ==
  ASSUME NEW a \in Seq(Entry), NEW b \in Seq(Entry)
  PROVE  Agree(a, b, 0)
BY LenProperties DEF Agree

\* The snapshot of a node is a part of its log, and committed.
LEMMA SnapshotOf ==
  ASSUME NEW d, NEW h, NEW R, NEW a, NEW n, Good(d, h, R, a, n)
  PROVE  /\ n.snapshot.index = n.log.snapIndex /\ n.snapshot.data \in Seq(Entry)
         /\ Agree(n.snapshot.data, FullLog(n), n.snapshot.index)
         /\ Sealed(h, FullLog(n), n.snapshot.index, n.term)
<1> DEFINE L == FullLog(n)
           s == n.snapshot
<1>1. /\ n \in Node /\ Shape(n) /\ Covers(s) /\ h \in History
      /\ L \in Seq(Entry) /\ Len(L) \in Nat /\ Len(L) = LastIndex(n.log)
  BY GoodFacts
<1>2. /\ n.term \in Nat /\ n.commitIndex \in Nat /\ n.log.snapIndex \in Nat
      /\ n.log.snapIndex <= n.commitIndex /\ n.commitIndex <= Len(L)
      /\ Sealed(h, L, n.commitIndex, n.term)
  BY GoodBounds
<1>3. s.index = n.log.snapIndex
  BY <1>1 DEF Shape
<1>4. s.data \in Seq(Entry)
  BY <1>1, NodeFields, SnapshotFields
<1>5. /\ \A k \in 1 .. n.log.snapIndex : L[k] = s.data[k]
      /\ Len(s.data) = n.log.snapIndex
  BY <1>1, LogOf
<1> HIDE DEF L, s
<1>6. Agree(s.data, L, s.index)
  BY <1>1, <1>2, <1>3, <1>4, <1>5 DEF Agree
<1>7. Agree(L, L, s.index)
  BY <1>1, <1>2, <1>3 DEF Agree
<1>8. Sealed(h, L, s.index, n.term)
  BY <1>1, <1>2, <1>3, <1>7, SealedPart
<1> QED
  BY <1>3, <1>4, <1>6, <1>8 DEF L, s

LEMMA AppsForTrue ==
  ASSUME NEW d, NEW h, NEW R, NEW a, NEW n, Good(d, h, R, a, n), n.state = "Leader",
         NEW to \in Server
  PROVE  /\ \A m \in AppsFor(n, to) : Truthful(h, R, m)
         /\ ~CannotSend(n, to)
<1> DEFINE L == FullLog(n)
           pr == n.prs[to]
           prev == PrevIndex(pr)
<1>1. /\ n \in Node /\ Shape(n) /\ Covers(n.snapshot) /\ Vouched(R, n.snapshot)
      /\ L \in Seq(Entry) /\ Len(L) \in Nat /\ Len(L) = LastIndex(n.log)
  BY GoodFacts
<1>2. /\ n.id \in Server /\ n.term \in Nat /\ n.commitIndex \in Nat
      /\ n.log.snapIndex \in Nat /\ pr \in Progress
      /\ Sealed(h, L, n.commitIndex, n.term)
  BY GoodBounds
<1>3. h.led[n.term] = L /\ h.owner[n.term] # None /\ pr.next <= Len(L) + 1
  BY <1>2, GoodLeader, ServerAssumption DEF Peers
<1>4. /\ n.snapshot.index = n.log.snapIndex
      /\ Agree(n.snapshot.data, L, n.snapshot.index)
      /\ Sealed(h, L, n.snapshot.index, n.term)
  BY SnapshotOf
<1>5. pr.next \in Nat /\ (pr # NoProgress => pr.next \in Nat \ {0})
  BY <1>2, ProgressFields
<1>6. CASE pr = NoProgress
  BY <1>6 DEF AppsFor, CannotSend
<1>7. CASE pr # NoProgress /\ NeedsSnapshot(n, to)
  <2>1. n.snapshot.index > 0
    BY <1>2, <1>4, <1>5, <1>7 DEF NeedsSnapshot
  <2>2. n.snapshot # NoSnapshot
    BY <2>1 DEF NoSnapshot
  <2>3. ~CannotSend(n, to)
    BY <1>7, <2>2 DEF CannotSend
  <2>4. ASSUME NEW m \in AppsFor(n, to) PROVE Truthful(h, R, m)
    <3>1. m = [type |-> "Snap", from |-> n.id, to |-> to, term |-> n.term,
               snapshot |-> n.snapshot]
      BY <1>7, <2>4 DEF AppsFor
    <3>2. m.type = "Snap" /\ m.term = n.term /\ m.snapshot = n.snapshot
      BY <3>1
    <3> HIDE DEF L
    <3>3. TrueSnapshot(h, R, m)
      BY <1>1, <1>3, <1>4, <2>1, <3>2 DEF TrueSnapshot
    <3> QED
      BY <3>2, <3>3 DEF Truthful, Granted
  <2> QED
    BY <2>3, <2>4
<1>8. CASE pr # NoProgress /\ ~NeedsSnapshot(n, to)
  <2>1. /\ pr.next \in Nat /\ n.log.snapIndex < pr.next /\ prev \in Nat
        /\ prev = pr.next - 1 /\ n.log.snapIndex <= prev /\ prev <= Len(L)
    BY <1>1, <1>2, <1>3, <1>5, <1>8 DEF NeedsSnapshot, PrevIndex
  <2>2. HasTerm(n.log, prev)
    BY <1>1, <1>2, <2>1 DEF HasTerm
  <2>3. ~CannotSend(n, to)
    BY <1>8, <2>2 DEF CannotSend
  <2>4. TermAt(n.log, prev) = TermOf(L, prev)
    BY <1>1, <2>1, <2>2, TermOfLog
  <2>5. ASSUME NEW m \in AppsFor(n, to) PROVE Truthful(h, R, m)
    <3> DEFINE x == Slice(n.log, pr.next, LastIndex(n.log) + 1, MaxBatch)
    <3>1. m = [type |-> "App", from |-> n.id, to |-> to, term |-> n.term,
               prevLogIndex |-> prev, prevLogTerm |-> TermAt(n.log, prev),
               entries |-> x, commit |-> n.commitIndex]
      BY <1>8, <2>5 DEF AppsFor
    <3>2. /\ x \in Seq(Entry) /\ pr.next - 1 + Len(x) <= Len(L)
          /\ \A k \in 1 .. Len(x) : x[k] = L[pr.next - 1 + k]
      <4>1. MaxBatch \in Nat
        BY ParamsAssumption
      <4> QED
        BY <1>1, <1>3, <2>1, <4>1, SliceOf
    <3> HIDE DEF x, L, prev
    <3>3. /\ m.type = "App" /\ m.term = n.term /\ m.prevLogIndex = prev
          /\ m.prevLogTerm = TermOf(L, prev) /\ m.entries = x /\ m.commit = n.commitIndex
      BY <2>4, <3>1
    <3>4. TrueEntries(h, m)
      BY <1>2, <1>3, <2>1, <3>2, <3>3 DEF TrueEntries
    <3> QED
      BY <3>3, <3>4 DEF Truthful, Granted
  <2> QED
    BY <2>3, <2>5
<1> QED
  BY <1>6, <1>7, <1>8

LEMMA SendGood ==
  ASSUME NEW d, NEW h, NEW R, NEW a, NEW n, Good(d, h, R, a, n),
         NEW msgs \in SUBSET Message,
         \A m \in msgs : Truthful(h, R, m), \A m \in msgs : Linked(m),
         \A m \in msgs : ~Granted(m), \A m \in msgs : Sound(m)
  PROVE  Good(d, h, R, a, Send(n, msgs))
<1> DEFINE q == Send(n, msgs)
<1>1. n \in Node /\ Static(n) /\ Tracks(d, n)
  BY GoodFacts
<1>2. Tracks(d, q)
  BY <1>1, SendTracks
<1>3. Static(q)
  BY <1>1, SendSteady DEF Steady
<1>4. q = [n EXCEPT !.out = n.out \cup msgs]
  BY Zenon DEF Send
<1> HIDE DEF q
<1>5. Same(n, q) /\ q.state = n.state /\ q.votes = n.votes /\ q.prs = n.prs
      /\ q.out = n.out \cup msgs
  BY <1>1, <1>4 DEF Node, Same
<1>6. Role(h, q)
  BY <1>5, RoleSame DEF Good, Role, Peers
<1>7. Good(d, h, R, a, q)
  BY <1>2, <1>3, <1>5, <1>6, GoodSame
<1> QED
  BY <1>7 DEF q

LEMMA SendAppendsGood ==
  ASSUME NEW d, NEW h, NEW R, NEW a, NEW n, Good(d, h, R, a, n), n.state = "Leader",
         NEW targets \in SUBSET Server
  PROVE  /\ Good(d, h, R, a, SendAppends(n, targets))
         /\ SendAppends(n, targets).state = "Leader"
<1> DEFINE q == SendAppends(n, targets)
           msgs == UNION {AppsFor(n, to) : to \in targets}
           prs == [s \in Server |->
                     IF s \in targets /\ NeedsSnapshot(n, s)
                     THEN [n.prs[s] EXCEPT !.pendingSnap = TRUE] ELSE n.prs[s]]
           stuck == \E to \in targets : CannotSend(n, to)
<1>1. n \in Node /\ Static(n) /\ Tracks(d, n)
  BY GoodFacts
<1>2. Tracks(d, q) /\ Static(q)
  BY <1>1, SendAppendsTracks, SendAppendsSteady DEF Steady
<1>3. q = [n EXCEPT !.out = n.out \cup msgs, !.prs = prs, !.panic = n.panic \/ stuck]
  BY Zenon DEF SendAppends
<1>4. stuck = FALSE
  BY AppsForTrue
<1>5. \A m \in msgs : Truthful(h, R, m)
  BY AppsForTrue
<1>6. \A s \in Server : prs[s].next = n.prs[s].next /\ prs[s].match = n.prs[s].match
  <2>1. ASSUME NEW s \in Server
        PROVE  prs[s].next = n.prs[s].next /\ prs[s].match = n.prs[s].match
    <3>1. n.prs[s] \in Progress
      BY GoodBounds
    <3>2. prs[s] = n.prs[s] \/ prs[s] = [n.prs[s] EXCEPT !.pendingSnap = TRUE]
      OBVIOUS
    <3> HIDE DEF prs
    <3> QED
      BY <3>1, <3>2 DEF Progress, NoProgress, NewProgress
  <2> QED
    BY <2>1
<1> HIDE DEF q, msgs, prs, stuck
<1>7. /\ q.id = n.id /\ q.term = n.term /\ q.votedFor = n.votedFor
      /\ q.log = n.log /\ q.snapshot = n.snapshot
      /\ q.commitIndex = n.commitIndex /\ q.lastApplied = n.lastApplied
      /\ q.applied = n.applied /\ q.state = n.state /\ q.votes = n.votes
      /\ q.prs = prs /\ q.out = n.out \cup msgs /\ q.panic = (n.panic \/ stuck)
  BY <1>1, <1>3 DEF Node
<1>8. q.panic = n.panic
  <2>1. n.panic \in BOOLEAN
    BY <1>1, NodeFields
  <2> QED
    BY <1>4, <1>7, <2>1, Zenon
<1>9. Same(n, q)
  BY <1>7, <1>8 DEF Same
<1>10. \A s \in Server :
         q.prs[s].next <= Len(FullLog(n)) + 1 /\ q.prs[s].match = n.prs[s].match
  BY <1>6, <1>7, GoodLeader DEF Peers
<1>11. Role(h, q)
  BY <1>7, <1>9, <1>10, RoleSame DEF Good
<1>12. Good(d, h, R, a, q)
  BY <1>2, <1>5, <1>7, <1>9, <1>11, GoodSame
<1> QED
  BY <1>7, <1>12 DEF q

LEMMA BroadcastGood ==
  ASSUME NEW d, NEW h, NEW R, NEW a, NEW n, Good(d, h, R, a, n), n.state = "Leader"
  PROVE  Good(d, h, R, a, BroadcastAppend(n)) /\ BroadcastAppend(n).state = "Leader"
<1>1. ReplicationTargets(n) \in SUBSET Server
  BY GoodFacts, ReplicationTargetsType
<1> QED
  BY <1>1, SendAppendsGood DEF BroadcastAppend

-----------------------------------------------------------------------------
(* Commitment *)

LEMMA ConcatThree ==
  ASSUME NEW s \in Seq(Entry), NEW t \in Seq(Entry), NEW u \in Seq(Entry)
  PROVE  s \o (t \o u) = (s \o t) \o u
BY ConcatAssociative

LEMMA SliceWhole ==
  ASSUME NEW l \in Log, NEW lo \in Int, lo >= FirstIndex(l), NEW k \in Int,
         k <= LastIndex(l), NEW hi, hi = k + 1
  PROVE  Slice(l, lo, hi, 0) = SubSeq(l.entries, lo - l.snapIndex, k - l.snapIndex)
<1>1. ASSUME NEW max \in Nat, max = 0
      PROVE  Slice(l, lo, hi, max)
               = SubSeq(l.entries, lo - l.snapIndex, k - l.snapIndex)
  <2> DEFINE end == Min({hi - 1, LastIndex(l)})
             cut == IF max > 0 THEN Min({end, lo + max - 1}) ELSE end
  <2>1. FirstIndex(l) \in Int /\ LastIndex(l) \in Int
    BY IndexType
  <2>2. ~(lo < FirstIndex(l))
    BY <2>1
  <2>3. Slice(l, lo, hi, max) = SubSeq(l.entries, lo - l.snapIndex, cut - l.snapIndex)
    BY <2>2, Zenon DEF Slice
  <2>4. end = k
    <3>1. hi - 1 = k
      OBVIOUS
    <3> QED
      BY <2>1, <3>1, MinOfTwo
  <2>5. cut = end
    BY <1>1
  <2> HIDE DEF end, cut
  <2> QED
    BY <2>3, <2>4, <2>5
<1> QED
  BY <1>1

\* Applying the log after j, up to k, continues what was applied before.
LEMMA AppliedPart ==
  ASSUME NEW n \in Node, Shape(n), Covers(n.snapshot), NEW j \in Nat,
         n.log.snapIndex <= j, NEW k \in Nat, j <= k, k <= Len(FullLog(n))
  PROVE  SubSeq(FullLog(n), 1, j) \o Slice(n.log, j + 1, k + 1, 0)
           = SubSeq(FullLog(n), 1, k)
<1> DEFINE lo == j + 1
           L == FullLog(n)
           b == SubSeq(L, 1, j)
           s == n.log.snapIndex
           es == n.log.entries
           x == Slice(n.log, lo, k + 1, 0)
           p == SubSeq(L, 1, k)
<1>1. /\ L \in Seq(Entry) /\ Len(L) = LastIndex(n.log) /\ Len(L) \in Nat
      /\ \A i \in 1 .. Len(es) : L[s + i] = es[i]
  BY LogOf
<1>2. /\ s \in Nat /\ es \in Seq(Entry) /\ Len(es) \in Nat /\ Len(L) = s + Len(es)
      /\ lo \in Nat /\ s < lo /\ lo <= k + 1 /\ j = lo - 1
  BY <1>1, NodeFields, LogFields DEF LastIndex
<1> HIDE DEF lo
<1>3. x = SubSeq(es, lo - s, k - s)
  <2> DEFINE hi == k + 1
  <2>1. hi = k + 1 /\ k \in Int /\ k <= LastIndex(n.log)
    BY <1>1
  <2>2. n.log \in Log /\ lo \in Int /\ lo >= FirstIndex(n.log)
    BY <1>2, NodeFields DEF FirstIndex
  <2>3. Slice(n.log, lo, hi, 0) = SubSeq(n.log.entries, lo - n.log.snapIndex, k - n.log.snapIndex)
    <3> HIDE DEF hi
    <3> QED
      BY <2>1, <2>2, SliceWhole
  <2> QED
    BY <2>3
<1> HIDE DEF L, x, es, s, p, b
<1>4. lo - s \in Nat \ {0} /\ k - s \in Int /\ k - s <= Len(es) /\ lo - 1 \in Nat
      /\ lo - 1 <= Len(L) /\ lo - 1 \in Int /\ 1 \in Nat \ {0} /\ k <= Len(L)
  BY <1>2 DEF s, L
<1>5. /\ x \in Seq(Entry) /\ Len(x) = IF lo - s <= k - s THEN (k - s) - (lo - s) + 1 ELSE 0
      /\ \A i \in 1 .. Len(x) : x[i] = es[lo - s + i - 1]
  BY <1>2, <1>3, <1>4, PartFields
<1>6. /\ b \in Seq(Entry) /\ Len(b) = IF 1 <= j THEN j - 1 + 1 ELSE 0
      /\ \A i \in 1 .. Len(b) : b[i] = L[1 + i - 1]
  BY <1>1, <1>2, <1>4, PartFields DEF b
<1>7. /\ p \in Seq(Entry) /\ Len(p) = IF 1 <= k THEN k - 1 + 1 ELSE 0
      /\ \A i \in 1 .. Len(p) : p[i] = L[1 + i - 1]
  BY <1>1, <1>4, PartFields DEF p
<1>8. Len(b) = lo - 1 /\ Len(x) = k - lo + 1 /\ Len(p) = k
  <2>1. /\ Len(x) = IF lo - s <= k - s THEN (k - s) - (lo - s) + 1 ELSE 0
        /\ Len(b) = IF 1 <= j THEN j - 1 + 1 ELSE 0
        /\ Len(p) = IF 1 <= k THEN k - 1 + 1 ELSE 0
    BY <1>5, <1>6, <1>7
  <2>2. s \in Nat /\ lo \in Nat /\ j = lo - 1 /\ lo <= k + 1
    BY <1>2, <1>4
  <2>3. Len(b) = lo - 1
    BY <2>1, <2>2
  <2>4. Len(p) = k
    BY <2>1
  <2>5. Len(x) = k - lo + 1
    BY <2>1, <2>2
  <2> QED
    BY <2>3, <2>4, <2>5
<1>9. /\ b \o x \in Seq(Entry) /\ Len(b \o x) = Len(b) + Len(x)
      /\ \A i \in 1 .. Len(b) + Len(x) :
           (b \o x)[i] = IF i <= Len(b) THEN b[i] ELSE x[i - Len(b)]
  BY <1>5, <1>6, ConcatProperties
<1>10. Len(b) + Len(x) = k
  BY <1>2, <1>8
<1>11. ASSUME NEW i \in 1 .. k PROVE (b \o x)[i] = p[i]
  <2>0. p[i] = L[i]
    <3>1. i \in 1 .. Len(p) /\ 1 + i - 1 = i
      BY <1>8
    <3> QED
      BY <1>7, <3>1
  <2>1. CASE i <= Len(b)
    <3>1. i \in 1 .. Len(b) /\ 1 + i - 1 = i
      BY <1>8, <2>1
    <3> QED
      BY <1>6, <1>9, <1>10, <2>0, <2>1, <3>1
  <2>2. CASE ~(i <= Len(b))
    <3>1. /\ i - Len(b) \in 1 .. Len(x) /\ lo - s + (i - Len(b)) - 1 \in 1 .. Len(es)
          /\ s + (lo - s + (i - Len(b)) - 1) = i
      <4>1. /\ i \in Nat /\ i <= k /\ lo \in Nat /\ i > lo - 1 /\ s \in Nat /\ lo - s \in Nat \ {0}
            /\ k - s <= Len(es) /\ Len(es) \in Nat
        BY <1>2, <1>4, <1>8, <2>2
      <4>2. i - Len(b) = i - lo + 1 /\ Len(x) = k - lo + 1
        BY <1>2, <1>8
      <4>3. lo - s + (i - Len(b)) - 1 = i - s
        BY <4>1, <4>2
      <4>4. i - Len(b) \in 1 .. Len(x)
        BY <4>1, <4>2
      <4>5. i - s \in 1 .. Len(es) /\ s + (i - s) = i
        BY <4>1
      <4> QED
        BY <4>3, <4>4, <4>5
    <3>2. (b \o x)[i] = x[i - Len(b)]
      BY <1>9, <1>10, <2>2
    <3>3. x[i - Len(b)] = es[lo - s + (i - Len(b)) - 1]
      BY <1>5, <3>1
    <3>4. L[s + (lo - s + (i - Len(b)) - 1)] = es[lo - s + (i - Len(b)) - 1]
      BY <1>1, <3>1
    <3> QED
      BY <2>0, <3>1, <3>2, <3>3, <3>4
  <2> QED
    BY <2>1, <2>2
<1>12. b \o x = p
  BY <1>7, <1>8, <1>9, <1>10, <1>11, SeqEqual
<1> QED
  BY <1>12 DEF x, p, L, b, lo

\* Committing and applying what is committed in the term's history.
LEMMA CommitGood ==
  ASSUME NEW d, NEW h, NEW R, NEW a, NEW n, Good(d, h, R, a, n),
         NEW k \in Nat, n.commitIndex <= k, Sealed(h, FullLog(n), k, n.term)
  PROVE  LET q == ApplyCommitted([n EXCEPT !.commitIndex = k]) IN
         /\ Good(d, h, R, a, q) /\ q.state = n.state /\ q.commitIndex = k
         /\ q.log = n.log /\ q.snapshot = n.snapshot /\ q.id = n.id /\ q.term = n.term
         /\ q.appendedFrom = n.appendedFrom /\ q.confHistory = n.confHistory
<1> DEFINE b == [n EXCEPT !.commitIndex = k]
           x == Slice(n.log, n.commitIndex + 1, k + 1, 0)
           q == ApplyCommitted(b)
           L == FullLog(n)
<1>1. /\ n \in Node /\ Static(n) /\ Tracks(d, n) /\ Shape(n) /\ Covers(n.snapshot)
      /\ L \in Seq(Entry) /\ Len(L) \in Nat /\ n.snapDirty = "none" /\ a \in Seq(Entry)
      /\ Core(h, R, a, n)
  BY GoodFacts DEF Good
<1>2. /\ n.commitIndex \in Nat /\ n.log.snapIndex \in Nat /\ n.lastApplied = n.commitIndex
      /\ n.log.snapIndex <= n.commitIndex /\ n.log \in Log /\ n.applied \in Seq(Entry)
  BY <1>1, GoodBounds, NodeFields
<1>3. Tracks(d, q)
  BY <1>1, CommitTracks
<1>4. Static(q)
  <2>1. b \in Node
    BY <1>1 DEF Node
  <2>2. /\ b.learner = n.learner /\ b.log = n.log /\ b.confHistory = n.confHistory
        /\ b.snapshot = n.snapshot /\ b.out = n.out
    BY <1>1 DEF Node
  <2> HIDE DEF b
  <2>3. Static(b)
    BY <1>1, <2>2 DEF Static, InitialOnly
  <2> QED
    BY <2>1, <2>3, ApplyCommittedSteady DEF Steady
<1>5. k <= Len(L)
  BY <1>1 DEF Sealed, Agree
<1>6. q = [n EXCEPT !.commitIndex = k, !.lastApplied = k,
                    !.applied = IF k = n.commitIndex THEN n.applied ELSE n.applied \o x]
  <2>1. /\ b.commitIndex = k /\ b.lastApplied = n.commitIndex /\ b.log = n.log
        /\ b.applied = n.applied
    BY <1>1, <1>2 DEF Node
  <2>2. CASE k = n.commitIndex
    <3>1. q = b
      BY <2>1, <2>2 DEF ApplyCommitted
    <3> QED
      BY <1>1, <1>2, <2>1, <2>2, <3>1 DEF Node
  <2>3. CASE k # n.commitIndex
    <3>1. q = [b EXCEPT !.applied = b.applied \o Slice(b.log, b.lastApplied + 1, b.commitIndex + 1, 0),
                        !.lastApplied = b.commitIndex]
      BY <1>2, <2>1, <2>3 DEF ApplyCommitted
    <3>2. q = [b EXCEPT !.applied = n.applied \o x, !.lastApplied = k]
      BY <2>1, <3>1
    <3> QED
      BY <1>1, <2>3, <3>2 DEF Node
  <2> QED
    BY <2>2, <2>3
<1> HIDE DEF q, b, x
<1>7. /\ q.id = n.id /\ q.term = n.term /\ q.votedFor = n.votedFor
      /\ q.log = n.log /\ q.snapshot = n.snapshot /\ q.state = n.state
      /\ q.commitIndex = k /\ q.lastApplied = k /\ q.out = n.out /\ q.panic = n.panic
      /\ q.snapDirty = n.snapDirty /\ q.prs = n.prs /\ q.votes = n.votes
      /\ q.appendedFrom = n.appendedFrom /\ q.confHistory = n.confHistory
      /\ q.applied = IF k = n.commitIndex THEN n.applied ELSE n.applied \o x
  BY <1>1, <1>6 DEF Node
<1>8. FullLog(q) = L
  BY <1>7 DEF FullLog
<1> HIDE DEF L
<1>9. AppAfter(a, q) = SubSeq(L, 1, k)
  <2>1. a \o n.applied = SubSeq(L, 1, n.commitIndex)
    BY <1>1 DEF Core, AppAfter, L
  <2>2. AppAfter(a, q) = a \o q.applied
    BY <1>1, <1>7 DEF AppAfter
  <2>3. CASE k = n.commitIndex
    BY <1>7, <2>1, <2>2, <2>3
  <2>4. CASE k # n.commitIndex
    <3>1. x \in Seq(Entry)
      BY <1>2, SliceType DEF x
    <3>2. a \o (n.applied \o x) = (a \o n.applied) \o x
      BY <1>1, <1>2, <3>1, ConcatThree
    <3>4. SubSeq(L, 1, n.commitIndex) \o x = SubSeq(L, 1, k)
      BY <1>1, <1>2, <1>5, AppliedPart, Zenon DEF x, L
    <3> QED
      BY <1>7, <2>1, <2>2, <2>4, <3>2, <3>4
  <2> QED
    BY <2>3, <2>4
<1>10. Core(h, R, a, q)
  <2>1. Len(a) <= k
    <3>1. Len(a) <= n.commitIndex /\ Len(a) \in Nat
      BY <1>1, LenProperties DEF Core
    <3> QED
      BY <1>2, <3>1
  <2>2. Sealed(h, FullLog(q), k, q.term)
    BY <1>7, <1>8 DEF L
  <2>3. Mine(h, q.id) = FullLog(q)
    BY <1>1, <1>7, <1>8 DEF Core, L
  <2>4. AppAfter(a, q) = SubSeq(FullLog(q), 1, q.commitIndex)
    BY <1>7, <1>8, <1>9
  <2> QED
    BY <1>1, <1>7, <2>1, <2>2, <2>3, <2>4 DEF Core
<1>11. Role(h, q)
  <2>1. Role(h, n)
    BY DEF Good
  <2> QED
    BY <1>7, <1>8, <2>1 DEF Role, Stands, Peers, L
<1>12. Good(d, h, R, a, q)
  BY <1>3, <1>4, <1>10, <1>11 DEF Good
<1> QED
  BY <1>7, <1>12 DEF q, b

LEMMA StepDownGood ==
  ASSUME NEW d, NEW h, NEW R, NEW a, NEW n, Good(d, h, R, a, n),
         NEW term \in Nat, term <= n.term, NEW leader \in OptServer
  PROVE  /\ Good(d, h, R, a, BecomeFollower(n, term, leader))
         /\ BecomeFollower(n, term, leader).state = "Follower"
         /\ Same(n, BecomeFollower(n, term, leader))
<1> DEFINE q == BecomeFollower(n, term, leader)
<1>1. n \in Node /\ Static(n) /\ Tracks(d, n) /\ n.term \in Nat
  BY GoodFacts, GoodBounds
<1>2. Tracks(d, q) /\ Static(q) /\ q.state = "Follower"
  BY <1>1, BecomeFollowerTracks, BecomeFollowerStatic
<1>3. ~(term > n.term)
  BY <1>1
<1>4. Same(n, q) /\ q.out = n.out
  BY <1>1, <1>3 DEF BecomeFollower, Same, Node
<1>5. Role(h, q)
  BY <1>2, RoleNone
<1>6. Good(d, h, R, a, q)
  BY <1>2, <1>4, <1>5, GoodSame
<1> QED
  BY <1>2, <1>4, <1>6

LEMMA AfterCommitGood ==
  ASSUME NEW d, NEW h, NEW R, NEW a, NEW n, Good(d, h, R, a, n)
  PROVE  Good(d, h, R, a, AfterCommit(n))
<1>1. n.term \in Nat /\ n.term <= n.term /\ None \in OptServer
  BY GoodBounds DEF OptServer
<1>2. Good(d, h, R, a, BecomeFollower(n, n.term, None))
  BY <1>1, StepDownGood
<1> QED
  BY <1>2 DEF AfterCommit

\* The index a quorum has reached is the match of some voter, and the voters
\* that have reached it are a majority.
LEMMA QuorumReached ==
  ASSUME NEW n \in Node, Config(n) = InitialVoters, NEW b \in Nat,
         \A v \in InitialVoters : MatchOf(n, v) \in 0 .. b
  PROVE  /\ QuorumMatch(n) \in Nat
         /\ Majority({v \in InitialVoters : MatchOf(n, v) >= QuorumMatch(n)})
<1> DEFINE V == InitialVoters
           K == {MatchOf(n, v) : v \in V}
           At(k) == {v \in V : MatchOf(n, v) >= k}
           S == {k \in K : Cardinality(At(k)) >= Quorum(V)}
<1>1. K \in SUBSET (0 .. b) /\ K \in SUBSET Nat /\ K # {}
  BY VotersAssumption
<1>2. Min(K) \in K /\ \A y \in K : Min(K) <= y
  BY <1>1, MinOfNat
<1>3. At(Min(K)) = V
  <2>1. \A v \in V : MatchOf(n, v) \in K /\ MatchOf(n, v) \in Nat /\ Min(K) \in Nat
    BY <1>1, <1>2
  <2> QED
    BY <1>2, <2>1
<1>4. Cardinality(V) >= Quorum(V)
  <2>1. IsFiniteSet(V) /\ Cardinality(V) \in Nat
    BY InitialQuorum
  <2>2. Cardinality(V) # 0
    BY <2>1, FS_EmptySet, VotersAssumption
  <2>3. ASSUME NEW c \in Nat, c # 0 PROVE c >= c \div 2 + 1
    BY <2>3
  <2> QED
    BY <2>1, <2>2, <2>3 DEF Quorum
<1>5. Min(K) \in S
  BY <1>2, <1>3, <1>4
<1>6. S # {} /\ S \in SUBSET (0 .. b)
  BY <1>1, <1>5
<1>7. Max(S) \in S
  BY <1>6, MaxOfNat
<1>8. QuorumMatch(n) = Max(S)
  BY Zenon DEF QuorumMatch
<1>9. Max(S) \in Nat /\ Cardinality(At(Max(S))) >= Quorum(V)
  BY <1>6, <1>7
<1>10. Majority(At(Max(S)))
  BY <1>9 DEF Majority
<1> QED
  BY <1>8, <1>9, <1>10

\* Counting commits only what a majority holds of the leader's own term.
LEMMA CountedChosen ==
  ASSUME NEW d, NEW h, NEW R, NEW a, NEW n, Good(d, h, R, a, n), n.state = "Leader",
         NEW k, k = QuorumMatch(n), k \in n.commitIndex + 1 .. LastIndex(n.log),
         CommittableAt(n, k)
  PROVE  k \in Nat /\ n.commitIndex <= k /\ Sealed(h, FullLog(n), k, n.term)
<1> DEFINE L == FullLog(n)
           T == n.term
           Q == {v \in InitialVoters : MatchOf(n, v) >= k}
<1>1. /\ n \in Node /\ Config(n) = InitialVoters /\ Shape(n) /\ Covers(n.snapshot)
      /\ L \in Seq(Entry) /\ Len(L) \in Nat /\ Len(L) = LastIndex(n.log)
      /\ h \in History /\ h.held[n.id][T] = L
  BY GoodFacts
<1>2. /\ n.id \in Server /\ T \in Nat /\ n.commitIndex \in Nat /\ n.log.snapIndex \in Nat
      /\ n.log.snapIndex <= n.commitIndex /\ n.prs \in [Server -> Progress]
  BY GoodBounds
<1>3. h.led[T] = L /\ Peers(h, n)
  BY GoodLeader
<1>4. \A v \in Server : h.held[v][T] \in Seq(Entry)
  BY <1>1, <1>2, HistoryFields
<1> HIDE DEF L, T
<1>5. ASSUME NEW v \in Server
      PROVE  MatchOf(n, v) \in 0 .. Len(L) /\ Agree(h.held[v][T], L, MatchOf(n, v))
  <2>1. CASE v = n.id
    <3>1. MatchOf(n, v) = Len(L)
      BY <1>1, <2>1 DEF MatchOf
    <3>2. Agree(L, L, Len(L))
      BY <1>1 DEF Agree
    <3> QED
      BY <1>1, <2>1, <3>1, <3>2
  <2>2. CASE v # n.id
    <3>1. MatchOf(n, v) = n.prs[v].match /\ n.prs[v].match \in Nat
      BY <1>2, <2>2, ProgressFields DEF MatchOf
    <3>2. Agree(h.held[v][T], L, MatchOf(n, v))
      BY <1>3, <2>2, <3>1 DEF Peers, L, T
    <3> QED
      BY <1>1, <3>1, <3>2 DEF Agree
  <2> QED
    BY <2>1, <2>2
<1>6. \A v \in InitialVoters : MatchOf(n, v) \in 0 .. Len(L)
  BY <1>5, VotersAssumption
<1>7. k \in Nat /\ Majority(Q)
  BY <1>1, <1>6, QuorumReached
<1>8. n.commitIndex <= k /\ k <= Len(L) /\ k # 0 /\ n.log.snapIndex <= k
  BY <1>1, <1>2, <1>7
<1>9. Point(h, T, k)
  <2>1. HasTerm(n.log, k)
    BY <1>1, <1>2, <1>7, <1>8 DEF HasTerm
  <2>2. TermAt(n.log, k) = TermOf(L, k)
    BY <1>1, <1>7, <2>1, TermOfLog DEF L
  <2>3. L[k].term = T
    BY <1>8, <2>2 DEF CommittableAt, TermOf, T
  <2>4. k \in 1 .. Len(L)
    BY <1>1, <1>7, <1>8
  <2> QED
    BY <1>3, <2>3, <2>4 DEF Point, T
<1>10. ASSUME NEW v \in Q PROVE Holds(h, v, T, k)
  <2>1. v \in Server /\ MatchOf(n, v) >= k
    BY VotersAssumption
  <2>2. Agree(h.held[v][T], L, MatchOf(n, v)) /\ MatchOf(n, v) \in Nat
    BY <1>5, <2>1
  <2>3. k <= MatchOf(n, v)
    BY <1>7, <2>1, <2>2
  <2>4. Agree(h.held[v][T], L, k)
    BY <1>1, <1>4, <1>7, <2>1, <2>2, <2>3, AgreeFacts
  <2> QED
    BY <1>3, <2>4 DEF Holds, T
<1>11. Chosen(h, T, k)
  <2>1. Q \in SUBSET InitialVoters
    OBVIOUS
  <2> HIDE DEF Q
  <2> QED
    BY <1>7, <1>9, <1>10, <2>1 DEF Chosen
<1>12. Agree(L, h.led[T], k)
  BY <1>1, <1>3, <1>7, <1>8 DEF Agree, T
<1>13. Sealed(h, L, k, T)
  <2>1. T <= T /\ k <= k
    BY <1>2, <1>7 DEF T
  <2> QED
    BY <1>2, <1>7, <1>11, <1>12, <2>1 DEF Sealed, T
<1> QED
  BY <1>7, <1>8, <1>13 DEF L, T

LEMMA MaybeCommitGood ==
  ASSUME NEW d, NEW h, NEW R, NEW a, NEW n, Good(d, h, R, a, n)
  PROVE  Good(d, h, R, a, MaybeCommit(n))
<1> DEFINE k == QuorumMatch(n)
           b == ApplyCommitted([n EXCEPT !.commitIndex = k])
           c == AfterCommit(b)
           counts == /\ n.state = "Leader" /\ k \in n.commitIndex + 1 .. LastIndex(n.log)
                     /\ CommittableAt(n, k)
<1>1. MaybeCommit(n) = IF counts
                       THEN IF c.state = "Leader" THEN BroadcastAppend(c) ELSE c
                       ELSE n
  BY Zenon DEF MaybeCommit
<1>2. ASSUME counts PROVE Good(d, h, R, a, c)
  <2>1. k \in Nat /\ n.commitIndex <= k /\ Sealed(h, FullLog(n), k, n.term)
    BY <1>2, CountedChosen
  <2>2. Good(d, h, R, a, b)
    <3> HIDE DEF k
    <3> QED
      BY <2>1, CommitGood
  <2> HIDE DEF b
  <2> QED
    BY <2>2, AfterCommitGood
<1>3. ASSUME counts, c.state = "Leader" PROVE Good(d, h, R, a, BroadcastAppend(c))
  BY <1>2, <1>3, BroadcastGood
<1> HIDE DEF c, counts
<1> QED
  BY <1>1, <1>2, <1>3

LEMMA MaybeCommitThenBroadcastGood ==
  ASSUME NEW d, NEW h, NEW R, NEW a, NEW n, Good(d, h, R, a, n)
  PROVE  Good(d, h, R, a, MaybeCommitThenBroadcast(n))
<1> DEFINE c == MaybeCommit(n)
<1>1. Good(d, h, R, a, c)
  BY MaybeCommitGood
<1>2. MaybeCommitThenBroadcast(n) = IF c.state = "Leader" THEN BroadcastAppend(c) ELSE c
  BY Zenon DEF MaybeCommitThenBroadcast
<1> HIDE DEF c
<1> QED
  BY <1>1, <1>2, BroadcastGood

-----------------------------------------------------------------------------
(* What moves of the history leave true *)

LEMMA AgreePrefix ==
  ASSUME NEW a \in Seq(Entry), NEW b \in Seq(Entry), NEW k \in Nat, Agree(a, b, k)
  PROVE  SubSeq(a, 1, k) = SubSeq(b, 1, k)
<1> DEFINE p == SubSeq(a, 1, k)
           q == SubSeq(b, 1, k)
<1>1. /\ k <= Len(a) /\ k <= Len(b) /\ Len(a) \in Nat /\ Len(b) \in Nat /\ 1 \in Nat \ {0}
      /\ k \in Int /\ \A i \in 1 .. k : a[i] = b[i]
  BY LenProperties DEF Agree
<1>2. /\ p \in Seq(Entry) /\ Len(p) = IF 1 <= k THEN k - 1 + 1 ELSE 0
      /\ \A i \in 1 .. Len(p) : p[i] = a[1 + i - 1]
  BY <1>1, PartFields
<1>3. /\ q \in Seq(Entry) /\ Len(q) = IF 1 <= k THEN k - 1 + 1 ELSE 0
      /\ \A i \in 1 .. Len(q) : q[i] = b[1 + i - 1]
  BY <1>1, PartFields
<1> HIDE DEF p, q
<1>4. Len(p) = k /\ Len(q) = k
  BY <1>2, <1>3
<1>5. ASSUME NEW i \in 1 .. k PROVE p[i] = q[i]
  <2>1. 1 + i - 1 = i /\ i \in 1 .. Len(p) /\ i \in 1 .. Len(q)
    BY <1>4
  <2> QED
    BY <1>1, <1>2, <1>3, <2>1
<1>6. p = q
  BY <1>2, <1>3, <1>4, <1>5, SeqEqual
<1> QED
  BY <1>6 DEF p, q

\* The log of a term's leader keeps what it had.
LEMMA LedGrows ==
  ASSUME NEW h \in History, NEW g \in History, NEW i \in Server, Grows(h, g, i),
         NEW t \in Nat, h.owner[t] # None
  PROVE  /\ g.owner[t] = h.owner[t] /\ g.owner[t] # None
         /\ h.led[t] \in Seq(Entry) /\ g.led[t] \in Seq(Entry)
         /\ Agree(h.led[t], g.led[t], Len(h.led[t]))
         /\ \A u, k \in Nat : Sealed(h, h.led[t], k, u) => Sealed(g, g.led[t], k, u)
<1> DEFINE c == h.led[t]
           e == g.led[t]
<1>1. g.owner[t] = h.owner[t] /\ Agree(c, e, Len(c))
  BY DEF Grows
<1>2. c \in Seq(Entry) /\ e \in Seq(Entry)
  BY HistoryFields
<1> HIDE DEF c, e
<1>3. Len(c) \in Nat
  BY <1>2, LenProperties
<1>4. ASSUME NEW u \in Nat, NEW k \in Nat, Sealed(h, c, k, u)
      PROVE  Sealed(g, e, k, u)
  <2>1. u <= u /\ k <= k
    OBVIOUS
  <2>2. Sealed(g, c, k, u)
    BY <1>2, <1>4, <2>1, SealedGrows
  <2>3. k <= Len(c)
    BY <1>3, <1>4 DEF Sealed, Agree
  <2>4. Agree(e, c, k)
    BY <1>1, <1>2, <1>3, <2>3 DEF Agree
  <2> QED
    BY <1>2, <2>1, <2>2, <2>4, SealedPart
<1> QED
  BY <1>1, <1>2, <1>4 DEF c, e

\* What was true of a history is true of its continuations.
LEMMA TruthfulGrows ==
  ASSUME NEW h \in History, NEW g \in History, NEW i \in Server, Grows(h, g, i),
         NEW R, NEW S, R \subseteq S, NEW m \in Message, Truthful(h, R, m)
  PROVE  Truthful(g, S, m)
<1>1. m.from \in Server /\ m.to \in Server /\ m.term \in Nat
  BY MessageEnds
<1>2. m.type = "Vote" => m.preVote \/ TrueRequest(g, m)
  <2>1. SUFFICES ASSUME TrueRequest(h, m) PROVE TrueRequest(g, m)
    BY DEF Truthful
  <2>2. h.vote[m.from][m.term] = m.from /\ m.from # None
    BY <1>1, <2>1, ServerAssumption DEF TrueRequest
  <2>3. /\ g.vote[m.from][m.term] = m.from
        /\ g.bid[m.from][m.term] = h.bid[m.from][m.term]
    BY <1>1, <2>2 DEF Grows
  <2> QED
    BY <2>1, <2>3 DEF TrueRequest
<1>3. Granted(m) => g.vote[m.from][m.term] = m.to
  <2>1. m.to # None
    BY <1>1, ServerAssumption
  <2> QED
    BY <1>1, <2>1 DEF Grows, Truthful
<1>4. ASSUME m.type = "App" PROVE TrueEntries(g, m)
  <2> DEFINE c == h.led[m.term]
             e == g.led[m.term]
             p == m.prevLogIndex
  <2>1. /\ h.owner[m.term] # None
        /\ p + Len(m.entries) <= Len(c)
        /\ \A k \in 1 .. Len(m.entries) : m.entries[k] = c[p + k]
        /\ m.prevLogTerm = TermOf(c, p) /\ Sealed(h, c, m.commit, m.term)
    BY <1>4 DEF Truthful, TrueEntries
  <2>2. p \in Nat /\ m.entries \in Seq(Entry) /\ m.commit \in Nat
    BY <1>4, MessageOfType DEF App
  <2>3. /\ g.owner[m.term] # None /\ c \in Seq(Entry) /\ e \in Seq(Entry)
        /\ Agree(c, e, Len(c)) /\ Sealed(g, e, m.commit, m.term)
    BY <1>1, <2>1, <2>2, LedGrows
  <2> HIDE DEF c, e, p
  <2>4. Len(m.entries) \in Nat /\ Len(c) \in Nat /\ Len(e) \in Nat /\ Len(c) <= Len(e)
        /\ \A k \in 1 .. Len(c) : c[k] = e[k]
    BY <2>2, <2>3, LenProperties DEF Agree
  <2>5. p + Len(m.entries) <= Len(e)
    BY <2>1, <2>2, <2>4
  <2>6. ASSUME NEW k \in 1 .. Len(m.entries) PROVE m.entries[k] = e[p + k]
    <3>1. p + k \in 1 .. Len(c)
      BY <2>1, <2>2, <2>4
    <3> QED
      BY <2>1, <2>4, <3>1
  <2>7. TermOf(c, p) = TermOf(e, p)
    <3>1. p # 0 => p \in 1 .. Len(c)
      BY <2>1, <2>2, <2>4
    <3> QED
      BY <2>4, <3>1 DEF TermOf
  <2> QED
    BY <2>1, <2>3, <2>5, <2>6, <2>7 DEF TrueEntries, c, e, p
<1>5. m.type \in {"AppResp", "SnapResp"} => Holds(g, m.from, m.term, m.matchIndex)
  <2>1. SUFFICES ASSUME m.type \in {"AppResp", "SnapResp"}
                 PROVE  Holds(g, m.from, m.term, m.matchIndex)
    OBVIOUS
  <2>2. m.matchIndex \in Nat
    BY <2>1, MessageOfType DEF AppResp, SnapResp
  <2> QED
    BY <1>1, <2>1, <2>2 DEF Grows, Truthful
<1>6. ASSUME m.type = "Snap" PROVE TrueSnapshot(g, S, m)
  <2> DEFINE c == h.led[m.term]
             e == g.led[m.term]
             s == m.snapshot
  <2>1. /\ h.owner[m.term] # None /\ Covers(s) /\ Vouched(R, s) /\ s.index > 0
        /\ Agree(s.data, c, s.index) /\ Sealed(h, c, s.index, m.term)
    BY <1>6 DEF Truthful, TrueSnapshot
  <2>2. s.index \in Nat /\ s.data \in Seq(Entry)
    BY <1>6, MessageOfType, SnapshotFields DEF Snap
  <2>3. /\ g.owner[m.term] # None /\ c \in Seq(Entry) /\ e \in Seq(Entry)
        /\ Agree(c, e, Len(c)) /\ Sealed(g, e, s.index, m.term)
    BY <1>1, <2>1, <2>2, LedGrows
  <2>4. Vouched(S, s)
    BY <2>1 DEF Vouched
  <2> HIDE DEF c, e, s
  <2>5. Agree(s.data, e, s.index)
    BY <2>1, <2>2, <2>3, LenProperties DEF Agree
  <2> QED
    BY <2>1, <2>3, <2>4, <2>5 DEF TrueSnapshot, c, e, s
<1> QED
  BY <1>2, <1>3, <1>4, <1>5, <1>6 DEF Truthful

\* A node of another server does not notice the move.
LEMMA OtherGrows ==
  ASSUME NEW h, HistoryInv(h), NEW g \in History, NEW i \in Server, Grows(h, g, i),
         NEW R, NEW S, R \subseteq S, NEW a \in Seq(Entry), NEW n \in Node, n.id # i,
         Shape(n), Core(h, R, a, n), Role(h, n)
  PROVE  Core(g, S, a, n) /\ Role(g, n)
<1> DEFINE L == FullLog(n)
           T == n.term
           j == n.id
<1>1. /\ j \in Server /\ T \in Nat /\ n.commitIndex \in Nat /\ h \in History
      /\ n.out \in SUBSET Message /\ j # None
  BY NodeFields, ServerAssumption DEF HistoryInv
<1>2. L \in Seq(Entry)
  BY LogOf DEF Core
<1>3. /\ g.term[j] = h.term[j] /\ g.vote[j][T] = h.vote[j][T]
      /\ g.held[j][T] = h.held[j][T] /\ g.bid[j][T] = h.bid[j][T]
  BY <1>1 DEF Grows
<1>4. Core(g, S, a, n)
  <2>1. Mine(g, j) = L
    BY <1>3 DEF Core, Mine
  <2>2. Vouched(S, n.snapshot)
    BY DEF Core, Vouched
  <2>3. Sealed(g, L, n.commitIndex, T)
    <3>1. Sealed(h, L, n.commitIndex, T) /\ T <= T
      BY <1>1 DEF Core
    <3> HIDE DEF L, T
    <3> QED
      BY <1>1, <1>2, <3>1, SealedGrows
  <2>4. \A m \in n.out : Truthful(g, S, m)
    BY <1>1, TruthfulGrows DEF Core
  <2> QED
    BY <1>3, <2>1, <2>2, <2>3, <2>4 DEF Core
<1>5. ASSUME n.state = "Candidate" PROVE Stands(g, n)
  <2>1. /\ h.owner[T] # j /\ n.votedFor = j /\ h.bid[j][T] = L
        /\ \A v \in Server : n.votes[v] = "yes" => h.vote[v][T] = j
    BY <1>5 DEF Role, Stands
  <2>2. g.owner[T] # j
    BY <1>1, <2>1 DEF Grows
  <2>3. \A v \in Server : n.votes[v] = "yes" => g.vote[v][T] = j
    BY <1>1, <2>1 DEF Grows
  <2> QED
    BY <1>3, <2>1, <2>2, <2>3 DEF Stands
<1>6. ASSUME n.state = "Leader" PROVE g.owner[T] = j /\ Peers(g, n)
  <2>1. h.owner[T] = j /\ Peers(h, n)
    BY <1>6 DEF Role
  <2>2. g.owner[T] = j
    BY <1>1, <2>1 DEF Grows
  <2>3. g.led[T] = h.led[T]
    BY <1>1, <2>2 DEF Grows
  <2>4. h.led[T] = L
    BY <1>1, <2>1 DEF HistoryInv, LedOK, Core, Mine
  <2>5. ASSUME NEW s \in Server
        PROVE  /\ n.prs[s].next <= Len(L) + 1
               /\ Agree(g.held[s][T], L, n.prs[s].match)
    <3>1. n.prs[s].next <= Len(L) + 1 /\ Agree(h.held[s][T], L, n.prs[s].match)
      BY <2>1 DEF Peers
    <3>2. n.prs[s].match \in Nat
      BY NodeFields, ProgressFields
    <3>3. Holds(h, s, T, n.prs[s].match)
      BY <2>4, <3>1 DEF Holds
    <3>4. Holds(g, s, T, n.prs[s].match)
      BY <1>1, <3>2, <3>3 DEF Grows
    <3> QED
      BY <2>3, <2>4, <3>1, <3>4 DEF Holds
  <2> QED
    BY <2>2, <2>5 DEF Peers
<1> QED
  BY <1>4, <1>5, <1>6 DEF Role

\* A node that moves with the history, keeping what it has committed.
Carries(h, g, n, q) ==
  /\ q.id = n.id /\ q.snapshot = n.snapshot /\ q.snapDirty = n.snapDirty
  /\ q.commitIndex = n.commitIndex /\ q.lastApplied = n.lastApplied
  /\ q.applied = n.applied /\ q.panic = n.panic /\ q.out = n.out
  /\ n.term <= q.term /\ g.term[n.id] = q.term /\ g.vote[n.id][q.term] = q.votedFor
  /\ Mine(g, n.id) = FullLog(q) /\ Agree(FullLog(q), FullLog(n), n.commitIndex)
LEMMA CoreMoves ==
  ASSUME NEW h \in History, NEW g \in History, NEW n \in Node, Shape(n),
         Grows(h, g, n.id), NEW R, NEW a, Core(h, R, a, n),
         NEW q \in Node, Carries(h, g, n, q)
  PROVE  Core(g, R, a, q)
<1> DEFINE L == FullLog(n)
           M == FullLog(q)
           k == n.commitIndex
<1>1. /\ n.id \in Server /\ n.term \in Nat /\ q.term \in Nat /\ k \in Nat
      /\ n.out \in SUBSET Message
  BY NodeFields
<1>2. L \in Seq(Entry)
  BY LogOf DEF Core
<1>3. M \in Seq(Entry)
  BY <1>1, HistoryFields DEF Carries
<1>4. Agree(M, L, k) /\ n.term <= q.term
  BY DEF Carries
<1>5. Sealed(h, L, k, n.term)
  BY DEF Core
<1>6. AppAfter(a, q) = AppAfter(a, n) /\ AppAfter(a, n) = SubSeq(L, 1, k)
  BY DEF AppAfter, Carries, Core
<1> HIDE DEF L, M, k
<1>7. Sealed(g, L, k, q.term)
  BY <1>1, <1>2, <1>4, <1>5, SealedGrows
<1>8. k <= k /\ q.term <= q.term
  BY <1>1
<1>9. Sealed(g, M, k, q.term)
  BY <1>1, <1>2, <1>3, <1>4, <1>7, <1>8, SealedPart
<1>10. SubSeq(M, 1, k) = SubSeq(L, 1, k)
  BY <1>1, <1>2, <1>3, <1>4, AgreePrefix
<1>11. AppAfter(a, q) = SubSeq(M, 1, k)
  BY <1>6, <1>10
<1>12. \A m \in q.out : Truthful(g, R, m)
  BY <1>1, TruthfulGrows DEF Carries, Core
<1>13. /\ g.term[q.id] = q.term /\ g.vote[q.id][q.term] = q.votedFor
       /\ Mine(g, q.id) = FullLog(q) /\ Covers(q.snapshot) /\ Vouched(R, q.snapshot)
       /\ q.lastApplied = q.commitIndex /\ Len(a) <= q.commitIndex /\ ~q.panic
  BY DEF Carries, Core
<1>14. q.commitIndex = k
  BY DEF Carries, k
<1> QED
  BY <1>9, <1>11, <1>12, <1>13, <1>14 DEF Core, M
\* The history has moved with server i, whose node is then q.
Moved(d, h, R, a, i, q) ==
  \E g : g \in History /\ Grows(h, g, i) /\ Good(d, g, R, a, q)
LEMMA GoodMoved ==
  ASSUME NEW d, NEW h, NEW R, NEW a, NEW q, Good(d, h, R, a, q), NEW i
  PROVE  Moved(d, h, R, a, i, q)
BY GoodFacts, GrowsSelf DEF Moved
LEMMA MovedTwice ==
  ASSUME NEW d, NEW h \in History, NEW g \in History, NEW R, NEW a, NEW i \in Server,
         NEW q, Grows(h, g, i), Moved(d, g, R, a, i, q)
  PROVE  Moved(d, h, R, a, i, q)
BY GrowsTwice DEF Moved

-----------------------------------------------------------------------------
(* The leader's appends *)

LEMMA AgreeAppend ==
  ASSUME NEW a \in Seq(Entry), NEW e \in Entry
  PROVE  /\ Append(a, e) \in Seq(Entry) /\ Len(Append(a, e)) = Len(a) + 1
         /\ \A b \in Seq(Entry), k \in Nat : Agree(b, a, k) => Agree(b, Append(a, e), k)
         /\ \A k \in Nat : k <= Len(a) => Agree(Append(a, e), a, k)
<1> DEFINE c == Append(a, e)
<1>1. /\ c \in Seq(Entry) /\ Len(c) = Len(a) + 1 /\ Len(a) \in Nat
      /\ \A i \in 1 .. Len(a) : c[i] = a[i]
  BY AppendProperties, LenProperties
<1> HIDE DEF c
<1>2. ASSUME NEW b \in Seq(Entry), NEW k \in Nat, Agree(b, a, k)
      PROVE  Agree(b, c, k)
  BY <1>1, <1>2, LenProperties DEF Agree
<1>3. ASSUME NEW k \in Nat, k <= Len(a) PROVE Agree(c, a, k)
  BY <1>1, <1>3, LenProperties DEF Agree
<1> QED
  BY <1>1, <1>2, <1>3 DEF c

\* A leader, or a node with the votes of a quorum, appends an entry of its term.
LEMMA AppendEntryMoves ==
  ASSUME NEW d \in Durable, NEW a \in Seq(Entry), NEW h, HistoryInv(h), NEW R, NEW n,
         Tracks(d, n), Static(n), Core(h, R, a, n), n.state = "Leader", Peers(h, n),
         h.owner[n.term] = n.id \/ Wins(h, n.id), NEW type, NEW data,
         \/ type = "Normal" /\ data \in Value
         \/ type = "Noop"   /\ data = None
  PROVE  /\ Moved(d, h, R, a, n.id, AppendEntry(n, type, data))
         /\ AppendEntry(n, type, data).state = "Leader"
         /\ AppendEntry(n, type, data).id = n.id
<1> DEFINE e == [index |-> LastIndex(n.log) + 1, term |-> n.term, type |-> type,
                 data |-> data]
           fresh == IF type = "Config"
                    THEN {v \in data \ {n.id} : n.prs[v] = NoProgress} ELSE {}
           l == AppendLog(n.log, <<e>>)
           r == [s \in Server |-> IF s \in fresh THEN NewProgress(e.index + 1)
                                  ELSE n.prs[s]]
           f == MarkAppended(n, e.index)
           ch == n.confHistory \cup ConfigRecords(<<e>>)
           q == [n EXCEPT !.log = l, !.appendedFrom = f, !.confHistory = ch, !.prs = r]
           L == FullLog(n)
           M == Append(L, e)
           i == n.id
           T == n.term
           g == Lead(h, i, e)
<1>1. /\ n \in Node /\ Shape(n) /\ n.log \in Log /\ T \in Nat /\ i \in Server
      /\ LastIndex(n.log) \in Nat /\ n.commitIndex \in Nat /\ h \in History
      /\ n.snapshot \in Snapshot /\ n.prs \in [Server -> Progress]
  BY NodeFields, IndexType DEF Tracks, HistoryInv
<1>2. e \in Entry
  BY <1>1 DEF Entry
<1>3. AppendEntry(n, type, data) = q
  BY Zenon DEF AppendEntry
<1>4. Tracks(d, q) /\ Static(q) /\ q \in Node
  <2>1. Tracks(d, q)
    BY <1>3, AppendEntryTracks
  <2>2. Static(q)
    BY <1>1, <1>3, AppendEntrySteady DEF Steady
  <2> QED
    BY <2>1, <2>2 DEF Tracks
<1>5. e.index = LastIndex(n.log) + 1 /\ e.term = T
  OBVIOUS
<1>6. r = n.prs
  <2>1. \A s \in Server : r[s] = n.prs[s]
    OBVIOUS
  <2>2. r = [s \in Server |-> r[s]] /\ n.prs = [s \in Server |-> n.prs[s]]
    BY <1>1
  <2> HIDE DEF r
  <2> QED
    BY <2>1, <2>2
<1>7. /\ L \in Seq(Entry) /\ Len(L) \in Nat /\ Len(L) = LastIndex(n.log)
      /\ n.snapshot.data \in Seq(Entry) /\ n.log.entries \in Seq(Entry)
  BY <1>1, LogOf, SnapshotFields, LogFields DEF Core
<1>8. l.entries = n.log.entries \o <<e>>
  BY <1>1 DEF AppendLog, Log
<1> HIDE DEF e
<1>9. /\ M \in Seq(Entry) /\ Len(M) = Len(L) + 1
      /\ \A b \in Seq(Entry), k \in Nat : Agree(b, L, k) => Agree(b, M, k)
      /\ \A k \in Nat : k <= Len(L) => Agree(M, L, k)
  <2> HIDE DEF L
  <2> QED
    BY <1>2, <1>7, AgreeAppend
<1>10. M = n.snapshot.data \o (n.log.entries \o <<e>>)
  <2>1. M = L \o <<e>>
    BY <1>2, <1>7, AppendIsConcat
  <2>2. <<e>> \in Seq(Entry)
    BY <1>2
  <2> QED
    BY <1>7, <2>1, <2>2, ConcatThree DEF FullLog
<1> HIDE DEF l, r, f, ch
<1>11. /\ q.id = i /\ q.term = T /\ q.votedFor = n.votedFor /\ q.log = l
       /\ q.snapshot = n.snapshot /\ q.snapDirty = n.snapDirty
       /\ q.commitIndex = n.commitIndex /\ q.lastApplied = n.lastApplied
       /\ q.applied = n.applied /\ q.panic = n.panic /\ q.out = n.out
       /\ q.state = n.state /\ q.prs = r
  BY <1>1 DEF Node
<1>12. FullLog(q) = M
  BY <1>8, <1>10, <1>11 DEF FullLog
<1> HIDE DEF q, L, M
<1>13. /\ h.term[i] = T /\ Mine(h, i) = L /\ h.vote[i][T] = n.votedFor
       /\ Sealed(h, L, n.commitIndex, T)
  BY DEF Core, L
<1>14. MayLead(h, i, e)
  BY <1>2, <1>5, <1>7, <1>13 DEF MayLead
<1>15. /\ HistoryInv(g) /\ Grows(h, g, i) /\ g \in History
       /\ \A v \in Server : Mine(g, v) = IF v = i THEN Append(Mine(h, i), e) ELSE Mine(h, v)
  <2>1. HistoryInv(g) /\ Grows(h, g, i)
    BY <1>1, <1>14, LeadKeeps, Zenon
  <2>2. \A v \in Server : Mine(g, v) = IF v = i THEN Append(Mine(h, i), e) ELSE Mine(h, v)
    <3> HIDE DEF i
    <3>1. i \in Server /\ HistoryInv(h)
      BY <1>1
    <3> QED
      BY <1>14, <3>1, LeadKeeps
  <2>3. g \in History
    BY <2>1 DEF HistoryInv
  <2> QED
    BY <2>1, <2>2, <2>3
<1>16. /\ g.term = h.term /\ g.vote = h.vote
       /\ g.owner[T] = i
       /\ \A v \in Server : g.held[v][T] = IF v = i THEN M ELSE h.held[v][T]
  BY <1>1, <1>2, <1>13, LeadFields, SMTT(30) DEF M
<1>17. Mine(g, i) = M
  BY <1>1, <1>13, <1>15 DEF M
<1> HIDE DEF g
<1>18. n.commitIndex <= Len(L)
  BY <1>1, <1>7, <1>13, LenProperties DEF Sealed, Agree
<1>19. Carries(h, g, n, q)
  BY <1>1, <1>9, <1>11, <1>12, <1>13, <1>16, <1>17, <1>18 DEF Carries, L
<1>20. Core(g, R, a, q)
  BY <1>1, <1>4, <1>15, <1>19, CoreMoves
<1>21. Peers(g, q)
  <2>1. ASSUME NEW s \in Server
        PROVE  q.prs[s].next <= Len(M) + 1 /\ Agree(g.held[s][T], M, q.prs[s].match)
    <3> DEFINE pr == n.prs[s]
    <3>1. pr.next \in Nat /\ pr.match \in Nat /\ q.prs[s] = pr
      BY <1>1, <1>6, <1>11, ProgressFields
    <3>2. pr.next <= Len(L) + 1 /\ Agree(h.held[s][T], L, pr.match)
      BY DEF Peers, L
    <3> HIDE DEF pr
    <3>3. pr.next <= Len(M) + 1
      BY <1>7, <1>9, <3>1, <3>2 DEF L
    <3>4. CASE s = i
      <4>1. pr.match <= Len(L)
        BY <3>2 DEF Agree
      <4>2. Agree(M, L, pr.match)
        BY <1>9, <3>1, <4>1
      <4>3. Agree(M, M, pr.match)
        BY <1>9, <3>1, <4>2
      <4> QED
        BY <1>16, <3>1, <3>3, <3>4, <4>3
    <3>5. CASE s # i
      <4>1. h.held[s][T] \in Seq(Entry)
        BY <1>1, HistoryFields
      <4> QED
        BY <1>9, <1>16, <3>1, <3>2, <3>3, <3>5, <4>1
    <3> QED
      BY <3>4, <3>5
  <2> QED
    BY <1>11, <1>12, <2>1 DEF Peers
<1>22. Role(g, q)
  BY <1>11, <1>16, <1>21 DEF Role
<1>23. Good(d, g, R, a, q)
  BY <1>4, <1>15, <1>20, <1>22 DEF Good
<1> QED
  BY <1>3, <1>11, <1>15, <1>23 DEF Moved

LEMMA ProposeMoves ==
  ASSUME NEW d, NEW h, NEW R, NEW a, NEW n, Good(d, h, R, a, n), NEW v \in Value
  PROVE  Moved(d, h, R, a, n.id, Propose(n, v))
<1> DEFINE p == AppendEntry(n, "Normal", v)
<1>1. CASE n.state # "Leader" \/ n.transferee # None
  BY <1>1, GoodMoved DEF Propose
<1>2. CASE ~(n.state # "Leader" \/ n.transferee # None)
  <2>1. Moved(d, h, R, a, n.id, p)
    BY <1>2, GoodFacts, GoodLeader, AppendEntryMoves DEF Good
  <2>2. Propose(n, v) = MaybeCommitThenBroadcast(p)
    BY <1>2, Zenon DEF Propose
  <2> HIDE DEF p
  <2> QED
    BY <2>1, <2>2, MaybeCommitThenBroadcastGood DEF Moved
<1> QED
  BY <1>1, <1>2

-----------------------------------------------------------------------------
(* Elections *)

\* A node without peers sends nothing, even if told to broadcast.
LEMMA BroadcastIdle ==
  ASSUME NEW d, NEW h, NEW R, NEW a, NEW n, Good(d, h, R, a, n), n.prs = NoPeers,
         n.state = "Follower"
  PROVE  Good(d, h, R, a, BroadcastAppend(n))
<1> DEFINE targets == ReplicationTargets(n)
           q == SendAppends(n, targets)
           msgs == UNION {AppsFor(n, to) : to \in targets}
           prs == [s \in Server |->
                     IF s \in targets /\ NeedsSnapshot(n, s)
                     THEN [n.prs[s] EXCEPT !.pendingSnap = TRUE] ELSE n.prs[s]]
           stuck == \E to \in targets : CannotSend(n, to)
<1>1. n \in Node /\ Static(n) /\ Tracks(d, n) /\ targets \in SUBSET Server
  BY GoodFacts, ReplicationTargetsType
<1>2. Tracks(d, q) /\ Static(q)
  BY <1>1, SendAppendsTracks, SendAppendsSteady DEF Steady
<1>3. q = [n EXCEPT !.out = n.out \cup msgs, !.prs = prs, !.panic = n.panic \/ stuck]
  BY Zenon DEF SendAppends
<1>4. \A s \in Server : n.prs[s] = NoProgress
  BY DEF NoPeers
<1>5. stuck = FALSE
  BY <1>1, <1>4 DEF CannotSend
<1>6. msgs = {}
  BY <1>1, <1>4 DEF AppsFor
<1> HIDE DEF q, msgs, prs, stuck, targets
<1>7. /\ q.id = n.id /\ q.term = n.term /\ q.votedFor = n.votedFor
      /\ q.log = n.log /\ q.snapshot = n.snapshot
      /\ q.commitIndex = n.commitIndex /\ q.lastApplied = n.lastApplied
      /\ q.applied = n.applied /\ q.state = n.state
      /\ q.out = n.out \cup msgs /\ q.panic = (n.panic \/ stuck)
  BY <1>1, <1>3 DEF Node
<1>8. q.panic = n.panic
  <2>1. n.panic \in BOOLEAN
    BY <1>1, NodeFields
  <2> QED
    BY <1>5, <1>7, <2>1, Zenon
<1>9. Same(n, q)
  BY <1>7, <1>8 DEF Same
<1>10. Role(h, q)
  BY <1>7, RoleNone
<1>11. Good(d, h, R, a, q)
  BY <1>2, <1>6, <1>7, <1>9, <1>10, GoodSame
<1> QED
  BY <1>11 DEF q, targets, BroadcastAppend

\* A leader that has committed leads, or has stepped down.
LEMMA CommitLeads ==
  ASSUME NEW n \in Node, n.state = "Leader"
  PROVE  LET c == MaybeCommit(n) IN
         c.state = "Leader" \/ (c.state = "Follower" /\ c.prs = NoPeers)
<1> DEFINE k == QuorumMatch(n)
           b == ApplyCommitted([n EXCEPT !.commitIndex = k])
           c == AfterCommit(b)
           counts == /\ n.state = "Leader" /\ k \in n.commitIndex + 1 .. LastIndex(n.log)
                     /\ CommittableAt(n, k)
<1>1. MaybeCommit(n) = IF counts
                       THEN IF c.state = "Leader" THEN BroadcastAppend(c) ELSE c
                       ELSE n
  BY Zenon DEF MaybeCommit
<1>2. ASSUME counts PROVE c \in Node
  <2>1. k \in Nat
    BY <1>2, NodeFields, IndexType
  <2> HIDE DEF k
  <2>2. [n EXCEPT !.commitIndex = k] \in Node
    BY <2>1 DEF Node
  <2>3. b \in Node
    BY <2>2, ApplyCommittedQuiet DEF Quiet
  <2> HIDE DEF b
  <2> QED
    BY <2>3, AfterCommitQuiet DEF Quiet
<1>3. ASSUME counts PROVE b.state = "Leader" /\ b \in Node
  <2>1. k \in Nat
    BY <1>3, NodeFields, IndexType
  <2> HIDE DEF k
  <2>2. [n EXCEPT !.commitIndex = k] \in Node /\ [n EXCEPT !.commitIndex = k].state = "Leader"
    BY <2>1 DEF Node
  <2> QED
    BY <2>2, ApplyCommittedQuiet DEF Quiet
<1> HIDE DEF b
<1>4. ASSUME counts PROVE c.state = "Leader" \/ (c.state = "Follower" /\ c.prs = NoPeers)
  <2>1. BecomeFollower(b, b.term, None).state = "Follower"
        /\ BecomeFollower(b, b.term, None).prs = NoPeers
    BY <1>3, <1>4 DEF BecomeFollower, Node
  <2> QED
    BY <1>3, <1>4, <2>1 DEF AfterCommit
<1> HIDE DEF c
<1>5. ASSUME counts, c.state = "Leader" PROVE BroadcastAppend(c).state = "Leader"
  BY <1>2, <1>5 DEF BroadcastAppend, SendAppends, Node
<1> QED
  BY <1>1, <1>4, <1>5

\* The winner of an election leads from the log it stood with.
LEMMA BecomeLeaderMoves ==
  ASSUME NEW d, NEW h, NEW R, NEW a, NEW n, Good(d, h, R, a, n), Wins(h, n.id)
  PROVE  Moved(d, h, R, a, n.id, BecomeLeader(n))
<1> DEFINE r == [s \in Server |->
                   IF s \in Config(n) \ {n.id} THEN NewProgress(LastIndex(n.log) + 1)
                   ELSE NoProgress]
           lead == [n EXCEPT !.state = "Leader", !.leaderID = n.id, !.votes = NoVotes,
                             !.transferee = None, !.prs = r]
           p == AppendEntry(lead, "Noop", None)
           c == MaybeCommit(p)
<1>1. n \in Node /\ Tracks(d, n) /\ Static(n) /\ FullLog(n) \in Seq(Entry)
      /\ Len(FullLog(n)) = LastIndex(n.log) /\ LastIndex(n.log) \in Nat
      /\ h \in History /\ n.term \in Nat
  BY GoodFacts, GoodBounds
<1>2. r \in [Server -> Progress]
  BY <1>1, NodeFields, IndexType, NewProgressType DEF Progress
<1>3. \A s \in Server : r[s].next <= LastIndex(n.log) + 1 /\ r[s].match = 0
  BY <1>1 DEF NewProgress, NoProgress
<1>4. NoVotes \in [Server -> {"none", "yes", "no"}] /\ n.id \in OptServer
      /\ None \in OptServer /\ "Leader" \in States
  BY <1>1, NodeFields DEF NoVotes, OptServer, States
<1>5. BecomeLeader(n) = BroadcastAppend(c)
  BY Zenon DEF BecomeLeader
<1> HIDE DEF r
<1>6. lead \in Node
  BY <1>1, <1>2, <1>4 DEF Node
<1>7. /\ lead.learner = n.learner /\ lead.confHistory = n.confHistory
      /\ Same(n, lead) /\ lead.snapDirty = n.snapDirty /\ lead.out = n.out
      /\ lead.state = "Leader" /\ lead.prs = r /\ lead.appendedFrom = n.appendedFrom
  BY <1>1 DEF Node, Same
<1> HIDE DEF lead
<1>8. Tracks(d, lead)
  BY <1>1, <1>6, <1>7, TracksUntouched DEF Untouched, SameLog, Same
<1>9. Static(lead)
  BY <1>1, <1>7 DEF Static, InitialOnly, Same
<1>10. Core(h, R, a, lead)
  BY <1>7, CoreSame DEF Good
<1>11. Peers(h, lead)
  <2>1. FullLog(lead) = FullLog(n) /\ lead.term = n.term
    BY <1>7 DEF FullLog, Same
  <2>2. \A s \in Server : Agree(h.held[s][n.term], FullLog(n), 0)
    BY <1>1, HistoryFields, AgreeNothing
  <2> QED
    BY <1>1, <1>3, <1>7, <2>1, <2>2 DEF Peers
<1>12. lead.id = n.id
  BY <1>7 DEF Same
<1>13. d \in Durable /\ a \in Seq(Entry) /\ HistoryInv(h)
  BY DEF Good
<1>14. Moved(d, h, R, a, n.id, p) /\ p.state = "Leader"
  <2>1. Wins(h, lead.id)
    BY <1>12
  <2>2. Moved(d, h, R, a, lead.id, p) /\ p.state = "Leader"
    BY <1>7, <1>8, <1>9, <1>10, <1>11, <1>13, <2>1, AppendEntryMoves
  <2> QED
    BY <1>12, <2>2
<1> HIDE DEF p
<1>15. PICK g : g \in History /\ Grows(h, g, n.id) /\ Good(d, g, R, a, p)
  BY <1>14 DEF Moved
<1>16. Good(d, g, R, a, c)
  BY <1>15, MaybeCommitGood
<1>17. c.state = "Leader" \/ (c.state = "Follower" /\ c.prs = NoPeers)
  BY <1>14, <1>15, GoodFacts, CommitLeads
<1> HIDE DEF c
<1>18. Good(d, g, R, a, BroadcastAppend(c))
  BY <1>16, <1>17, BroadcastGood, BroadcastIdle
<1> QED
  BY <1>5, <1>15, <1>18 DEF Moved

\* A candidate that has counted a quorum of votes wins its term.
LEMMA CandidateWins ==
  ASSUME NEW d, NEW h, NEW R, NEW a, NEW n, Good(d, h, R, a, n), n.state = "Candidate",
         VotesReach(n, "yes")
  PROVE  Wins(h, n.id)
<1> DEFINE Q == {v \in Config(n) : n.votes[v] = "yes"}
<1>1. Cardinality(Q) >= Quorum(Config(n))
  BY Zenon DEF VotesReach
<1>2. Config(n) = InitialVoters
  BY GoodFacts
<1>3. Majority(Q)
  BY <1>1, <1>2 DEF Majority
<1>4. Stands(h, n) /\ h.term[n.id] = n.term /\ Mine(h, n.id) = FullLog(n)
      /\ h.vote[n.id][n.term] = n.votedFor /\ HistoryInv(h)
      /\ n.id \in Server /\ n.term \in Nat
  BY GoodFacts, GoodLeader, GoodBounds
<1>5. \A v \in Q : h.vote[v][n.term] = n.id
  BY <1>2, <1>4, VotersAssumption DEF Stands
<1> HIDE DEF Q
<1>6. h.owner[n.term] \in {None, n.id}
  BY <1>3, <1>4, <1>5, OneWinner
<1>7. Q \in SUBSET InitialVoters
  BY <1>3 DEF Majority
<1> QED
  BY <1>3, <1>4, <1>5, <1>6, <1>7 DEF Wins, Stands

LEMMA BallotCast ==
  ASSUME NEW h \in History, NEW i \in Server, NEW T \in Nat, NEW x \in Server \cup {None}
  PROVE  LET g == Ballot(h, i, T, x) IN g.term[i] = T /\ g.vote[i][T] = x
<1> DEFINE g == Ballot(h, i, T, x)
<1>1. IsBallot(g, h, i, T, x)
  BY BallotFields
<1> HIDE DEF g
<1>2. g.term[i] = T /\ g.vote[i][T] = x
  BY <1>1, Zenon DEF IsBallot
<1> QED
  BY <1>2 DEF g

\* Moving to another term or casting a vote, with the history.
LEMMA BallotCore ==
  ASSUME NEW h, HistoryInv(h), NEW n \in Node, Shape(n), NEW R, NEW a, Core(h, R, a, n),
         NEW T \in Nat, NEW x \in OptServer, MayVote(h, n.id, T, x),
         NEW q \in Node, q.term = T, q.votedFor = x, q.id = n.id, q.log = n.log,
         q.snapshot = n.snapshot, q.snapDirty = n.snapDirty,
         q.commitIndex = n.commitIndex, q.lastApplied = n.lastApplied,
         q.applied = n.applied, q.panic = n.panic, q.out = n.out
  PROVE  LET g == Ballot(h, n.id, T, x) IN
         g \in History /\ HistoryInv(g) /\ Grows(h, g, n.id) /\ Core(g, R, a, q)
<1> DEFINE g == Ballot(h, n.id, T, x)
           L == FullLog(n)
<1>1. /\ n.id \in Server /\ h \in History /\ x \in Server \cup {None}
      /\ n.term \in Nat /\ n.commitIndex \in Nat
  BY NodeFields DEF HistoryInv, OptServer
<1>2. /\ Grows(h, g, n.id) /\ \A v \in Server : Mine(g, v) = Mine(h, v)
  BY <1>1, BallotGrows
<1>3. HistoryInv(g) /\ g \in History
  BY <1>1, BallotKeeps DEF HistoryInv
<1>4. g.term[n.id] = T /\ g.vote[n.id][T] = x
  BY <1>1, BallotCast
<1> HIDE DEF g
<1>5. n.term <= T
  BY <1>1 DEF MayVote, Core
<1>6. FullLog(q) = L /\ Mine(g, n.id) = L
  BY <1>1, <1>2 DEF FullLog, Core
<1>7. Agree(L, L, n.commitIndex)
  <2>1. L \in Seq(Entry) /\ n.commitIndex <= Len(L)
    <3>1. L \in Seq(Entry) /\ Len(L) \in Nat
      BY LogOf DEF Core
    <3>2. Sealed(h, L, n.commitIndex, n.term)
      BY DEF Core
    <3> HIDE DEF L
    <3> QED
      BY <1>1, <3>1, <3>2 DEF Sealed, Agree
  <2> QED
    BY <2>1 DEF Agree
<1>8. Carries(h, g, n, q)
  BY <1>4, <1>5, <1>6, <1>7 DEF Carries
<1>9. Core(g, R, a, q)
  BY <1>1, <1>2, <1>3, <1>8, CoreMoves
<1> QED
  BY <1>2, <1>3, <1>9 DEF g

\* A node that enters the term, or leaves its role in its own.
LEMMA BecomeFollowerMoves ==
  ASSUME NEW d, NEW h, NEW R, NEW a, NEW n, Good(d, h, R, a, n),
         NEW term \in Nat, NEW leader \in OptServer
  PROVE  LET q == BecomeFollower(n, term, leader) IN
         /\ Moved(d, h, R, a, n.id, q) /\ q.state = "Follower"
         /\ q.id = n.id /\ q.term = IF term > n.term THEN term ELSE n.term
         /\ q.log = n.log /\ q.commitIndex = n.commitIndex
         /\ q.appendedFrom = n.appendedFrom /\ q.applied = n.applied
<1> DEFINE q == BecomeFollower(n, term, leader)
<1>1. n \in Node /\ Shape(n) /\ Static(n) /\ Tracks(d, n) /\ n.term \in Nat
      /\ HistoryInv(h) /\ Core(h, R, a, n) /\ h.term[n.id] = n.term
  BY GoodFacts, GoodBounds DEF Good
<1>2. Tracks(d, q) /\ Static(q) /\ q.state = "Follower" /\ q \in Node
  BY <1>1, BecomeFollowerTracks, BecomeFollowerStatic DEF Tracks
<1>3. /\ q.id = n.id /\ q.log = n.log /\ q.snapshot = n.snapshot
      /\ q.snapDirty = n.snapDirty /\ q.commitIndex = n.commitIndex
      /\ q.lastApplied = n.lastApplied /\ q.applied = n.applied /\ q.panic = n.panic
      /\ q.out = n.out /\ q.appendedFrom = n.appendedFrom
      /\ q.term = IF term > n.term THEN term ELSE n.term
      /\ q.votedFor = IF term > n.term THEN None ELSE n.votedFor
  BY <1>1 DEF BecomeFollower, Node
<1>4. Moved(d, h, R, a, n.id, q)
  <2>1. CASE term <= n.term
    BY <2>1, StepDownGood, GoodMoved
  <2>2. CASE ~(term <= n.term)
    <3>1. q.term = term /\ q.votedFor = None /\ None \in OptServer
      BY <1>1, <1>3, <2>2 DEF OptServer
    <3>2. MayVote(h, n.id, term, None)
      BY <1>1, <2>2 DEF MayVote
    <3> DEFINE g == Ballot(h, n.id, term, None)
    <3>3. g \in History /\ HistoryInv(g) /\ Grows(h, g, n.id) /\ Core(g, R, a, q)
      <4> HIDE DEF q
      <4> QED
        BY <1>1, <1>2, <1>3, <3>1, <3>2, BallotCore
    <3> HIDE DEF q, g
    <3>4. Good(d, g, R, a, q)
      BY <1>2, <3>3, RoleNone DEF Good
    <3> QED
      BY <3>3, <3>4 DEF Moved
  <2> QED
    BY <2>1, <2>2
<1> QED
  BY <1>2, <1>3, <1>4

\* A candidate asks with the log it stands with.
LEMMA RequestVotesGood ==
  ASSUME NEW d, NEW h, NEW R, NEW a, NEW n, Good(d, h, R, a, n), NEW term \in Nat,
         NEW pre \in BOOLEAN, NEW force \in BOOLEAN,
         ~pre => term = n.term /\ Stands(h, n)
  PROVE  Good(d, h, R, a, RequestVotes(n, term, pre, force))
<1> DEFINE V(v) == [type |-> "Vote", from |-> n.id, to |-> v, term |-> term,
                    preVote |-> pre, force |-> force,
                    lastLogIndex |-> LastIndex(n.log), lastLogTerm |-> LastTerm(n.log)]
           msgs == {V(v) : v \in Config(n) \ {n.id}}
<1>1. n \in Node /\ Shape(n) /\ LastIndex(n.log) \in Nat /\ LastTerm(n.log) \in Nat
      /\ Covers(n.snapshot) /\ Len(FullLog(n)) = LastIndex(n.log)
      /\ h.vote[n.id][n.term] = n.votedFor /\ Config(n) \in SUBSET Server
  BY GoodFacts, NodeFields, IndexType, TermAtType, ReplicationTargetsType DEF LastTerm
<1>2. \A v \in Server : V(v) \in VoteReq /\ ~Granted(V(v)) /\ Sound(V(v)) /\ Linked(V(v))
  BY <1>1, NodeFields DEF VoteReq, Granted, Sound, Linked
<1>3. LastTerm(n.log) = TermOfLast(FullLog(n))
  BY <1>1, TermOfLog
<1>4. ASSUME NEW v \in Server PROVE Truthful(h, R, V(v))
  <2>1. ~pre => TrueRequest(h, V(v))
    BY <1>1, <1>3 DEF TrueRequest, Stands
  <2> QED
    BY <2>1 DEF Truthful, Granted
<1>5. msgs \in SUBSET Message
  BY <1>1, <1>2 DEF Message
<1>6. \A m \in msgs : ~Granted(m) /\ Sound(m) /\ Linked(m) /\ Truthful(h, R, m)
  BY <1>1, <1>2, <1>4
<1>7. RequestVotes(n, term, pre, force) = Send(n, msgs)
  BY Zenon DEF RequestVotes
<1> HIDE DEF msgs, V
<1> QED
  BY <1>5, <1>6, <1>7, SendGood

\* A server starts an election in the next term.
LEMMA BecomeCandidateMoves ==
  ASSUME NEW d, NEW h, NEW R, NEW a, NEW n, Good(d, h, R, a, n)
  PROVE  LET q == BecomeCandidate(n) IN
         Moved(d, h, R, a, n.id, q) /\ q.id = n.id /\ q.state = "Candidate"
<1> DEFINE q == BecomeCandidate(n)
           T == n.term + 1
           i == n.id
           g == Ballot(h, i, T, i)
<1>1. n \in Node /\ Shape(n) /\ Static(n) /\ Tracks(d, n) /\ n.term \in Nat
      /\ HistoryInv(h) /\ Core(h, R, a, n) /\ h.term[i] = n.term /\ i \in Server
      /\ Mine(h, i) = FullLog(n) /\ LedOK(h) /\ PastOK(h) /\ h \in History
      /\ T \in Nat /\ i \in OptServer
  BY GoodFacts, GoodBounds DEF Good, OptServer
<1>2. q \in Node
  BY <1>1, BecomeCandidateFollows DEF Follows
<1>3. /\ q.term = T /\ q.votedFor = i /\ q.id = i /\ q.log = n.log
      /\ q.snapshot = n.snapshot /\ q.snapDirty = n.snapDirty
      /\ q.commitIndex = n.commitIndex /\ q.lastApplied = n.lastApplied
      /\ q.applied = n.applied /\ q.panic = n.panic /\ q.out = n.out
      /\ q.learner = n.learner /\ q.confHistory = n.confHistory
      /\ q.appendedFrom = n.appendedFrom /\ q.state = "Candidate" /\ q.votes = OwnVote(n)
  BY <1>1 DEF BecomeCandidate, Node
<1> HIDE DEF q
<1>4. Tracks(d, q)
  BY <1>1, <1>2, <1>3, TracksUntouched DEF Untouched, SameLog
<1>5. Static(q)
  BY <1>1, <1>3 DEF Static, InitialOnly
<1>6. MayVote(h, i, T, i)
  BY <1>1 DEF MayVote
<1>7. g \in History /\ HistoryInv(g) /\ Grows(h, g, i) /\ Core(g, R, a, q)
  <2> HIDE DEF T
  <2> QED
    BY <1>1, <1>2, <1>3, <1>6, BallotCore
<1>8. /\ g.owner = h.owner /\ g.vote[i][T] = i /\ g.bid[i][T] = Mine(h, i)
  <2>1. h.term[i] < T
    BY <1>1
  <2>2. i \in Server \cup {None}
    BY <1>1
  <2> HIDE DEF T
  <2> QED
    BY <1>1, <2>1, <2>2, BallotFields DEF IsBallot
<1> HIDE DEF g
<1>9. h.owner[T] # i
  <2>1. h.vote[i][T] = None
    BY <1>1 DEF PastOK
  <2>2. i # None
    BY <1>1, ServerAssumption
  <2> QED
    BY <1>1, <2>1, <2>2 DEF LedOK
<1>10. Stands(g, q)
  <2>1. FullLog(q) = FullLog(n)
    BY <1>3 DEF FullLog
  <2>2. \A v \in Server : OwnVote(n)[v] = "yes" => v = i
    BY DEF OwnVote, NoVotes
  <2> QED
    BY <1>1, <1>3, <1>8, <1>9, <2>1, <2>2 DEF Stands
<1>11. Good(d, g, R, a, q)
  BY <1>1, <1>3, <1>4, <1>5, <1>7, <1>10 DEF Good, Role
<1> QED
  BY <1>3, <1>7, <1>11 DEF Moved, q

LEMMA ElectMoves ==
  ASSUME NEW d, NEW h, NEW R, NEW a, NEW n, Good(d, h, R, a, n), NEW force \in BOOLEAN
  PROVE  Moved(d, h, R, a, n.id, Elect(n, force))
<1> DEFINE c == BecomeCandidate(n)
           i == n.id
<1>1. Moved(d, h, R, a, i, c) /\ c.id = i /\ c.state = "Candidate"
  BY BecomeCandidateMoves
<1>2. Elect(n, force) = IF VotesReach(c, "yes") THEN BecomeLeader(c)
                        ELSE RequestVotes(c, c.term, FALSE, force)
  BY Zenon DEF Elect
<1> HIDE DEF c
<1>3. PICK g : g \in History /\ Grows(h, g, i) /\ Good(d, g, R, a, c)
  BY <1>1 DEF Moved
<1>4. h \in History /\ i \in Server
  BY GoodFacts, GoodBounds
<1>5. CASE VotesReach(c, "yes")
  <2>1. Moved(d, g, R, a, c.id, BecomeLeader(c))
    BY <1>1, <1>3, <1>5, CandidateWins, BecomeLeaderMoves
  <2> QED
    BY <1>1, <1>2, <1>3, <1>4, <1>5, <2>1, MovedTwice
<1>6. CASE ~VotesReach(c, "yes")
  <2>1. Stands(g, c) /\ c.term \in Nat
    BY <1>1, <1>3, GoodLeader, GoodBounds
  <2>2. Good(d, g, R, a, RequestVotes(c, c.term, FALSE, force))
    BY <1>3, <2>1, RequestVotesGood
  <2> QED
    BY <1>2, <1>3, <1>6, <2>2 DEF Moved
<1> QED
  BY <1>5, <1>6

LEMMA CampaignMoves ==
  ASSUME NEW d, NEW h, NEW R, NEW a, NEW n, Good(d, h, R, a, n), NEW pre \in BOOLEAN,
         NEW force \in BOOLEAN
  PROVE  Moved(d, h, R, a, n.id, Campaign(n, pre, force))
<1> DEFINE c == BecomePreCandidate(n)
<1>1. n \in Node /\ Tracks(d, n) /\ Static(n)
  BY GoodFacts
<1>2. c \in Node
  BY <1>1, BecomePreCandidateQuiet DEF Quiet
<1>3. /\ Same(n, c) /\ c.out = n.out /\ c.state = "PreCandidate" /\ c.learner = n.learner
      /\ c.confHistory = n.confHistory /\ c.snapDirty = n.snapDirty
      /\ c.appendedFrom = n.appendedFrom
  BY <1>1 DEF BecomePreCandidate, Node, Same
<1>4. PreElect(n, force) = IF VotesReach(c, "yes") THEN Elect(c, force)
                           ELSE RequestVotes(c, c.term + 1, TRUE, force)
  BY Zenon DEF PreElect
<1> HIDE DEF c
<1>5. Tracks(d, c)
  BY <1>1, <1>2, <1>3, TracksUntouched DEF Untouched, SameLog, Same
<1>6. Static(c)
  BY <1>1, <1>3 DEF Static, InitialOnly, Same
<1>7. Good(d, h, R, a, c) /\ c.id = n.id
  BY <1>3, <1>5, <1>6, GoodSame, RoleNone DEF Same
<1>8. Moved(d, h, R, a, n.id, Elect(c, force))
  BY <1>7, ElectMoves
<1>9. Moved(d, h, R, a, n.id, RequestVotes(c, c.term + 1, TRUE, force))
  <2>1. c.term + 1 \in Nat
    BY <1>2, NodeFields
  <2>2. Good(d, h, R, a, RequestVotes(c, c.term + 1, TRUE, force))
    BY <1>7, <2>1, RequestVotesGood
  <2> QED
    BY <2>2, GoodMoved
<1>10. Moved(d, h, R, a, n.id, PreElect(n, force))
  BY <1>4, <1>8, <1>9
<1>11. Moved(d, h, R, a, n.id, Elect(n, force)) /\ Moved(d, h, R, a, n.id, n)
  BY ElectMoves, GoodMoved
<1>12. \/ Campaign(n, pre, force) = n
       \/ Campaign(n, pre, force) = PreElect(n, force)
       \/ Campaign(n, pre, force) = Elect(n, force)
  BY Zenon DEF Campaign
<1> QED
  BY <1>10, <1>11, <1>12, Zenon

-----------------------------------------------------------------------------
(* Votes *)

\* The snapshot in the store is never newer than the node's.
Advanced(d, n) == d.snap.index <= n.snapshot.index

LEMMA TracksAdvanced ==
  ASSUME NEW d \in Durable, NEW n, Tracks(d, n)
  PROVE  Advanced(d, n) /\ d.snap.index = n.log.snapIndex
<1>1. d.snap = n.snapshot /\ n.log.snapIndex = n.snapshot.index /\ d.snap \in Snapshot
  BY DEF Tracks, Appending, Shape, Durable
<1>2. d.snap.index \in Nat
  BY <1>1, SnapshotFields
<1> QED
  BY <1>1, <1>2 DEF Advanced

\* A node at the end of a step: it may have granted a vote or taken over a
\* snapshot.
Final(d, h, R, a, n) ==
  /\ d \in Durable /\ a \in Seq(Entry) /\ HistoryInv(h)
  /\ Ready(d, n) /\ InitialOnly(n) /\ Core(h, R, a, n) /\ Role(h, n)
  /\ Advanced(d, n)
Ended(d, h, R, a, i, q) ==
  \E g : g \in History /\ Grows(h, g, i) /\ Final(d, g, R, a, q)
LEMMA MovedEnds ==
  ASSUME NEW d, NEW h, NEW R, NEW a, NEW i, NEW q, Moved(d, h, R, a, i, q)
  PROVE  Ended(d, h, R, a, i, q)
BY TracksReady, TracksAdvanced DEF Moved, Ended, Good, Final, Static
LEMMA EndedLater ==
  ASSUME NEW d, NEW h \in History, NEW g \in History, NEW R, NEW a, NEW i \in Server,
         NEW q, Grows(h, g, i), Ended(d, g, R, a, i, q)
  PROVE  Ended(d, h, R, a, i, q)
BY GrowsTwice DEF Ended
LEMMA SendFinal ==
  ASSUME NEW d, NEW h, NEW R, NEW a, NEW n, Final(d, h, R, a, n),
         NEW msgs, Ready(d, Send(n, msgs)), \A m \in msgs : Truthful(h, R, m)
  PROVE  Final(d, h, R, a, Send(n, msgs))
<1> DEFINE q == Send(n, msgs)
<1>1. n \in Node
  BY DEF Final, Ready
<1>2. q = [n EXCEPT !.out = n.out \cup msgs]
  BY Zenon DEF Send
<1> HIDE DEF q
<1>3. Same(n, q) /\ q.state = n.state /\ q.votes = n.votes /\ q.prs = n.prs
      /\ q.out = n.out \cup msgs /\ q.snapDirty = n.snapDirty
      /\ q.learner = n.learner /\ q.confHistory = n.confHistory
  BY <1>1, <1>2 DEF Node, Same
<1>4. Role(h, q)
  BY <1>3, RoleSame DEF Final, Role, Peers
<1>5. Core(h, R, a, q)
  BY <1>3, CoreSame DEF Final
<1>6. InitialOnly(q) /\ Advanced(d, q)
  BY <1>3 DEF Final, InitialOnly, Advanced, Same
<1> QED
  BY <1>4, <1>5, <1>6 DEF Final, q
LEMMA RefusalGood ==
  ASSUME NEW d, NEW h, NEW R, NEW a, NEW n, Good(d, h, R, a, n), NEW m \in Message,
         NEW term \in Nat, NEW pre \in BOOLEAN, NEW granted \in BOOLEAN, pre \/ ~granted
  PROVE  Good(d, h, R, a, Send(n, VoteReply(n, m, term, pre, granted)))
<1> DEFINE reply == VoteReply(n, m, term, pre, granted)
<1>1. n \in Node
  BY GoodFacts
<1>2. /\ reply \in SUBSET Message
      /\ \A r \in reply : ~Granted(r)
  BY <1>1, VoteReplyType
<1>3. \A r \in reply : r.type = "VoteResp" /\ Linked(r) /\ Sound(r)
  BY DEF VoteReply, Linked, Sound
<1>4. \A r \in reply : Truthful(h, R, r)
  BY <1>2, <1>3 DEF Truthful
<1> HIDE DEF reply
<1> QED
  BY <1>2, <1>3, <1>4, SendGood DEF reply

\* The quoted log is as up to date as one's own.
LEMMA QuotedUpToDate ==
  ASSUME NEW d, NEW h, NEW R, NEW a, NEW n, Good(d, h, R, a, n), NEW m \in VoteReq,
         TrueRequest(h, m), m.term = n.term, LogUpToDate(n, m.lastLogIndex, m.lastLogTerm)
  PROVE  UpToDate(h.bid[m.from][n.term], Mine(h, n.id))
<1>1. n \in Node /\ Shape(n) /\ Covers(n.snapshot) /\ Mine(h, n.id) = FullLog(n)
      /\ Len(FullLog(n)) = LastIndex(n.log)
  BY GoodFacts
<1>2. LastTerm(n.log) = TermOfLast(FullLog(n))
  BY <1>1, TermOfLog
<1> QED
  BY <1>1, <1>2 DEF TrueRequest, LogUpToDate, UpToDate

\* The one place where a vote is cast for another server.
LEMMA HandleRealVoteEnds ==
  ASSUME NEW d, NEW h, NEW R, NEW a, NEW n, Good(d, h, R, a, n), NEW m \in VoteReq,
         ~m.preVote, Truthful(h, R, m), m.term = n.term
  PROVE  Ended(d, h, R, a, n.id, HandleRealVote(n, m))
<1> DEFINE granted == CanVote(n, m) /\ LogUpToDate(n, m.lastLogIndex, m.lastLogTerm)
           reply   == VoteReply(n, m, n.term, FALSE, granted)
           p       == [n EXCEPT !.votedFor = m.from, !.hsDirty = TRUE]
           i       == n.id
           T       == n.term
<1>1. /\ n \in Node /\ Tracks(d, n) /\ Static(n) /\ Shape(n) /\ m \in Message
      /\ m.from \in Server /\ i \in Server /\ T \in Nat /\ m.from \in OptServer
      /\ h \in History /\ HistoryInv(h) /\ Core(h, R, a, n) /\ Role(h, n)
      /\ d \in Durable /\ a \in Seq(Entry)
      /\ h.term[i] = T /\ h.vote[i][T] = n.votedFor
  BY GoodFacts, NodeFields DEF Message, VoteReq, OptServer, Good
<1>2. TrueRequest(h, m)
  BY DEF Truthful, VoteReq
<1>3. HandleRealVote(n, m) = IF granted THEN Send(p, reply) ELSE Send(n, reply)
  BY Zenon DEF HandleRealVote
<1>4. reply \in SUBSET Message
  BY <1>1, VoteReplyType
<1>5. \A r \in reply : r.type = "VoteResp" /\ r.from = i /\ r.term = T /\ r.to = m.from
                       /\ Linked(r)
  BY DEF VoteReply, Linked
<1>6. CASE ~granted
  <2>1. granted = FALSE
    BY <1>6
  <2>2. Good(d, h, R, a, Send(n, VoteReply(n, m, T, FALSE, FALSE)))
    BY <1>1, RefusalGood
  <2>3. HandleRealVote(n, m) = Send(n, VoteReply(n, m, T, FALSE, FALSE))
    BY <2>1, <1>3
  <2> QED
    BY <2>2, <2>3, GoodMoved, MovedEnds
<1>7. CASE granted
  <2>1. n.votedFor = None \/ n.votedFor = m.from
    BY <1>7 DEF CanVote
  <2>2. /\ p.id = i /\ p.term = T /\ p.votedFor = m.from /\ p.log = n.log
        /\ p.snapshot = n.snapshot /\ p.snapDirty = n.snapDirty
        /\ p.commitIndex = n.commitIndex /\ p.lastApplied = n.lastApplied
        /\ p.applied = n.applied /\ p.panic = n.panic /\ p.out = n.out
        /\ p.state = n.state /\ p.votes = n.votes /\ p.prs = n.prs
        /\ p.learner = n.learner /\ p.confHistory = n.confHistory
        /\ p.appendedFrom = n.appendedFrom
    BY <1>1 DEF Node
  <2>3. p \in Node
    BY <1>1 DEF Node
  <2> HIDE DEF p
  <2>4. Tracks(d, p)
    BY <1>1, <2>2, <2>3, TracksUntouched DEF Untouched, SameLog
  <2>5. Static(p)
    BY <1>1, <2>2 DEF Static, InitialOnly
  <2>6. Moved(d, h, R, a, i, p)
    <3>1. CASE n.votedFor = m.from
      <4>1. Same(n, p)
        BY <2>2, <3>1 DEF Same
      <4>2. Role(h, p)
        BY <1>1, <2>2, <4>1, RoleSame DEF Role, Peers
      <4>3. Good(d, h, R, a, p)
        BY <2>2, <2>4, <2>5, <4>1, <4>2, GoodSame
      <4> QED
        BY <4>3, GoodMoved
    <3>2. CASE n.votedFor # m.from
      <4> DEFINE g == Ballot(h, i, T, m.from)
      <4>1. n.votedFor = None /\ m.from # i
        BY <1>1, <1>2, <2>1, <3>2 DEF TrueRequest
      <4>2. UpToDate(h.bid[m.from][T], Mine(h, i))
        BY <1>2, <1>7, QuotedUpToDate
      <4>3. h.vote[m.from][T] = m.from
        BY <1>2 DEF TrueRequest
      <4>4. MayVote(h, i, T, m.from)
        BY <1>1, <4>1, <4>2, <4>3 DEF MayVote
      <4>5. g \in History /\ HistoryInv(g) /\ Grows(h, g, i) /\ Core(g, R, a, p)
        BY <1>1, <2>2, <2>3, <4>4, BallotCore
      <4> HIDE DEF g
      <4>6. n.state \notin {"Candidate", "Leader"}
        <5>1. i # None
          BY <1>1, ServerAssumption
        <5> QED
          BY <4>1, <5>1, GoodLeader
      <4>7. Role(g, p)
        BY <2>2, <4>6 DEF Role
      <4> QED
        BY <1>1, <2>4, <2>5, <4>5, <4>7 DEF Moved, Good
    <3> QED
      BY <3>1, <3>2
  <2>7. PICK g : g \in History /\ Grows(h, g, i) /\ Good(d, g, R, a, p)
    BY <2>6 DEF Moved
  <2>8. g.vote[i][T] = m.from
    BY <2>2, <2>7, GoodFacts
  <2>9. \A r \in reply : Truthful(g, R, r)
    BY <1>5, <2>8 DEF Truthful
  <2>10. Tracks(d, Send(p, reply))
    BY <1>4, <1>5, <2>4, SendTracks
  <2>11. Final(d, g, R, a, p)
    BY <2>7, TracksReady, TracksAdvanced DEF Good, Final, Static
  <2> HIDE DEF reply
  <2>12. Final(d, g, R, a, Send(p, reply))
    BY <2>9, <2>10, <2>11, TracksReady, SendFinal
  <2> QED
    BY <1>3, <1>7, <2>7, <2>12 DEF Ended
<1> QED
  BY <1>6, <1>7

LEMMA HandleVoteEnds ==
  ASSUME NEW d, NEW h, NEW R, NEW a, NEW n, Good(d, h, R, a, n), NEW m \in VoteReq,
         Truthful(h, R, m), ~m.preVote => m.term = n.term, NEW fresh \in BOOLEAN
  PROVE  Ended(d, h, R, a, n.id, HandleVote(n, m, fresh))
<1> DEFINE granted == /\ m.term > n.term
                      /\ LogUpToDate(n, m.lastLogIndex, m.lastLogTerm)
                      /\ ~Sticky(n, m, fresh)
           term == IF granted THEN m.term ELSE n.term
<1>1. m \in Message /\ m.term \in Nat /\ n.term \in Nat
  BY GoodBounds DEF Message, VoteReq
<1>2. granted \in BOOLEAN /\ term \in Nat
  BY <1>1
<1>3. HandlePreVote(n, m, fresh) = Send(n, VoteReply(n, m, term, TRUE, granted))
  BY Zenon DEF HandlePreVote
<1> HIDE DEF granted, term
<1>4. Good(d, h, R, a, HandlePreVote(n, m, fresh))
  BY <1>1, <1>2, <1>3, RefusalGood
<1> QED
  BY <1>4, HandleRealVoteEnds, GoodMoved, MovedEnds, Zenon DEF HandleVote

\* Only votes of the candidate's own term are counted, and only for itself.
LEMMA CountedGood ==
  ASSUME NEW d, NEW h, NEW R, NEW a, NEW n, Good(d, h, R, a, n), NEW m \in VoteResp,
         Truthful(h, R, m), m.to = n.id,
         \/ n.state = "PreCandidate"
         \/ n.state = "Candidate" /\ ~m.preVote /\ m.term = n.term
  PROVE  /\ Good(d, h, R, a, Counted(n, m))
         /\ Counted(n, m).id = n.id /\ Counted(n, m).state = n.state
<1> DEFINE c == Counted(n, m)
<1>1. n \in Node /\ Tracks(d, n) /\ Static(n)
  BY GoodFacts
<1>2. /\ c \in Node /\ Static(c) /\ c.id = n.id /\ c.state = n.state
      /\ \A v \in Server : c.votes[v] = "yes" => n.votes[v] = "yes" \/ (v = m.from /\ m.granted)
  BY <1>1, CountedStatic
<1>3. Same(n, c) /\ c.out = n.out /\ c.snapDirty = n.snapDirty /\ c.confHistory = n.confHistory
      /\ c.appendedFrom = n.appendedFrom
  BY <1>1 DEF Counted, Node, Same
<1> HIDE DEF c
<1>4. Tracks(d, c)
  BY <1>1, <1>2, <1>3, TracksUntouched DEF Untouched, SameLog, Same
<1>5. Role(h, c)
  <2>1. CASE n.state = "PreCandidate"
    BY <1>2, <2>1, RoleNone
  <2>2. CASE n.state = "Candidate" /\ ~m.preVote /\ m.term = n.term
    <3>1. Stands(h, n) /\ FullLog(c) = FullLog(n)
      BY <1>3, <2>2, GoodLeader DEF FullLog, Same
    <3>2. m.granted => h.vote[m.from][n.term] = n.id
      BY <2>2 DEF Truthful, Granted, VoteResp
    <3>3. Stands(h, c)
      BY <1>2, <1>3, <3>1, <3>2 DEF Stands, Same
    <3> QED
      BY <1>2, <2>2, <3>3 DEF Role
  <2> QED
    BY <2>1, <2>2
<1>6. Good(d, h, R, a, c)
  BY <1>2, <1>3, <1>4, <1>5, GoodSame
<1> QED
  BY <1>2, <1>6 DEF c

LEMMA HandleVoteRespMoves ==
  ASSUME NEW d, NEW h, NEW R, NEW a, NEW n, Good(d, h, R, a, n), NEW m \in VoteResp,
         Truthful(h, R, m), m.to = n.id
  PROVE  Moved(d, h, R, a, n.id, HandleVoteResp(n, m))
<1> DEFINE c == Counted(n, m)
           i == n.id
<1>1. Moved(d, h, R, a, i, n)
  BY GoodMoved
<1>2. ASSUME \/ n.state = "PreCandidate"
             \/ n.state = "Candidate" /\ ~m.preVote /\ m.term = n.term
      PROVE  /\ Good(d, h, R, a, c) /\ c.id = i /\ c.state = n.state
             /\ Moved(d, h, R, a, i, c)
             /\ Moved(d, h, R, a, i, BecomeFollower(c, c.term, None))
  <2>1. Good(d, h, R, a, c) /\ c.id = i /\ c.state = n.state
    BY <1>2, CountedGood
  <2> HIDE DEF c
  <2>2. c.term \in Nat /\ c.term <= c.term /\ None \in OptServer
    BY <2>1, GoodBounds DEF OptServer
  <2>3. Good(d, h, R, a, BecomeFollower(c, c.term, None))
    BY <2>1, <2>2, StepDownGood
  <2> QED
    BY <2>1, <2>3, GoodMoved
<1>3. ASSUME n.state = "PreCandidate" PROVE Moved(d, h, R, a, i, HandlePreVoteResp(n, m))
  <2>1. Moved(d, h, R, a, i, Campaign(c, FALSE, FALSE))
    BY <1>2, <1>3, CampaignMoves
  <2>2. HandlePreVoteResp(n, m) \in
          {n, c, Campaign(c, FALSE, FALSE), BecomeFollower(c, c.term, None)}
    BY DEF HandlePreVoteResp
  <2> QED
    BY <1>1, <1>2, <1>3, <2>1, <2>2
<1>4. ASSUME n.state = "Candidate", ~m.preVote, m.term = n.term
      PROVE  Moved(d, h, R, a, i, HandleRealVoteResp(n, m))
  <2>1. ASSUME VotesReach(c, "yes") PROVE Moved(d, h, R, a, i, BecomeLeader(c))
    <3>1. Good(d, h, R, a, c) /\ c.id = i /\ c.state = "Candidate"
      BY <1>2, <1>4
    <3> HIDE DEF c
    <3> QED
      BY <2>1, <3>1, CandidateWins, BecomeLeaderMoves
  <2>2. \/ VotesReach(c, "yes") /\ HandleRealVoteResp(n, m) = BecomeLeader(c)
        \/ HandleRealVoteResp(n, m) = BecomeFollower(c, c.term, None)
        \/ HandleRealVoteResp(n, m) = c
    BY Zenon DEF HandleRealVoteResp
  <2> HIDE DEF c
  <2> QED
    BY <1>2, <1>4, <2>1, <2>2
<1> QED
  BY <1>1, <1>3, <1>4, Zenon DEF HandleVoteResp

-----------------------------------------------------------------------------
(* AppendEntries at the receiver *)

\* s, the first j entries of e, and x.
Splice(s, e, j, x) == s \o (SubSeq(e, 1, j) \o x)
SplicedTo(M, s, e, j, x) ==
  /\ M \in Seq(Entry) /\ Len(M) = Len(s) + j + Len(x)
  /\ \A k \in 1 .. Len(s) + j : M[k] = (s \o e)[k]
  /\ \A k \in 1 .. Len(x) : M[Len(s) + j + k] = x[k]
LEMMA Spliced ==
  ASSUME NEW s \in Seq(Entry), NEW e \in Seq(Entry), NEW x \in Seq(Entry),
         NEW j \in Nat, j <= Len(e), NEW M, M = Splice(s, e, j, x)
  PROVE  SplicedTo(M, s, e, j, x)
<1> DEFINE p == SubSeq(e, 1, j)
           t == p \o x
           L == s \o e
<1>1. /\ Len(s) \in Nat /\ Len(e) \in Nat /\ Len(x) \in Nat /\ 1 \in Nat \ {0} /\ j \in Int
  BY LenProperties
<1>2. /\ p \in Seq(Entry) /\ Len(p) = IF 1 <= j THEN j - 1 + 1 ELSE 0
      /\ \A i \in 1 .. Len(p) : p[i] = e[1 + i - 1]
  BY <1>1, PartFields
<1> HIDE DEF p
<1>3. Len(p) = j /\ \A i \in 1 .. j : p[i] = e[i]
  BY <1>1, <1>2
<1>4. /\ t \in Seq(Entry) /\ Len(t) = j + Len(x)
      /\ \A i \in 1 .. Len(p) + Len(x) : t[i] = IF i <= Len(p) THEN p[i] ELSE x[i - Len(p)]
  BY <1>2, <1>3, ConcatProperties
<1>m. M = s \o t
  BY Zenon DEF Splice, p
<1> HIDE DEF t
<1>5. /\ M \in Seq(Entry) /\ Len(M) = Len(s) + Len(t)
      /\ \A i \in 1 .. Len(s) + Len(t) : M[i] = IF i <= Len(s) THEN s[i] ELSE t[i - Len(s)]
  <2>1. t \in Seq(Entry)
    BY <1>4
  <2> QED
    BY <1>m, <2>1, ConcatProperties
<1>6. \A i \in 1 .. Len(s) + Len(e) : L[i] = IF i <= Len(s) THEN s[i] ELSE e[i - Len(s)]
  BY ConcatProperties
<1> HIDE DEF L
<1>7. ASSUME NEW k \in 1 .. Len(s) + j PROVE M[k] = L[k]
  <2>1. k \in 1 .. Len(s) + Len(t) /\ k \in 1 .. Len(s) + Len(e)
    BY <1>1, <1>4
  <2>2. CASE k <= Len(s)
    BY <1>5, <1>6, <2>1, <2>2
  <2>3. CASE ~(k <= Len(s))
    <3> DEFINE i == k - Len(s)
    <3>1. i \in 1 .. j /\ i \in 1 .. Len(p) + Len(x) /\ i <= Len(p)
      BY <1>1, <1>3, <2>3
    <3>2. M[k] = t[i] /\ L[k] = e[i]
      BY <1>5, <1>6, <2>1, <2>3
    <3> HIDE DEF i
    <3>3. t[i] = p[i] /\ p[i] = e[i]
      BY <1>3, <1>4, <3>1
    <3> QED
      BY <3>2, <3>3
  <2> QED
    BY <2>2, <2>3
<1>8. ASSUME NEW k \in 1 .. Len(x) PROVE M[Len(s) + j + k] = x[k]
  <2> DEFINE i == Len(s) + j + k
             u == j + k
  <2>1. /\ i \in 1 .. Len(s) + Len(t) /\ ~(i <= Len(s)) /\ i - Len(s) = u
        /\ u \in 1 .. Len(p) + Len(x) /\ ~(u <= Len(p)) /\ u - Len(p) = k
    BY <1>1, <1>3, <1>4
  <2> HIDE DEF i, u
  <2>2. M[i] = t[u]
    BY <1>5, <2>1
  <2>3. t[u] = x[k]
    BY <1>4, <2>1
  <2> QED
    BY <2>2, <2>3 DEF i
<1>9. Len(M) = Len(s) + j + Len(x)
  BY <1>1, <1>4, <1>5
<1> QED
  BY <1>5, <1>7, <1>8, <1>9 DEF SplicedTo, L

\* An entry of the leader's term in one's log is the leader's, with all before.
LEMMA SameAtAgrees ==
  ASSUME NEW d, NEW h, NEW R, NEW a, NEW n, Good(d, h, R, a, n),
         NEW k \in Nat \ {0}, NEW c, c = h.led[n.term], k <= Len(c),
         SameAt(n.log, k, c[k].term)
  PROVE  Agree(FullLog(n), c, k)
<1> DEFINE L == FullLog(n)
<1>1. /\ n \in Node /\ Shape(n) /\ Covers(n.snapshot) /\ L \in Seq(Entry)
      /\ h \in History /\ LedOK(h) /\ Rooted(h, L) /\ n.term \in Nat
  BY GoodFacts, GoodBounds
<1>2. c \in Seq(Entry) /\ Rooted(h, c)
  BY <1>1, HistoryFields DEF LedOK
<1>3. k <= Len(L) /\ TermAt(n.log, k) = TermOf(L, k) /\ TermAt(n.log, k) = c[k].term
  BY <1>1, TermOfLog DEF SameAt
<1>4. L[k].term = c[k].term
  BY <1>3 DEF TermOf
<1> HIDE DEF L
<1>5. k \in 1 .. Len(L) /\ k \in 1 .. Len(c)
  BY <1>1, <1>2, <1>3, LenProperties
<1> QED
  BY <1>1, <1>2, <1>4, <1>5, RootedMatch DEF L
LEMMA AgreeSameAt ==
  ASSUME NEW d, NEW h, NEW R, NEW a, NEW n, Good(d, h, R, a, n),
         NEW k \in Nat, n.log.snapIndex < k, NEW c, Agree(FullLog(n), c, k)
  PROVE  SameAt(n.log, k, c[k].term)
<1> DEFINE L == FullLog(n)
<1>1. /\ n \in Node /\ Shape(n) /\ Covers(n.snapshot) /\ L \in Seq(Entry)
      /\ Len(L) = LastIndex(n.log) /\ n.log \in Log /\ n.log.snapIndex \in Nat
      /\ Len(L) \in Nat
  BY GoodFacts, GoodBounds
<1>2. k <= Len(L) /\ k \in 1 .. k
  BY <1>1 DEF Agree
<1>3. L[k] = c[k] /\ k # 0
  BY <1>1, <1>2 DEF Agree
<1>4. HasTerm(n.log, k)
  BY <1>1, <1>2 DEF HasTerm
<1>5. TermAt(n.log, k) = TermOf(L, k)
  BY <1>1, <1>4, TermOfLog
<1> QED
  BY <1>3, <1>4, <1>5 DEF TermOf, SameAt

\* The entries of a message that follow what one has in common with the leader.
Continues(c, prev, ents) ==
  /\ prev + Len(ents) <= Len(c)
  /\ \A k \in 1 .. Len(ents) : ents[k] = c[prev + k] /\ ents[k].index = prev + k
\* As far as the entries are already there, the log agrees with the leader's.
LEMMA SkippedAgree ==
  ASSUME NEW d, NEW h, NEW R, NEW a, NEW n, Good(d, h, R, a, n),
         NEW c, c = h.led[n.term], NEW prev \in Nat, Agree(FullLog(n), c, prev),
         NEW ents \in Seq(Entry), Continues(c, prev, ents),
         NEW j \in Nat, j <= Len(ents),
         \A i \in 1 .. j : SameAt(n.log, ents[i].index, ents[i].term),
         NEW k, k = prev + j
  PROVE  Agree(FullLog(n), c, k)
<1>1. CASE j = 0
  <2>1. k = prev
    BY <1>1
  <2> QED
    BY <2>1
<1>2. CASE j # 0
  <2>1. j \in 1 .. j /\ j \in 1 .. Len(ents) /\ k \in Nat \ {0} /\ Len(ents) \in Nat
    BY <1>2, LenProperties
  <2>2. ents[j] = c[k] /\ ents[j].index = k
    BY <2>1 DEF Continues
  <2>3. SameAt(n.log, k, c[k].term)
    BY <2>1, <2>2
  <2>4. c \in Seq(Entry)
    BY GoodFacts, GoodBounds, HistoryFields
  <2>5. k <= Len(c)
    <3>1. Len(c) \in Nat /\ prev + Len(ents) <= Len(c)
      BY <2>4, LenProperties DEF Continues
    <3> QED
      BY <2>1, <3>1
  <2> QED
    BY <2>1, <2>3, <2>5, SameAtAgrees
<1> QED
  BY <1>1, <1>2

\* A log L that has lo entries in common with c, continued by those of c.
Continued(L, M, c, lo, hi) ==
  /\ lo < hi /\ hi <= Len(c) /\ Len(M) = hi
  /\ Agree(L, c, lo) /\ ~Agree(L, c, lo + 1)
  /\ \A k \in 1 .. lo : M[k] = L[k]
  /\ \A k \in lo + 1 .. hi : M[k] = c[k]
LEMMA CaughtUpLog ==
  ASSUME NEW L \in Seq(Entry), NEW M \in Seq(Entry), NEW c \in Seq(Entry),
         NEW lo \in Nat, NEW hi \in Nat, Continued(L, M, c, lo, hi),
         NEW ci \in Nat, ci <= lo
  PROVE  /\ Agree(M, c, hi) /\ Agree(M, L, ci)
         /\ \A l \in Nat : Agree(L, c, l) => l <= Len(M)
<1>0. /\ lo < hi /\ hi <= Len(c) /\ Len(M) = hi
      /\ Agree(L, c, lo) /\ ~Agree(L, c, lo + 1)
      /\ \A k \in 1 .. lo : M[k] = L[k]
      /\ \A k \in lo + 1 .. hi : M[k] = c[k]
  BY DEF Continued
<1>1. Len(L) \in Nat /\ Len(M) \in Nat /\ Len(c) \in Nat /\ lo <= Len(L)
      /\ \A k \in 1 .. lo : L[k] = c[k]
  BY <1>0, LenProperties DEF Agree
<1>2. Agree(M, c, hi)
  <2>1. ASSUME NEW k \in 1 .. hi PROVE M[k] = c[k]
    <3>1. k \in 1 .. lo \/ k \in lo + 1 .. hi
      OBVIOUS
    <3> QED
      BY <1>0, <1>1, <3>1
  <2> QED
    BY <1>0, <1>1, <2>1 DEF Agree
<1>3. Agree(M, L, ci)
  <2>1. ci <= Len(M) /\ ci <= Len(L) /\ \A k \in 1 .. ci : k \in 1 .. lo
    BY <1>0, <1>1
  <2> QED
    BY <1>0, <2>1 DEF Agree
<1>4. ASSUME NEW l \in Nat, Agree(L, c, l) PROVE l <= Len(M)
  <2>1. ASSUME lo < l PROVE Agree(L, c, lo + 1)
    <3>1. lo + 1 <= l /\ \A k \in 1 .. lo + 1 : k \in 1 .. l
      BY <2>1
    <3> QED
      BY <1>1, <1>4, <3>1 DEF Agree
  <2> QED
    BY <1>0, <1>1, <2>1
<1> QED
  BY <1>2, <1>3, <1>4

\* What has come of a message of the leader of n's term: q's log agrees with
\* the leader's up to k.
Caught(d, h, R, a, n, q, k) ==
  \E g : /\ g \in History /\ Grows(h, g, n.id) /\ Good(d, g, R, a, q)
         /\ g.owner[n.term] # None /\ Agree(FullLog(q), g.led[n.term], k)
         /\ q.id = n.id /\ q.term = n.term /\ q.state = "Follower"
LEMMA AcceptEntriesMoves ==
  ASSUME NEW d, NEW h, NEW R, NEW a, NEW n, Good(d, h, R, a, n),
         n.appendedFrom = 0, n.state = "Follower", h.owner[n.term] # None,
         NEW c, c = h.led[n.term], NEW prev \in Nat, HasTerm(n.log, prev),
         Agree(FullLog(n), c, prev),
         NEW ents \in Seq(Entry), Continues(c, prev, ents), Plain(ents)
  PROVE  Caught(d, h, R, a, n, AcceptEntries(n, ents), prev + Len(ents))
<1> DEFINE differs  == {k \in 1 .. Len(ents) : ~SameAt(n.log, ents[k].index, ents[k].term)}
           k        == Min(differs)
           at       == ents[k].index
           new      == SubSeq(ents, k, Len(ents))
           conflict == HasTerm(n.log, at)
           base     == IF conflict THEN TruncateFrom(n.log, at) ELSE n.log
           confs    == IF conflict THEN TruncateConfigsFrom(n.confHistory, at)
                       ELSE n.confHistory
           l        == AppendLog(base, new)
           ch       == confs \cup ConfigRecords(new)
           f        == MarkAppended(n, at)
           x        == \/ n.panic
                       \/ conflict /\ at <= n.commitIndex
                       \/ at # LastIndex(base) + 1
           q        == [n EXCEPT !.log = l, !.confHistory = ch, !.appendedFrom = f,
                                 !.panic = x]
           L        == FullLog(n)
           i        == n.id
           T        == n.term
           hi       == prev + Len(ents)
<1>1. /\ n \in Node /\ n.log \in Log /\ Tracks(d, n) /\ Static(n) /\ Shape(n)
      /\ d \in Durable /\ a \in Seq(Entry) /\ Covers(n.snapshot)
      /\ HistoryInv(h) /\ h \in History /\ Core(h, R, a, n)
      /\ i \in Server /\ T \in Nat /\ n.commitIndex \in Nat
      /\ h.term[i] = T /\ h.vote[i][T] = n.votedFor /\ Mine(h, i) = L
      /\ L \in Seq(Entry) /\ Len(L) = LastIndex(n.log) /\ n.commitIndex <= Len(L)
      /\ Sealed(h, L, n.commitIndex, T) /\ ~n.panic
  BY GoodFacts, GoodBounds DEF Good, Core
<1>2. /\ c \in Seq(Entry) /\ Len(ents) \in Nat /\ Len(c) \in Nat /\ hi \in Nat /\ hi <= Len(c)
      /\ \A j \in 1 .. Len(ents) : ents[j] = c[prev + j] /\ ents[j].index = prev + j
      /\ Len(L) \in Nat /\ LastIndex(n.log) \in Nat
  <2> DEFINE w == Len(ents)
  <2>1. c \in Seq(Entry)
    BY <1>1, HistoryFields
  <2>2. w \in Nat /\ Len(c) \in Nat /\ Len(L) \in Nat /\ LastIndex(n.log) \in Nat
    <3> HIDE DEF L
    <3> QED
      BY <1>1, <2>1, LenProperties
  <2>3. /\ prev + w <= Len(c)
        /\ \A j \in 1 .. w : ents[j] = c[prev + j] /\ ents[j].index = prev + j
    BY DEF Continues
  <2> HIDE DEF w, L
  <2>4. prev + w \in Nat
    BY <2>2
  <2> QED
    BY <2>1, <2>2, <2>3, <2>4 DEF w
<1>3. WellLogged(prev, ents)
  BY <1>2 DEF WellLogged
<1>4. Tracks(d, AcceptEntries(n, ents)) /\ Static(AcceptEntries(n, ents))
      /\ AcceptEntries(n, ents) \in Node
  BY <1>1, <1>3, AcceptEntriesTracks, AcceptEntriesSteady DEF Steady, Tracks
<1>5. CASE differs = {}
  <2>1. AcceptEntries(n, ents) = n
    BY <1>5, Zenon DEF AcceptEntries
  <2>2. \A j \in 1 .. Len(ents) : SameAt(n.log, ents[j].index, ents[j].term)
    BY <1>5
  <2> HIDE DEF L, hi
  <2>3. Agree(L, c, hi)
    BY <1>2, <2>2, SkippedAgree DEF L, hi
  <2> QED
    BY <1>1, <2>1, <2>3, GrowsSelf DEF Caught, L, hi
<1>6. CASE differs # {}
  <2>1. /\ k \in 1 .. Len(ents) /\ ~SameAt(n.log, ents[k].index, ents[k].term)
        /\ \A u \in 1 .. k - 1 : SameAt(n.log, ents[u].index, ents[u].term)
    <3>1. differs \in SUBSET Nat
      BY LenProperties
    <3>2. k \in differs /\ \A u \in differs : k <= u
      BY <1>6, <3>1, MinOfNat, Zenon
    <3>3. Len(ents) \in Nat /\ k \in 1 .. Len(ents)
      BY <3>2, LenProperties
    <3>4. ~SameAt(n.log, ents[k].index, ents[k].term)
      BY <3>2, Zenon
    <3> HIDE DEF k
    <3>5. \A u \in 1 .. k - 1 : u \in 1 .. Len(ents) /\ ~(k <= u)
      BY <3>3
    <3> QED
      BY <3>2, <3>3, <3>4, <3>5
  <2>2. AcceptEntries(n, ents) = q
    BY <1>6, Zenon DEF AcceptEntries
  <2> HIDE DEF k
  <2>3. at = prev + k /\ n.log.snapIndex < at /\ at <= LastIndex(n.log) + 1
    BY <1>1, <1>3, <2>1, FirstDiffers
  <2> DEFINE lo == prev + k - 1
             j  == at - n.log.snapIndex - 1
  <2>4. /\ n.log.snapIndex \in Nat /\ n.log.entries \in Seq(Entry) /\ Len(n.log.entries) \in Nat
        /\ k \in Nat \ {0} /\ k <= Len(ents) /\ at \in Nat /\ n.snapshot.data \in Seq(Entry)
        /\ Len(n.snapshot.data) = n.log.snapIndex
    <3> HIDE DEF at, L, hi
    <3>1. /\ n.log.snapIndex \in Nat /\ n.log.entries \in Seq(Entry)
          /\ Len(n.log.entries) \in Nat
      BY <1>1, LogFields
    <3>2. /\ n.snapshot.data \in Seq(Entry) /\ Len(n.snapshot.data) = n.log.snapIndex
      <4>1. n.snapshot \in Snapshot
        BY <1>1, NodeFields
      <4> QED
        BY <1>1, <4>1, SnapshotFields DEF Covers, Shape
    <3>3. Len(ents) \in Nat
      BY <1>2
    <3>4. k \in Nat \ {0} /\ k <= Len(ents)
      BY <2>1, <3>3
    <3>5. at \in Nat
      BY <2>3, <3>4
    <3> QED
      BY <3>1, <3>2, <3>4, <3>5
  <2>5. /\ new \in Seq(Entry) /\ Len(new) = Len(ents) - k + 1
        /\ \A u \in 1 .. Len(new) : new[u] = ents[k + u - 1]
    BY <1>2, <2>4, PartFields, SMTT(30)
  <2>6. ents[k] = c[at] /\ ents[k].term = c[at].term
    BY <1>2, <2>1, <2>3
  <2> HIDE DEF new, at
  <2>7. /\ lo \in Nat /\ lo + 1 = at /\ lo < hi /\ j \in Nat /\ j <= Len(n.log.entries)
        /\ Len(n.snapshot.data) + j = lo /\ lo <= Len(L)
        /\ Len(n.snapshot.data) + j + Len(new) = hi
    <3> DEFINE s == n.log.snapIndex
               y == Len(n.log.entries)
               u == Len(ents)
               v == Len(new)
               w == Len(L)
    <3>1. /\ s \in Nat /\ y \in Nat /\ u \in Nat /\ k \in Nat \ {0} /\ k <= u /\ v = u - k + 1
          /\ at = prev + k /\ s < at /\ at <= s + y + 1 /\ w = s + y
          /\ Len(n.snapshot.data) = s
      BY <1>1, <1>2, <2>3, <2>4, <2>5 DEF LastIndex
    <3> HIDE DEF s, y, u, v, w
    <3>2. j = at - s - 1 /\ hi = prev + u
      BY DEF s, u
    <3> HIDE DEF j, hi
    <3>3. /\ lo \in Nat /\ lo + 1 = at /\ lo < hi /\ j \in Nat /\ j <= y
          /\ s + j = lo /\ lo <= w /\ s + j + v = hi
      BY <3>1, <3>2
    <3> QED
      BY <3>1, <3>3 DEF y, v, w
  <2>8. Agree(L, c, lo)
    <3> DEFINE b == k - 1
    <3>1. b \in Nat /\ b <= Len(ents) /\ lo = prev + b
      BY <1>2, <2>4
    <3>2. \A u \in 1 .. b : SameAt(n.log, ents[u].index, ents[u].term)
      BY <2>1
    <3> HIDE DEF b, L, lo
    <3> QED
      BY <3>1, <3>2, SkippedAgree DEF L
  <2>9. ~Agree(L, c, at)
    <3>1. ASSUME Agree(L, c, at) PROVE FALSE
      <4>1. SameAt(n.log, at, c[at].term)
        BY <2>3, <2>4, <3>1, AgreeSameAt DEF L
      <4> QED
        BY <2>1, <2>6, <4>1 DEF at
    <3> QED
      BY <3>1
  <2>10. n.commitIndex <= lo
    <3>1. Agree(c, L, n.commitIndex)
      BY <1>1, SealedLed
    <3>2. ASSUME at <= n.commitIndex PROVE FALSE
      <4> HIDE DEF L
      <4>1. Agree(L, c, at)
        <5> DEFINE ci == n.commitIndex
        <5>1. ci \in Nat /\ at \in Nat /\ at <= ci /\ Agree(c, L, ci)
          BY <1>1, <2>4, <3>1, <3>2
        <5>2. Len(L) \in Nat /\ Len(c) \in Nat
          BY <1>2
        <5> HIDE DEF ci
        <5>3. /\ ci <= Len(c) /\ ci <= Len(L)
              /\ \A u \in 1 .. ci : c[u] = L[u]
          BY <5>1 DEF Agree
        <5>4. at <= Len(L) /\ at <= Len(c) /\ \A u \in 1 .. at : u \in 1 .. ci
          BY <5>1, <5>2, <5>3
        <5> QED
          BY <5>3, <5>4 DEF Agree
      <4> QED
        BY <2>9, <4>1
    <3>3. n.commitIndex \in Nat /\ at \in Nat /\ lo \in Nat /\ lo + 1 = at
      BY <1>1, <2>4, <2>7
    <3> HIDE DEF lo
    <3> QED
      BY <3>2, <3>3
  <2>11. ~conflict => j = Len(n.log.entries)
    <3> DEFINE z == LastIndex(n.log)
    <3>1. z = n.log.snapIndex + Len(n.log.entries) /\ n.log.snapIndex < at /\ at <= z + 1
      BY <2>3 DEF LastIndex
    <3>2. ~conflict => ~(at \in n.log.snapIndex .. z)
      BY DEF HasTerm
    <3>3. z \in Int /\ at \in Int /\ n.log.snapIndex \in Int /\ Len(n.log.entries) \in Int
      BY <2>4, <3>1
    <3> HIDE DEF z, conflict
    <3>4. ~conflict => at = z + 1
      BY <3>1, <3>2, <3>3
    <3> QED
      BY <3>1, <3>3, <3>4, SMTT(30)
  <2>12. /\ base.entries = SubSeq(n.log.entries, 1, j)
         /\ base.snapIndex = n.log.snapIndex /\ base \in Log
    <3>1. CASE conflict
      <4>1. TruncateFrom(n.log, at) \in Log
        BY <1>1, <2>3, <2>4, TruncateFromType
      <4> QED
        BY <1>1, <3>1, <4>1 DEF TruncateFrom, Log
    <3>2. CASE ~conflict
      <4>1. SubSeq(n.log.entries, 1, j) = n.log.entries
        BY <2>4, <2>11, <3>2, SubSeqFull
      <4> QED
        BY <1>1, <3>2, <4>1
    <3> QED
      BY <3>1, <3>2
  <2>13. LastIndex(base) + 1 = at
    <3>1. Len(SubSeq(n.log.entries, 1, j)) = j
      <4>1. j \in Int /\ 1 \in Nat \ {0}
        BY <2>7
      <4>2. Len(SubSeq(n.log.entries, 1, j)) = IF 1 <= j THEN j - 1 + 1 ELSE 0
        BY <2>4, <2>7, <4>1, PartFields
      <4> HIDE DEF j
      <4> QED
        BY <2>7, <4>2
    <3> QED
      BY <2>4, <2>7, <2>12, <3>1 DEF LastIndex
  <2>14. x = FALSE
    <3>1. ~(at <= n.commitIndex)
      BY <1>1, <2>7, <2>10, SMTT(30)
    <3> QED
      BY <1>1, <2>13, <3>1
  <2>15. l.entries = SubSeq(n.log.entries, 1, j) \o new
    BY <2>12 DEF AppendLog, Log
  <2> HIDE DEF base, confs, conflict, l, ch, f, x
  <2>16. /\ q.log = l /\ q.snapshot = n.snapshot /\ q.snapDirty = n.snapDirty
         /\ q.commitIndex = n.commitIndex /\ q.lastApplied = n.lastApplied
         /\ q.out = n.out /\ q.id = i /\ q.term = T /\ q.votedFor = n.votedFor
         /\ q.applied = n.applied /\ q.panic = x /\ q.state = n.state
    BY <1>1 DEF Node
  <2> HIDE DEF q
  <2> DEFINE M == FullLog(q)
             g == Catch(h, i, M)
  <2>17. M = n.snapshot.data \o (SubSeq(n.log.entries, 1, j) \o new)
    BY <2>15, <2>16 DEF FullLog
  <2>18. /\ M \in Seq(Entry) /\ Len(M) = hi
         /\ \A u \in 1 .. lo : M[u] = L[u]
         /\ \A u \in 1 .. Len(new) : M[lo + u] = new[u]
    <3> DEFINE z == Len(n.snapshot.data) + j
    <3>1. /\ M \in Seq(Entry) /\ Len(M) = z + Len(new)
          /\ \A u \in 1 .. z : M[u] = (n.snapshot.data \o n.log.entries)[u]
          /\ \A u \in 1 .. Len(new) : M[z + u] = new[u]
      <4> DEFINE o == n.snapshot.data
                 e == n.log.entries
      <4>1. /\ o \in Seq(Entry) /\ e \in Seq(Entry) /\ new \in Seq(Entry)
            /\ j \in Nat /\ j <= Len(e)
        BY <2>4, <2>5, <2>7
      <4>2. M = Splice(o, e, j, new)
        BY <2>17, Zenon DEF Splice
      <4> HIDE DEF M, j, o, e
      <4>3. SplicedTo(M, o, e, j, new)
        BY <4>1, <4>2, Spliced
      <4> QED
        BY <4>3 DEF SplicedTo, o, e
    <3>2. z = lo /\ z + Len(new) = hi
      BY <2>7
    <3> HIDE DEF z, M, lo, hi
    <3> QED
      BY <3>1, <3>2 DEF L, FullLog
  <2> HIDE DEF M, j
  <2>19. \A u \in lo + 1 .. hi : M[u] = c[u]
    <3>1. ASSUME NEW u \in lo + 1 .. hi PROVE M[u] = c[u]
      <4> DEFINE v == u - lo
                 w == k + v - 1
      <4>1. /\ v \in 1 .. Len(new) /\ lo + v = u /\ w \in 1 .. Len(ents) /\ prev + w = u
        BY <1>2, <2>4, <2>5
      <4> HIDE DEF v, w
      <4>2. M[u] = new[v] /\ new[v] = ents[w]
        BY <2>5, <2>18, <4>1 DEF w
      <4> QED
        BY <1>2, <4>1, <4>2
    <3> QED
      BY <3>1
  <2>20. /\ Agree(M, c, hi) /\ Agree(M, L, n.commitIndex)
         /\ \A u \in Nat : Agree(L, c, u) => u <= Len(M)
    <3>1. ~Agree(L, c, lo + 1)
      BY <2>7, <2>9
    <3>2. /\ L \in Seq(Entry) /\ M \in Seq(Entry) /\ c \in Seq(Entry) /\ lo \in Nat /\ hi \in Nat
          /\ lo < hi /\ hi <= Len(c) /\ Len(M) = hi /\ Agree(L, c, lo)
          /\ n.commitIndex \in Nat /\ n.commitIndex <= lo
      BY <1>1, <1>2, <2>7, <2>8, <2>10, <2>18
    <3>3. /\ \A u \in 1 .. lo : M[u] = L[u]
          /\ \A u \in lo + 1 .. hi : M[u] = c[u]
      BY <2>18, <2>19
    <3>4. Continued(L, M, c, lo, hi)
      BY <3>1, <3>2, <3>3 DEF Continued
    <3> HIDE DEF L, lo, hi
    <3> QED
      BY <3>2, <3>4, CaughtUpLog
  <2> HIDE DEF L, lo, hi
  <2>21. MayCatch(h, i, M)
    BY <1>1, <2>18, <2>20 DEF MayCatch
  <2>22. HistoryInv(g) /\ Grows(h, g, i) /\ Mine(g, i) = M
    BY <1>1, <2>21, CatchKeeps
  <2>23. g \in History /\ g.led = h.led /\ g.owner = h.owner /\ g.term = h.term /\ g.vote = h.vote
    BY <1>1, <2>18, CatchFields
  <2> HIDE DEF g
  <2>24. q \in Node /\ Tracks(d, q) /\ Static(q)
    BY <1>4, <2>2
  <2>25. q.panic = n.panic
    <3>1. n.panic \in BOOLEAN
      BY <1>1, NodeFields
    <3> QED
      BY <1>1, <2>14, <2>16, <3>1, Zenon
  <2>26. Carries(h, g, n, q)
    BY <1>1, <2>16, <2>20, <2>22, <2>23, <2>25 DEF Carries, M, L
  <2>27. Core(g, R, a, q)
    BY <1>1, <2>22, <2>23, <2>24, <2>26, CoreMoves
  <2>28. q.state = "Follower"
    BY <2>16
  <2>29. Good(d, g, R, a, q)
    BY <1>1, <2>22, <2>24, <2>27, <2>28, RoleNone DEF Good
  <2> QED
    BY <2>2, <2>16, <2>20, <2>22, <2>23, <2>28, <2>29 DEF Caught, M, hi
<1> QED
  BY <1>5, <1>6

\* What a node has in common with the leader of its term, it may tell it.
LEMMA AppReplyGood ==
  ASSUME NEW d, NEW h, NEW R, NEW a, NEW n, Good(d, h, R, a, n), NEW m \in Message,
         NEW success \in BOOLEAN, NEW match \in Nat, NEW ci \in Nat, NEW ct \in Nat,
         Agree(FullLog(n), h.led[n.term], match)
  PROVE  Good(d, h, R, a, AppReply(n, m, success, match, ci, ct))
<1> DEFINE r == [type |-> "AppResp", from |-> n.id, to |-> m.from, term |-> n.term,
                 success |-> success, matchIndex |-> match,
                 conflictIndex |-> ci, conflictTerm |-> ct]
<1>1. n \in Node /\ h.held[n.id][n.term] = FullLog(n)
  BY GoodFacts
<1>2. r \in Message /\ ~Granted(r) /\ Sound(r) /\ Linked(r)
  BY <1>1, NodeFields, MessageEnds DEF AppResp, Message, Granted, Sound, Linked
<1>3. Truthful(h, R, r)
  BY <1>1 DEF Truthful, Granted, Holds
<1>4. AppReply(n, m, success, match, ci, ct) = Send(n, {r})
  BY Zenon DEF AppReply
<1> HIDE DEF r
<1> QED
  BY <1>2, <1>3, <1>4, SendGood

LEMMA NothingAgreed ==
  ASSUME NEW d, NEW h, NEW R, NEW a, NEW n, Good(d, h, R, a, n)
  PROVE  Agree(FullLog(n), h.led[n.term], 0)
<1>1. /\ n.term \in Nat /\ h \in History /\ FullLog(n) \in Seq(Entry)
  BY GoodFacts, GoodBounds
<1> QED
  BY <1>1, HistoryFields, AgreeNothing

LEMMA RejectAppGood ==
  ASSUME NEW d, NEW h, NEW R, NEW a, NEW n, Good(d, h, R, a, n), NEW m \in Message,
         NEW prev \in Nat
  PROVE  Good(d, h, R, a, RejectApp(n, m, prev))
<1> DEFINE t == TermAt(n.log, prev)
           f == FirstIndexOfTerm(n.log, prev, t)
           l == LastIndex(n.log) + 1
<1>1. n.log \in Log /\ t \in Nat /\ f \in Nat /\ l \in Nat
  BY GoodBounds, TermAtType, FirstIndexOfTermType, IndexType, SMTT(30)
<1>2. Agree(FullLog(n), h.led[n.term], 0)
  BY NothingAgreed
<1>3. RejectApp(n, m, prev) \in {AppReply(n, m, FALSE, 0, f, t), AppReply(n, m, FALSE, 0, l, 0)}
  BY DEF RejectApp
<1> HIDE DEF t, f, l
<1> QED
  BY <1>1, <1>2, <1>3, AppReplyGood

\* The commit index follows the leader's within what is known to agree.
LEMMA AdvanceCommitGood ==
  ASSUME NEW d, NEW g, NEW R, NEW a, NEW q, Good(d, g, R, a, q), g.owner[q.term] # None,
         NEW commit \in Nat, Sealed(g, g.led[q.term], commit, q.term),
         NEW k \in Nat, Agree(FullLog(q), g.led[q.term], k)
  PROVE  LET p == AdvanceCommit(q, commit, k) IN
         /\ Good(d, g, R, a, p) /\ FullLog(p) = FullLog(q)
         /\ p.id = q.id /\ p.term = q.term /\ p.state = q.state
<1> DEFINE c == Min({commit, k})
           led == g.led[q.term]
<1>1. c = IF commit <= k THEN commit ELSE k
  BY MinOfTwo
<1>2. /\ g \in History /\ FullLog(q) \in Seq(Entry) /\ q.term \in Nat /\ q.commitIndex \in Nat
      /\ led \in Seq(Entry)
  BY GoodFacts, GoodBounds, HistoryFields
<1> HIDE DEF c
<1>3. c \in Nat /\ c <= k /\ c <= commit
  BY <1>1
<1>4. Agree(FullLog(q), led, c)
  BY <1>2, <1>3, AgreeFacts
<1>5. Sealed(g, FullLog(q), c, q.term)
  BY <1>2, <1>3, <1>4, SealedPart
<1> DEFINE p == ApplyCommitted([q EXCEPT !.commitIndex = c])
<1>6. CASE c > q.commitIndex
  <2>1. AdvanceCommit(q, commit, k) = p
    BY <1>6, Zenon DEF AdvanceCommit, c
  <2>2. /\ Good(d, g, R, a, p) /\ p.state = q.state /\ p.log = q.log
        /\ p.snapshot = q.snapshot /\ p.id = q.id /\ p.term = q.term
    BY <1>2, <1>3, <1>5, <1>6, CommitGood
  <2> QED
    BY <2>1, <2>2 DEF FullLog
<1>7. CASE ~(c > q.commitIndex)
  <2>1. AdvanceCommit(q, commit, k) = q
    BY <1>7, Zenon DEF AdvanceCommit, c
  <2> QED
    BY <2>1
<1> QED
  BY <1>6, <1>7

\* The commit index, as an agreement with the leader of the term.
LEMMA CommittedAgrees ==
  ASSUME NEW d, NEW h, NEW R, NEW a, NEW n, Good(d, h, R, a, n),
         h.owner[n.term] # None, NEW k \in Nat, k <= n.commitIndex
  PROVE  Agree(FullLog(n), h.led[n.term], k)
<1> DEFINE L == FullLog(n)
           c == h.led[n.term]
<1>1. /\ HistoryInv(h) /\ h \in History /\ L \in Seq(Entry) /\ n.term \in Nat
      /\ n.commitIndex \in Nat /\ c \in Seq(Entry) /\ Sealed(h, L, n.commitIndex, n.term)
  BY GoodFacts, GoodBounds, HistoryFields
<1>2. Agree(c, L, n.commitIndex)
  BY <1>1, SealedLed
<1> HIDE DEF L, c
<1>3. Agree(L, c, n.commitIndex)
  BY <1>1, <1>2, AgreeFacts
<1>4. Agree(L, c, k)
  BY <1>1, <1>3, AgreeFacts
<1> QED
  BY <1>4 DEF L, c

\* What is left of a message's entries above the snapshot still continues the
\* leader's log.
LEMMA RestContinues ==
  ASSUME NEW m \in App, NEW c, Linked(m), Plain(m.entries),
         m.prevLogIndex + Len(m.entries) <= Len(c),
         \A k \in 1 .. Len(m.entries) : m.entries[k] = c[m.prevLogIndex + k],
         NEW skip \in Nat, skip <= Len(m.entries),
         NEW ents, ents = SubSeq(m.entries, skip + 1, Len(m.entries)),
         NEW prev, prev = m.prevLogIndex + skip
  PROVE  Continues(c, prev, ents) /\ ents \in Seq(Entry) /\ Plain(ents) /\ prev \in Nat
<1>1. /\ m.prevLogIndex \in Nat /\ m.entries \in Seq(Entry) /\ Len(m.entries) \in Nat
      /\ m.type = "App"
  BY LenProperties DEF App
<1>2. \A k \in 1 .. Len(m.entries) : m.entries[k].index = m.prevLogIndex + k
  BY <1>1 DEF Linked, WellLogged
<1> DEFINE lo == skip + 1
           hi == Len(m.entries)
<1>3. lo \in Nat \ {0} /\ hi \in Int /\ hi <= Len(m.entries) /\ lo = skip + 1
  BY <1>1
<1> HIDE DEF lo, hi
<1>4. /\ SubSeq(m.entries, lo, hi) \in Seq(Entry)
      /\ Len(SubSeq(m.entries, lo, hi)) = IF lo <= hi THEN hi - lo + 1 ELSE 0
      /\ \A i \in 1 .. Len(SubSeq(m.entries, lo, hi)) :
            SubSeq(m.entries, lo, hi)[i] = m.entries[lo + i - 1]
      /\ Plain(SubSeq(m.entries, lo, hi))
  BY <1>1, <1>3, PartFields, PlainPart
<1>5. /\ ents \in Seq(Entry) /\ Plain(ents)
      /\ Len(ents) = IF lo <= hi THEN hi - lo + 1 ELSE 0
      /\ \A i \in 1 .. Len(ents) : ents[i] = m.entries[lo + i - 1]
  BY <1>4 DEF lo, hi
<1>6. Len(ents) = Len(m.entries) - skip
  BY <1>1, <1>3, <1>5 DEF hi
<1>7. ASSUME NEW k \in 1 .. Len(ents)
      PROVE  ents[k] = c[prev + k] /\ ents[k].index = prev + k
  <2> DEFINE w == skip + k
  <2>1. w \in 1 .. Len(m.entries) /\ lo + k - 1 = w /\ m.prevLogIndex + w = prev + k
    <3> DEFINE z == Len(m.entries)
               u == Len(ents)
    <3>1. /\ z \in Nat /\ skip <= z /\ u = z - skip /\ k \in 1 .. u /\ m.prevLogIndex \in Nat
      BY <1>1, <1>6
    <3> HIDE DEF z, u
    <3>2. w \in 1 .. z /\ m.prevLogIndex + w = prev + k
      BY <3>1
    <3>3. lo + k - 1 = w
      BY <1>3, <3>1
    <3> QED
      BY <3>2, <3>3 DEF z
  <2> HIDE DEF w
  <2> QED
    BY <1>2, <1>5, <2>1
<1>8. prev \in Nat /\ prev + Len(ents) <= Len(c)
  BY <1>1, <1>6, SMTT(30)
<1> QED
  BY <1>5, <1>7, <1>8 DEF Continues

LEMMA HandleAppAsFollowerMoves ==
  ASSUME NEW d, NEW h, NEW R, NEW a, NEW n, Good(d, h, R, a, n), n.appendedFrom = 0,
         n.state = "Follower", NEW m \in App, m.term = n.term,
         Truthful(h, R, m), Sound(m), Linked(m)
  PROVE  Moved(d, h, R, a, n.id, HandleAppAsFollower(n, m))
<1> DEFINE covered == m.prevLogIndex < n.log.snapIndex
           skip == IF covered THEN n.log.snapIndex - m.prevLogIndex ELSE 0
           ents == SubSeq(m.entries, skip + 1, Len(m.entries))
           prev == m.prevLogIndex + skip
           lastNew == prev + Len(ents)
           L == FullLog(n)
           T == n.term
           c == h.led[T]
           q == AcceptEntries(n, ents)
           p == AdvanceCommit(q, m.commit, lastNew)
<1>1. /\ m \in Message /\ m.type = "App" /\ m.prevLogIndex \in Nat /\ m.commit \in Nat
      /\ m.entries \in Seq(Entry) /\ Len(m.entries) \in Nat
  BY LenProperties DEF App, Message
<1>2. /\ n.id \in Server /\ T \in Nat /\ h \in History /\ HistoryInv(h) /\ n.log \in Log
      /\ n.log.snapIndex \in Nat /\ n.log.snapIndex <= n.commitIndex
  BY GoodFacts, GoodBounds
<1>3. /\ h.owner[T] # None /\ m.prevLogIndex + Len(m.entries) <= Len(c)
      /\ \A k \in 1 .. Len(m.entries) : m.entries[k] = c[m.prevLogIndex + k]
      /\ m.prevLogTerm = TermOf(c, m.prevLogIndex) /\ Sealed(h, c, m.commit, T)
  BY <1>1 DEF Truthful, TrueEntries
<1>4. Agree(L, c, n.log.snapIndex)
  BY <1>2, <1>3, CommittedAgrees
<1>5. skip \in Nat /\ prev \in Nat /\ (covered => prev = n.log.snapIndex)
      /\ (~covered => skip = 0 /\ prev = m.prevLogIndex)
  BY <1>1, <1>2
<1>6. CASE covered /\ Len(m.entries) <= skip
  <2>1. HandleAppAsFollower(n, m) = AppReply(n, m, TRUE, n.log.snapIndex, 0, 0)
    BY <1>6, Zenon DEF HandleAppAsFollower
  <2>2. /\ TRUE \in BOOLEAN /\ 0 \in Nat /\ m \in Message /\ n.log.snapIndex \in Nat
        /\ Agree(FullLog(n), h.led[n.term], n.log.snapIndex)
    BY <1>1, <1>2, <1>4
  <2>3. Good(d, h, R, a, AppReply(n, m, TRUE, n.log.snapIndex, 0, 0))
    BY <2>2, AppReplyGood
  <2> QED
    BY <2>1, <2>3, GoodMoved
<1>7. CASE ~(covered /\ Len(m.entries) <= skip) /\ ~SameAt(n.log, prev, m.prevLogTerm)
  <2>1. HandleAppAsFollower(n, m) = RejectApp(n, m, prev)
    BY <1>7, Zenon DEF HandleAppAsFollower
  <2> HIDE DEF prev, covered, skip
  <2> QED
    BY <1>1, <1>5, <2>1, RejectAppGood, GoodMoved
<1>8. CASE ~(covered /\ Len(m.entries) <= skip) /\ SameAt(n.log, prev, m.prevLogTerm)
  <2>1. HandleAppAsFollower(n, m) = AppReply(p, m, TRUE, lastNew, 0, 0)
    BY <1>8, Zenon DEF HandleAppAsFollower
  <2>2. HasTerm(n.log, prev)
    BY <1>8 DEF SameAt
  <2>3. skip <= Len(m.entries)
    BY <1>1, <1>5, <1>8
  <2>4. Plain(m.entries)
    BY <1>1 DEF Sound
  <2> HIDE DEF covered, skip, prev, L, c
  <2>5. Agree(L, c, prev)
    <3>1. CASE covered
      BY <1>4, <1>5, <3>1
    <3>2. CASE ~covered /\ prev = 0
      BY <3>2, NothingAgreed DEF L, c
    <3>3. CASE ~covered /\ prev # 0
      <4>1. /\ prev \in Nat \ {0} /\ prev = m.prevLogIndex /\ prev <= Len(c)
            /\ m.prevLogTerm = c[prev].term
        <5>1. Len(c) \in Nat
          BY <1>2, HistoryFields, LenProperties DEF c
        <5> QED
          BY <1>1, <1>3, <1>5, <3>3, <5>1 DEF TermOf
      <4>2. SameAt(n.log, prev, c[prev].term)
        BY <1>8, <4>1
      <4> QED
        BY <4>1, <4>2, SameAtAgrees DEF L, c
    <3> QED
      BY <3>1, <3>2, <3>3
  <2>6. Continues(c, prev, ents) /\ ents \in Seq(Entry) /\ Plain(ents) /\ prev \in Nat
    BY <1>1, <1>3, <1>5, <2>3, <2>4, RestContinues DEF prev
  <2>7. lastNew \in Nat
    BY <2>6, LenProperties
  <2> HIDE DEF ents
  <2>8. Caught(d, h, R, a, n, q, lastNew)
    BY <1>3, <2>2, <2>5, <2>6, AcceptEntriesMoves DEF L, c
  <2> HIDE DEF q, lastNew
  <2>9. PICK g : /\ g \in History /\ Grows(h, g, n.id) /\ Good(d, g, R, a, q)
                 /\ g.owner[T] # None /\ Agree(FullLog(q), g.led[T], lastNew)
                 /\ q.id = n.id /\ q.term = T
    BY <2>8 DEF Caught
  <2>10. Sealed(g, g.led[T], m.commit, T)
    BY <1>1, <1>2, <1>3, <2>9, LedGrows DEF c
  <2>11. /\ Good(d, g, R, a, p) /\ FullLog(p) = FullLog(q) /\ p.id = q.id /\ p.term = q.term
    BY <1>1, <2>7, <2>9, <2>10, AdvanceCommitGood
  <2> HIDE DEF p
  <2>12. Agree(FullLog(p), g.led[p.term], lastNew)
    BY <2>9, <2>11
  <2>13. TRUE \in BOOLEAN /\ 0 \in Nat /\ m \in Message
    BY <1>1
  <2>14. Good(d, g, R, a, AppReply(p, m, TRUE, lastNew, 0, 0))
    BY <2>7, <2>11, <2>12, <2>13, AppReplyGood
  <2> HIDE DEF T
  <2>15. g \in History /\ Grows(h, g, n.id)
    BY <2>9
  <2> QED
    BY <2>1, <2>14, <2>15, Zenon DEF Moved
<1> QED
  BY <1>6, <1>7, <1>8

\* What a node forgets when it follows another in its term.
LEMMA FollowerOfGood ==
  ASSUME NEW d, NEW h, NEW R, NEW a, NEW n, Good(d, h, R, a, n), NEW m \in Message,
         m.term = n.term
  PROVE  LET f == FollowerOf(n, m) IN
         /\ Good(d, h, R, a, f) /\ Same(n, f) /\ f.state = "Follower"
         /\ f.appendedFrom = n.appendedFrom
<1> DEFINE f == FollowerOf(n, m)
           b == [n EXCEPT !.leaderID = m.from]
<1>1. n \in Node /\ Static(n) /\ Tracks(d, n) /\ m.from \in OptServer /\ m.term \in Nat
      /\ m.term <= n.term
  BY GoodFacts, GoodBounds, MessageEnds DEF OptServer
<1>2. Tracks(d, f) /\ Static(f) /\ f.appendedFrom = n.appendedFrom
  BY <1>1, FollowerOfTracks, FollowerOfStatic
<1>3. CASE n.state = "Follower"
  <2>1. f = b
    BY <1>3, Zenon DEF FollowerOf
  <2>2. Same(n, b) /\ b.state = "Follower" /\ b.out = n.out
    BY <1>1, <1>3 DEF Same, Node
  <2> HIDE DEF b, f
  <2> QED
    BY <1>2, <2>1, <2>2, RoleNone, GoodSame DEF f
<1>4. CASE n.state # "Follower"
  <2>1. f = BecomeFollower(n, m.term, m.from)
    BY <1>4, Zenon DEF FollowerOf
  <2> HIDE DEF f
  <2> QED
    BY <1>1, <1>2, <2>1, StepDownGood DEF f
<1> QED
  BY <1>3, <1>4

LEMMA HandleAppMoves ==
  ASSUME NEW d, NEW h, NEW R, NEW a, NEW n, Good(d, h, R, a, n), n.appendedFrom = 0,
         NEW m \in App, m.term = n.term, Truthful(h, R, m), Sound(m), Linked(m)
  PROVE  Moved(d, h, R, a, n.id, HandleApp(n, m))
<1> DEFINE f == FollowerOf(n, m)
<1>1. m \in Message
  BY DEF Message
<1>2. /\ Good(d, h, R, a, f) /\ f.id = n.id /\ f.term = n.term /\ f.state = "Follower"
      /\ f.appendedFrom = 0
  BY <1>1, FollowerOfGood DEF Same
<1> HIDE DEF f
<1>3. Moved(d, h, R, a, n.id, HandleAppAsFollower(f, m))
  BY <1>2, HandleAppAsFollowerMoves
<1> QED
  BY <1>3, GoodMoved DEF HandleApp, f

-----------------------------------------------------------------------------
(* Answers at the leader *)

\* A leader changes what it believes of its peers, within what they hold.
LEMMA PeersGood ==
  ASSUME NEW d, NEW h, NEW R, NEW a, NEW n, Good(d, h, R, a, n), n.state = "Leader",
         NEW r \in [Server -> Progress],
         \A s \in Server :
           /\ r[s].next <= Len(FullLog(n)) + 1
           /\ Agree(h.held[s][n.term], FullLog(n), r[s].match)
  PROVE  LET q == [n EXCEPT !.prs = r] IN
         Good(d, h, R, a, q) /\ q.state = "Leader" /\ q.id = n.id /\ q.prs = r
<1> DEFINE q == [n EXCEPT !.prs = r]
<1>1. n \in Node /\ Tracks(d, n) /\ Static(n) /\ h.owner[n.term] = n.id
  BY GoodFacts, GoodLeader
<1>2. Tracks(d, q)
  BY <1>1, PeersTrack
<1>3. /\ Same(n, q) /\ q.out = n.out /\ q.state = n.state /\ q.prs = r
      /\ q.learner = n.learner /\ q.confHistory = n.confHistory
  BY <1>1 DEF Same, Node
<1> HIDE DEF q
<1>4. Static(q)
  BY <1>1, <1>3 DEF Static, InitialOnly, Same
<1>5. FullLog(q) = FullLog(n)
  BY <1>3 DEF FullLog, Same
<1>6. Role(h, q)
  BY <1>1, <1>3, <1>5 DEF Role, Peers, Same
<1>7. Good(d, h, R, a, q)
  BY <1>2, <1>3, <1>4, <1>6, GoodSame
<1> QED
  BY <1>3, <1>7 DEF q, Same

\* A leader begins or ends a transfer.
LEMMA PlanGood ==
  ASSUME NEW d, NEW h, NEW R, NEW a, NEW n, Good(d, h, R, a, n), NEW s \in OptServer
  PROVE  LET q == [n EXCEPT !.transferee = s] IN
         Good(d, h, R, a, q) /\ q.state = n.state
<1> DEFINE q == [n EXCEPT !.transferee = s]
<1>1. n \in Node /\ Tracks(d, n) /\ Static(n) /\ Role(h, n)
  BY GoodFacts DEF Good
<1>2. Tracks(d, q)
  BY <1>1, PlansTrack
<1>3. /\ Same(n, q) /\ q.out = n.out /\ q.state = n.state /\ q.prs = n.prs
      /\ q.learner = n.learner /\ q.confHistory = n.confHistory /\ q.votes = n.votes
  BY <1>1 DEF Same, Node
<1> HIDE DEF q
<1>4. Static(q)
  BY <1>1, <1>3 DEF Static, InitialOnly, Same
<1>5. Role(h, q)
  BY <1>1, <1>3, RoleSame DEF Role, Peers
<1>6. Good(d, h, R, a, q)
  BY <1>2, <1>3, <1>4, <1>5, GoodSame
<1> QED
  BY <1>3, <1>6 DEF q

LEMMA SendTimeoutNowGood ==
  ASSUME NEW d, NEW h, NEW R, NEW a, NEW n, Good(d, h, R, a, n), NEW to \in Server
  PROVE  /\ Good(d, h, R, a, SendTimeoutNow(n, to))
         /\ SendTimeoutNow(n, to).state = n.state
<1> DEFINE r == [type |-> "TimeoutNow", from |-> n.id, to |-> to, term |-> n.term]
<1>1. n \in Node
  BY GoodFacts
<1>2. r \in Message /\ ~Granted(r) /\ Sound(r) /\ Linked(r) /\ Truthful(h, R, r)
  BY <1>1, NodeFields DEF TimeoutNow, Message, Granted, Sound, Linked, Truthful
<1>3. SendTimeoutNow(n, to) = Send(n, {r})
  BY Zenon DEF SendTimeoutNow
<1> HIDE DEF r
<1>4. Send(n, {r}).state = n.state
  BY <1>1 DEF Send, Node
<1> QED
  BY <1>2, <1>3, <1>4, SendGood

\* A leader knows no more of another server than what that server holds.
LEMMA AckGood ==
  ASSUME NEW d, NEW h, NEW R, NEW a, NEW n, Good(d, h, R, a, n), n.state = "Leader",
         NEW from \in Server, NEW match \in Nat, Holds(h, from, n.term, match)
  PROVE  Good(d, h, R, a, Ack(n, from, match)) /\ Ack(n, from, match).state = "Leader"
<1> DEFINE pr == n.prs[from]
           mt == Max({match, pr.match})
           nx == Max({mt + 1, pr.next})
           p == [next |-> nx, match |-> mt, recentActive |-> TRUE, pendingSnap |-> FALSE]
           r == [n.prs EXCEPT ![from] = p]
           L == FullLog(n)
           H == h.held[from][n.term]
<1>1. n \in Node /\ n.prs \in [Server -> Progress] /\ Len(L) \in Nat
      /\ h.led[n.term] = L /\ Peers(h, n)
  BY GoodFacts, GoodBounds, GoodLeader
<1>2. pr.next \in Nat /\ pr.match \in Nat
  BY <1>1, ProgressFields
<1>3. Agree(H, L, match) /\ Agree(H, L, pr.match) /\ pr.next <= Len(L) + 1
  BY <1>1 DEF Holds, Peers
<1>4. mt = IF match >= pr.match THEN match ELSE pr.match
  BY <1>2, MaxOfTwo
<1> HIDE DEF mt
<1>5. mt \in Nat /\ Agree(H, L, mt)
  BY <1>2, <1>3, <1>4
<1>6. mt <= Len(L)
  BY <1>5 DEF Agree
<1>7. nx = IF mt + 1 >= pr.next THEN mt + 1 ELSE pr.next
  BY <1>2, <1>5, MaxOfTwo
<1> HIDE DEF nx, L, H, pr
<1>8. nx \in Nat \ {0} /\ nx <= Len(L) + 1
  BY <1>1, <1>2, <1>3, <1>5, <1>6, <1>7
<1>9. p \in Progress /\ p.next = nx /\ p.match = mt
  BY <1>5, <1>8 DEF Progress
<1> HIDE DEF p
<1>10. r \in [Server -> Progress] /\ \A s \in Server : r[s] = IF s = from THEN p ELSE n.prs[s]
  BY <1>1, <1>9
<1> HIDE DEF r
<1>11. \A s \in Server :
          /\ r[s].next <= Len(FullLog(n)) + 1
          /\ Agree(h.held[s][n.term], FullLog(n), r[s].match)
  BY <1>1, <1>5, <1>8, <1>9, <1>10 DEF Peers, L, H
<1>12. Ack(n, from, match) = [n EXCEPT !.prs = r]
  <2>1. Ack(n, from, match) = [n EXCEPT !.prs[from] = p]
    BY Zenon DEF Ack, p, nx, mt, pr
  <2>2. [n EXCEPT !.prs[from] = p] = [n EXCEPT !.prs = r]
    BY <1>1 DEF r, Node
  <2> QED
    BY <2>1, <2>2
<1> QED
  BY <1>10, <1>11, <1>12, PeersGood

LEMMA AfterAckGood ==
  ASSUME NEW d, NEW h, NEW R, NEW a, NEW n, Good(d, h, R, a, n), n.state = "Leader",
         NEW from \in Server, NEW match \in Nat, Holds(h, from, n.term, match),
         NEW isApp \in BOOLEAN
  PROVE  Good(d, h, R, a, AfterAck(n, from, match, isApp))
<1> DEFINE k == MaybeCommit(Ack(n, from, match))
           b == IF isApp /\ k.transferee = from /\ CaughtUp(k, from)
                THEN SendTimeoutNow(k, from) ELSE k
           c == MaybePromoteLearner(b, from)
<1>1. Good(d, h, R, a, k)
  BY AckGood, MaybeCommitGood
<1> HIDE DEF k
<1>2. Good(d, h, R, a, b) /\ b.state = k.state
  <2>1. /\ Good(d, h, R, a, SendTimeoutNow(k, from))
        /\ SendTimeoutNow(k, from).state = k.state
    BY <1>1, SendTimeoutNowGood
  <2>2. b = SendTimeoutNow(k, from) \/ b = k
    BY Zenon
  <2> HIDE DEF b
  <2> QED
    BY <1>1, <2>1, <2>2
<1> HIDE DEF b
<1>3. b.learner # from
  BY <1>2, ServerAssumption, GoodFacts DEF InitialOnly
<1>4. c = b
  BY <1>3, Zenon DEF MaybePromoteLearner
<1> HIDE DEF c
<1>5. k.state = "Leader" => Good(d, h, R, a, SendAppends(c, {from}))
  BY <1>2, <1>4, SendAppendsGood
<1>6. AfterAck(n, from, match, isApp) \in {k, c}
      \/ (k.state = "Leader" /\ AfterAck(n, from, match, isApp) = SendAppends(c, {from}))
  BY Zenon DEF AfterAck, k, b, c
<1> QED
  BY <1>1, <1>2, <1>4, <1>5, <1>6

\* After a refusal the leader goes back, but not below what it knows to match.
LEMMA NextBounded ==
  ASSUME NEW n \in Node, NEW m \in AppResp, n.prs[m.from].match <= LastIndex(n.log)
  PROVE  NextAfterReject(n, m) <= LastIndex(n.log) + 1
<1> DEFINE last  == LastIndex(n.log)
           li    == IF m.conflictTerm = 0 THEN 0 ELSE LastIndexOfTerm(n.log, m.conflictTerm)
           hint  == IF li # 0 THEN li + 1 ELSE m.conflictIndex
           bound == Min({Max({hint, 1}), last + 1})
<1>1. /\ m.from \in Server /\ m.conflictIndex \in Nat /\ last \in Nat
      /\ n.prs[m.from].match \in Nat
  BY NodeFields, IndexType, ProgressFields DEF AppResp
<1>2. li \in Nat
  BY <1>1, NodeFields, LastIndexOfTermType
<1> HIDE DEF li
<1>3. hint \in Nat
  BY <1>1, <1>2
<1>4. n.prs[m.from].match <= last
  OBVIOUS
<1> HIDE DEF hint, last
<1>5. bound \in Nat /\ bound <= last + 1
  BY <1>1, <1>3, MinOfTwo, MaxOfTwo
<1>6. NextAfterReject(n, m) = Max({bound, n.prs[m.from].match + 1})
  BY Zenon DEF NextAfterReject, bound, hint, li, last
<1> HIDE DEF bound
<1>7. NextAfterReject(n, m) <= last + 1
  BY <1>1, <1>4, <1>5, <1>6, MaxOfTwo
<1> QED
  BY <1>7 DEF last

LEMMA HandleAppRespGood ==
  ASSUME NEW d, NEW h, NEW R, NEW a, NEW n, Good(d, h, R, a, n), NEW m \in AppResp,
         Truthful(h, R, m)
  PROVE  Good(d, h, R, a, HandleAppResp(n, m))
<1> DEFINE k == NextAfterReject(n, m)
           pr == n.prs[m.from]
           p == [pr EXCEPT !.recentActive = TRUE, !.next = k]
           r == [n.prs EXCEPT ![m.from] = p]
           b == [n EXCEPT !.prs = r]
<1>1. m.from \in Server /\ m.matchIndex \in Nat /\ m.success \in BOOLEAN /\ m.type = "AppResp"
  BY DEF AppResp
<1>2. n \in Node /\ n.prs \in [Server -> Progress] /\ Len(FullLog(n)) = LastIndex(n.log)
  BY GoodFacts, GoodBounds
<1>3. ASSUME ~IgnoresAck(n, m), m.success
      PROVE  Good(d, h, R, a, HandleAppResp(n, m))
  <2>1. n.state = "Leader" /\ Holds(h, m.from, n.term, m.matchIndex)
    BY <1>1, <1>3 DEF IgnoresAck, Truthful
  <2>2. HandleAppResp(n, m) = AfterAck(n, m.from, m.matchIndex, TRUE)
    BY <1>3, Zenon DEF HandleAppResp
  <2> QED
    BY <1>1, <2>1, <2>2, AfterAckGood
<1>4. ASSUME ~IgnoresAck(n, m), ~m.success
      PROVE  Good(d, h, R, a, HandleAppResp(n, m))
  <2>1. n.state = "Leader" /\ Peers(h, n)
    BY <1>4, GoodLeader DEF IgnoresAck
  <2>2. k \in Nat \ {0} /\ pr \in Progress /\ pr # NoProgress
    BY <1>1, <1>2, <1>4, NodeFields, NextAfterRejectType DEF IgnoresAck
  <2>3. pr.match <= LastIndex(n.log)
    BY <1>1, <1>2, <2>1 DEF Peers, Agree
  <2>4. k <= Len(FullLog(n)) + 1
    BY <1>2, <2>3, NextBounded
  <2> HIDE DEF k
  <2>5. p \in Progress /\ p.next = k /\ p.match = pr.match
    <3> HIDE DEF pr
    <3>1. pr \in [next : Nat \ {0}, match : Nat, recentActive : BOOLEAN, pendingSnap : BOOLEAN]
      BY <2>2 DEF Progress
    <3> QED
      BY <2>2, <3>1 DEF Progress
  <2> HIDE DEF p
  <2>6. r \in [Server -> Progress] /\ \A s \in Server : r[s] = IF s = m.from THEN p ELSE n.prs[s]
    BY <1>2, <2>5
  <2> HIDE DEF r
  <2>7. \A s \in Server :
          /\ r[s].next <= Len(FullLog(n)) + 1
          /\ Agree(h.held[s][n.term], FullLog(n), r[s].match)
    BY <2>1, <2>4, <2>5, <2>6 DEF Peers
  <2>8. HandleAppResp(n, m) =
          SendAppends([n EXCEPT !.prs[m.from].recentActive = TRUE,
                                !.prs[m.from].next = k], {m.from})
    BY <1>4, Zenon DEF HandleAppResp, k
  <2>9. [n EXCEPT !.prs[m.from].recentActive = TRUE, !.prs[m.from].next = k] = b
    BY <1>1, <1>2 DEF p, r, pr, Node
  <2>10. Good(d, h, R, a, b) /\ b.state = "Leader"
    BY <2>1, <2>6, <2>7, PeersGood
  <2> HIDE DEF b
  <2>11. Good(d, h, R, a, SendAppends(b, {m.from}))
    BY <1>1, <2>10, SendAppendsGood
  <2> QED
    BY <2>8, <2>9, <2>11, Zenon
<1>5. ASSUME IgnoresAck(n, m) PROVE HandleAppResp(n, m) = n
  BY <1>5, Zenon DEF HandleAppResp
<1> QED
  BY <1>3, <1>4, <1>5

LEMMA HandleSnapRespGood ==
  ASSUME NEW d, NEW h, NEW R, NEW a, NEW n, Good(d, h, R, a, n), NEW m \in SnapResp,
         Truthful(h, R, m)
  PROVE  Good(d, h, R, a, HandleSnapResp(n, m))
<1>1. m.from \in Server /\ m.matchIndex \in Nat /\ m.type = "SnapResp"
  BY DEF SnapResp
<1>2. CASE IgnoresAck(n, m)
  BY <1>2, Zenon DEF HandleSnapResp
<1>3. CASE ~IgnoresAck(n, m)
  <2>1. n.state = "Leader" /\ Holds(h, m.from, n.term, m.matchIndex)
    BY <1>1, <1>3 DEF IgnoresAck, Truthful
  <2>2. HandleSnapResp(n, m) = AfterAck(n, m.from, m.matchIndex, FALSE)
    BY <1>3, Zenon DEF HandleSnapResp
  <2> QED
    BY <1>1, <2>1, <2>2, AfterAckGood
<1> QED
  BY <1>2, <1>3

LEMMA TransferLeadershipGood ==
  ASSUME NEW d, NEW h, NEW R, NEW a, NEW n, Good(d, h, R, a, n), NEW target \in Server
  PROVE  Good(d, h, R, a, TransferLeadership(n, target))
<1> DEFINE t == [n EXCEPT !.transferee = target]
<1>1. \/ TransferLeadership(n, target) = n
      \/ TransferLeadership(n, target) = SendTimeoutNow(t, target)
      \/ n.state = "Leader" /\ TransferLeadership(n, target) = SendAppends(t, {target})
  BY Zenon DEF TransferLeadership
<1>2. Good(d, h, R, a, t) /\ t.state = n.state
  BY PlanGood DEF OptServer
<1> HIDE DEF t
<1> QED
  BY <1>1, <1>2, SendTimeoutNowGood, SendAppendsGood

\* The counters of a leader.
LEMMA TickLeaderGood ==
  ASSUME NEW d, NEW h, NEW R, NEW a, NEW n, Good(d, h, R, a, n), n.state = "Leader",
         NEW transferDue \in BOOLEAN, NEW quorumDue \in BOOLEAN, NEW heartbeatDue \in BOOLEAN
  PROVE  Good(d, h, R, a, TickLeader(n, transferDue, quorumDue, heartbeatDue))
<1> DEFINE t == AfterTransferTick(n, transferDue)
           r == [s \in Server |->
                   IF s \in ReplicationTargets(t) /\ t.prs[s] # NoProgress
                   THEN NewPeriod(t.prs[s]) ELSE t.prs[s]]
           b == IF quorumDue THEN [t EXCEPT !.prs = r] ELSE t
           f == BecomeFollower(t, t.term, None)
<1>1. TickLeader(n, transferDue, quorumDue, heartbeatDue) \in {f, BroadcastAppend(b), b}
  BY Zenon DEF TickLeader
<1>2. Good(d, h, R, a, t) /\ t.state = "Leader"
  <2>1. None \in OptServer
    BY DEF OptServer
  <2>2. Good(d, h, R, a, [n EXCEPT !.transferee = None])
        /\ [n EXCEPT !.transferee = None].state = n.state
    BY <2>1, PlanGood
  <2> QED
    BY <2>2, Zenon DEF AfterTransferTick
<1> HIDE DEF t
<1>3. t \in Node /\ t.prs \in [Server -> Progress] /\ Peers(h, t) /\ t.term \in Nat
  BY <1>2, GoodFacts, GoodBounds, GoodLeader
<1>4. r \in [Server -> Progress]
      /\ \A s \in Server : r[s].next = t.prs[s].next /\ r[s].match = t.prs[s].match
  <2>1. \A s \in Server : t.prs[s] \in Progress
    BY <1>3
  <2>2. ASSUME NEW s \in Server, t.prs[s] # NoProgress
        PROVE  /\ NewPeriod(t.prs[s]) \in Progress
               /\ NewPeriod(t.prs[s]).next = t.prs[s].next
               /\ NewPeriod(t.prs[s]).match = t.prs[s].match
    <3>1. t.prs[s] \in [next : Nat \ {0}, match : Nat, recentActive : BOOLEAN,
                        pendingSnap : BOOLEAN]
      BY <2>1, <2>2 DEF Progress
    <3> QED
      BY <3>1 DEF NewPeriod, Progress
  <2> QED
    BY <2>1, <2>2
<1> HIDE DEF r
<1>5. Good(d, h, R, a, [t EXCEPT !.prs = r]) /\ [t EXCEPT !.prs = r].state = "Leader"
  BY <1>2, <1>3, <1>4, PeersGood DEF Peers
<1>6. Good(d, h, R, a, b) /\ b.state = "Leader"
  BY <1>2, <1>5, Zenon
<1> HIDE DEF b
<1>7. Good(d, h, R, a, BroadcastAppend(b))
  BY <1>6, BroadcastGood
<1>8. Good(d, h, R, a, f)
  BY <1>2, <1>3, StepDownGood DEF OptServer
<1> HIDE DEF f
<1> QED
  BY <1>1, <1>6, <1>7, <1>8

LEMMA HandleTimeoutNowMoves ==
  ASSUME NEW d, NEW h, NEW R, NEW a, NEW n, Good(d, h, R, a, n), NEW m
  PROVE  Moved(d, h, R, a, n.id, HandleTimeoutNow(n, m))
<1>1. Moved(d, h, R, a, n.id, Campaign(n, FALSE, TRUE))
  BY CampaignMoves
<1> QED
  BY <1>1, GoodMoved, Zenon DEF HandleTimeoutNow

LEMMA StaleReplyGood ==
  ASSUME NEW d, NEW h, NEW R, NEW a, NEW n, Good(d, h, R, a, n), NEW m \in Message
  PROVE  Good(d, h, R, a, StaleReply(n, m))
<1>1. CASE m.type \in {"App", "Snap"}
  <2>1. LastIndex(n.log) + 1 \in Nat /\ 0 \in Nat /\ FALSE \in BOOLEAN
    BY GoodBounds, IndexType
  <2>2. StaleReply(n, m) = AppReply(n, m, FALSE, 0, LastIndex(n.log) + 1, 0)
    BY <1>1 DEF StaleReply
  <2> QED
    BY <2>1, <2>2, NothingAgreed, AppReplyGood
<1>2. CASE m.type = "Vote"
  <2>1. m.preVote \in BOOLEAN /\ n.term \in Nat
    BY <1>2, MessageOfType, GoodBounds DEF VoteReq
  <2>2. StaleReply(n, m) = Send(n, VoteReply(n, m, n.term, m.preVote, FALSE))
    BY <1>2 DEF StaleReply
  <2> QED
    BY <2>1, <2>2, RefusalGood
<1>3. CASE m.type \notin {"App", "Snap", "Vote"}
  <2>1. StaleReply(n, m) = n
    BY <1>3 DEF StaleReply
  <2> QED
    BY <2>1
<1> QED
  BY <1>1, <1>2, <1>3

-----------------------------------------------------------------------------
(* Snapshots *)
\* Compacting a log into a snapshot that agrees with it changes no entry.
LEMMA CompactLog ==
  ASSUME NEW n \in Node, Shape(n), Covers(n.snapshot), NEW s \in Snapshot, Covers(s),
         n.log.snapIndex < s.index, Agree(s.data, FullLog(n), s.index)
  PROVE  s.data \o Compact(n.log, s.index, s.term).entries = FullLog(n)
<1> DEFINE L == FullLog(n)
           e == n.log.entries
           base == n.log.snapIndex
           i == s.index
           o == s.data
           x == SubSeq(L, i + 1, Len(L))
           y == SubSeq(e, i - base + 1, Len(e))
<1>1. /\ L \in Seq(Entry) /\ Len(L) \in Nat /\ Len(L) = base + Len(e)
      /\ \A j \in 1 .. Len(e) : L[base + j] = e[j]
  BY LogOf DEF LastIndex
<1>2. base \in Nat /\ e \in Seq(Entry) /\ Len(e) \in Nat /\ i \in Nat /\ o \in Seq(Entry)
      /\ Len(o) = i /\ base < i
  BY NodeFields, LogFields, SnapshotFields, LenProperties DEF Covers
<1>3. i <= Len(L) /\ \A k \in 1 .. i : o[k] = L[k]
  BY DEF Agree
<1>4. Compact(n.log, i, s.term).entries = y
  <2>1. ~(i <= base)
    BY <1>2
  <2>2. Compact(n.log, i, s.term) = [snapIndex |-> i, snapTerm |-> s.term, entries |-> y]
    BY <2>1, Zenon DEF Compact
  <2> HIDE DEF y, i
  <2> QED
    BY <2>2
<1> HIDE DEF L, e, base, i, o
<1>5. SubSeq(o, 1, i) = o
  BY <1>2, SubSeqFull
<1>6. SubSeq(o, 1, i) \o x = L
  <2> DEFINE j == i + 1
  <2>1. j \in 1 .. Len(L) + 1 /\ j - 1 = i
    BY <1>1, <1>2, <1>3
  <2>2. j - 1 <= Len(o) /\ \A k \in 1 .. j - 1 : o[k] = L[k]
    BY <1>2, <1>3, <2>1
  <2>3. SubSeq(o, 1, j - 1) \o SubSeq(L, j, Len(L)) = L
    <3> HIDE DEF j
    <3> QED
      BY <1>1, <1>2, <2>1, <2>2, TailReplaced
  <2> QED
    BY <2>1, <2>3
<1>7. x = y
  <2>1. i + 1 \in Nat \ {0} /\ i - base + 1 \in Nat \ {0}
    BY <1>2
  <2>2. /\ x \in Seq(Entry) /\ Len(x) = IF i + 1 <= Len(L) THEN Len(L) - (i + 1) + 1 ELSE 0
        /\ \A k \in 1 .. Len(x) : x[k] = L[(i + 1) + k - 1]
    <3> DEFINE lo == i + 1
    <3> HIDE DEF lo
    <3>1. /\ SubSeq(L, lo, Len(L)) \in Seq(Entry)
          /\ Len(SubSeq(L, lo, Len(L))) = IF lo <= Len(L) THEN Len(L) - lo + 1 ELSE 0
          /\ \A k \in 1 .. Len(SubSeq(L, lo, Len(L))) : SubSeq(L, lo, Len(L))[k] = L[lo + k - 1]
      <4>1. lo \in Nat \ {0} /\ Len(L) \in Int /\ Len(L) <= Len(L)
        BY <1>1, <2>1 DEF lo
      <4> QED
        BY <1>1, <4>1, PartFields
    <3> QED
      BY <3>1 DEF lo
  <2>3. /\ y \in Seq(Entry) /\ Len(y) = IF i - base + 1 <= Len(e) THEN Len(e) - (i - base + 1) + 1 ELSE 0
        /\ \A k \in 1 .. Len(y) : y[k] = e[(i - base + 1) + k - 1]
    <3> DEFINE lo == i - base + 1
    <3> HIDE DEF lo
    <3>1. /\ SubSeq(e, lo, Len(e)) \in Seq(Entry)
          /\ Len(SubSeq(e, lo, Len(e))) = IF lo <= Len(e) THEN Len(e) - lo + 1 ELSE 0
          /\ \A k \in 1 .. Len(SubSeq(e, lo, Len(e))) : SubSeq(e, lo, Len(e))[k] = e[lo + k - 1]
      <4>1. lo \in Nat \ {0} /\ Len(e) \in Int /\ Len(e) <= Len(e)
        BY <1>2, <2>1 DEF lo
      <4> QED
        BY <1>2, <4>1, PartFields
    <3> QED
      BY <3>1 DEF lo
  <2> HIDE DEF x, y
  <2>4. Len(x) = Len(y) /\ Len(x) = Len(e) + base - i
    <3> DEFINE u == Len(e)
               w == Len(L)
    <3>1. /\ u \in Nat /\ w \in Nat /\ w = base + u /\ base \in Nat /\ i \in Nat
          /\ base < i /\ i <= w
      BY <1>1, <1>2, <1>3
    <3>2. Len(x) = IF i + 1 <= w THEN w - (i + 1) + 1 ELSE 0
      BY <2>2
    <3>3. Len(y) = IF i - base + 1 <= u THEN u - (i - base + 1) + 1 ELSE 0
      BY <2>3
    <3> HIDE DEF u, w
    <3>4. Len(x) = u + base - i /\ Len(y) = u + base - i
      BY <3>1, <3>2, <3>3
    <3> QED
      BY <3>4 DEF u
  <2>5. \A k \in 1 .. Len(x) : x[k] = y[k]
    <3> SUFFICES ASSUME NEW k \in 1 .. Len(x)
                 PROVE  x[k] = y[k]
      OBVIOUS
    <3> DEFINE j == i - base + k
    <3>1. k \in 1 .. Len(y) /\ j \in 1 .. Len(e) /\ base + j = i + k
          /\ (i + 1) + k - 1 = i + k /\ (i - base + 1) + k - 1 = j
      BY <1>1, <1>2, <1>3, <2>4
    <3> HIDE DEF j
    <3>2. x[k] = L[i + k] /\ y[k] = e[j]
      BY <2>2, <2>3, <3>1
    <3>3. L[base + j] = e[j]
      BY <1>1, <3>1
    <3> QED
      BY <3>1, <3>2, <3>3
  <2> QED
    BY <2>2, <2>3, <2>4, <2>5, SeqEqual
<1> QED
  BY <1>4, <1>5, <1>6, <1>7 DEF L, o, i

\* A node whose log has been compacted into a snapshot of committed entries.
LEMMA CompactedFinal ==
  ASSUME NEW d, NEW h, NEW R, NEW a, NEW n, Good(d, h, R, a, n),
         NEW q, Ready(d, q), InitialOnly(q), Covers(q.snapshot), Vouched(R, q.snapshot),
         FullLog(q) = FullLog(n), q.snapDirty = "keep",
         n.log.snapIndex <= q.snapshot.index,
         q.id = n.id, q.term = n.term, q.votedFor = n.votedFor, q.state = n.state,
         q.votes = n.votes, q.prs = n.prs, q.commitIndex = n.commitIndex,
         q.lastApplied = n.lastApplied, q.applied = n.applied, ~q.panic,
         q.out = n.out
  PROVE  Final(d, h, R, a, q)
<1>1. n.snapDirty = "none" /\ Core(h, R, a, n) /\ Role(h, n)
  BY GoodFacts DEF Good
<1>2. AppAfter(a, q) = AppAfter(a, n)
  BY <1>1 DEF AppAfter
<1>3. Core(h, R, a, q)
  BY <1>1, <1>2 DEF Core
<1>4. Role(h, q)
  BY <1>1 DEF Role, Stands, Peers
<1>5. Advanced(d, q)
  BY TracksAdvanced DEF Good, Advanced
<1> QED
  BY <1>3, <1>4, <1>5 DEF Final, Good

\* The answer to a snapshot claims what is in common with the leader.
LEMMA SnapReplyFinal ==
  ASSUME NEW d, NEW h, NEW R, NEW a, NEW n, Final(d, h, R, a, n), NEW m \in Message,
         NEW match \in Nat, Agree(FullLog(n), h.led[n.term], match)
  PROVE  Final(d, h, R, a, SnapReply(n, m, match))
<1> DEFINE r == [type |-> "SnapResp", from |-> n.id, to |-> m.from, term |-> n.term,
                 matchIndex |-> match]
<1>1. SnapReply(n, m, match) = Send(n, {r})
  BY Zenon DEF SnapReply
<1>2. Ready(d, Send(n, {r}))
  BY <1>1, SnapReplyReady DEF Final
<1>3. h.held[n.id][n.term] = FullLog(n)
  BY DEF Final, Core, Mine
<1>4. Truthful(h, R, r)
  <2>1. /\ r.type = "SnapResp" /\ r.from = n.id /\ r.term = n.term /\ r.matchIndex = match
    OBVIOUS
  <2> HIDE DEF r
  <2> QED
    BY <1>3, <2>1 DEF Truthful, Holds, Granted
<1> HIDE DEF r
<1> QED
  BY <1>1, <1>2, <1>4, SendFinal

LEMMA GoodFinal ==
  ASSUME NEW d, NEW h, NEW R, NEW a, NEW n, Good(d, h, R, a, n)
  PROVE  Final(d, h, R, a, n)
BY TracksReady, TracksAdvanced DEF Good, Final, Static

\* A snapshot of what the application has applied.
LEMMA CreateSnapshotFinal ==
  ASSUME SnapshotThreshold # 0,
         NEW d, NEW h, NEW R, NEW a, NEW n, Good(d, h, R, a, n),
         n.appendedFrom = 0, n.applied = <<>>, \A k \in 1 .. Len(a) : a[k] \in R
  PROVE  Final(d, h, R, a, CreateSnapshot(n, n.lastApplied, a))
<1> DEFINE index == n.lastApplied
           t == TermAt(n.log, index)
           l == Compact(n.log, index, t)
           c == PruneConfHistory(n.confHistory, index)
           s == [index |-> index, term |-> t,
                 config |-> ConfigAt(n.confHistory, index), data |-> a]
           x == n.panic \/ index > n.lastApplied \/ ~HasTerm(n.log, index)
           q == [n EXCEPT !.log = l, !.snapshot = s, !.confHistory = c,
                          !.snapDirty = "keep", !.panic = x]
           L == FullLog(n)
<1>1. /\ n \in Node /\ Static(n) /\ Tracks(d, n) /\ Shape(n) /\ Covers(n.snapshot)
      /\ L \in Seq(Entry) /\ Len(L) \in Nat /\ Len(L) = LastIndex(n.log)
      /\ n.snapDirty = "none" /\ a \in Seq(Entry) /\ Core(h, R, a, n)
  BY GoodFacts DEF Good
<1>2. /\ index \in Nat /\ index = n.commitIndex /\ index <= Len(L)
      /\ n.log.snapIndex \in Nat /\ n.log.snapIndex <= index /\ n.log \in Log
  BY GoodBounds
<1>3. CreateSnapshot(n, index, a) = IF index <= n.log.snapIndex THEN n ELSE q
  BY Zenon DEF CreateSnapshot
<1>4. CASE index <= n.log.snapIndex
  BY <1>3, <1>4, GoodFinal
<1>5. CASE ~(index <= n.log.snapIndex)
  <2>1. Ready(d, CreateSnapshot(n, index, a))
    BY <1>1, <1>2, CreateSnapshotReady
  <2>2. Steady(n, CreateSnapshot(n, index, a))
    BY <1>1, <1>2, CreateSnapshotSteady
  <2>3. Ready(d, q) /\ InitialOnly(q)
    <3>1. CreateSnapshot(n, index, a) = q
      BY <1>3, <1>5
    <3> HIDE DEF q, index
    <3> QED
      BY <2>1, <2>2, <3>1 DEF Steady, Static
  <2>4. a = SubSeq(L, 1, index)
    <3>1. a \o n.applied = a
      BY <1>1, ConcatEmptySeq
    <3> QED
      BY <1>1, <1>2, <3>1 DEF Core, AppAfter
  <2>5. Len(a) = index /\ \A k \in 1 .. index : a[k] = L[k]
    <3> HIDE DEF index, L
    <3>1. index \in Int /\ 1 \in Nat \ {0}
      BY <1>2
    <3>2. /\ Len(SubSeq(L, 1, index)) = IF 1 <= index THEN index - 1 + 1 ELSE 0
          /\ \A k \in 1 .. Len(SubSeq(L, 1, index)) : SubSeq(L, 1, index)[k] = L[1 + k - 1]
      BY <1>1, <1>2, <3>1, PartFields
    <3> DEFINE y == SubSeq(L, 1, index)
    <3>3. Len(y) = index
      BY <1>2, <3>2
    <3>4. \A k \in 1 .. index : y[k] = L[k]
      BY <1>2, <3>2, <3>3
    <3> QED
      BY <2>4, <3>3, <3>4
  <2>6. HasTerm(n.log, index) /\ t = TermOf(L, index)
    <3>1. HasTerm(n.log, index)
      BY <1>1, <1>2 DEF HasTerm
    <3> QED
      BY <1>1, <1>2, <3>1, TermOfLog
  <2>7. Agree(a, L, index)
    BY <1>2, <2>5 DEF Agree
  <2>8. s.index = index /\ s.term = t /\ s.data = a
    OBVIOUS
  <2>9. TermOf(a, index) = TermOf(L, index)
    BY <1>2, <2>5 DEF TermOf
  <2>10. ~x
    BY <1>1, <1>2, <2>6 DEF Core
  <2> HIDE DEF s, x, c, t, L, index
  <2>11. Covers(s) /\ Vouched(R, s)
    BY <2>5, <2>6, <2>8, <2>9 DEF Covers, Vouched
  <2>12. /\ q.log = l /\ q.snapshot = s /\ q.snapDirty = "keep" /\ ~q.panic
         /\ q.id = n.id /\ q.term = n.term /\ q.votedFor = n.votedFor /\ q.state = n.state
         /\ q.votes = n.votes /\ q.prs = n.prs /\ q.commitIndex = n.commitIndex
         /\ q.lastApplied = n.lastApplied /\ q.applied = n.applied /\ q.out = n.out
    BY <1>1, <2>10 DEF Node
  <2> HIDE DEF l, q
  <2>13. s \in Snapshot
    <3>1. q \in Node
      BY <2>3 DEF Ready
    <3> QED
      BY <2>12, <3>1, NodeFields
  <2>14. s.data \o Compact(n.log, s.index, s.term).entries = L
    <3>1. n \in Node /\ Shape(n) /\ Covers(n.snapshot) /\ s \in Snapshot /\ Covers(s)
      BY <1>1, <2>11, <2>13
    <3>2. n.log.snapIndex < s.index
      BY <1>2, <1>5, <2>8
    <3>3. Agree(s.data, FullLog(n), s.index)
      BY <2>7, <2>8 DEF L
    <3> QED
      BY <3>1, <3>2, <3>3, CompactLog DEF L
  <2>15. FullLog(q) = L
    BY <2>8, <2>12, <2>14 DEF FullLog, l
  <2>16. Final(d, h, R, a, q)
    <3>1. n.log.snapIndex <= q.snapshot.index
      BY <1>2, <2>8, <2>12
    <3> QED
      BY <2>3, <2>11, <2>12, <2>15, <3>1, CompactedFinal DEF L
  <2> QED
    BY <1>3, <1>5, <2>16 DEF index
<1> QED
  BY <1>4, <1>5

\* What has come of a snapshot of the leader of n's term: q agrees with the
\* leader up to k.
Installed(d, h, R, a, n, q, k) ==
  \E g : /\ g \in History /\ Grows(h, g, n.id) /\ Final(d, g, R, a, q)
         /\ Agree(FullLog(q), g.led[n.term], k) /\ q.id = n.id /\ q.term = n.term
\* The snapshot s is one of the leader of n's term, beyond what n has committed.
Usable(h, R, n, s) ==
  /\ s \in Snapshot /\ OfInitial(s) /\ Covers(s) /\ Vouched(R, s) /\ n.commitIndex < s.index
  /\ h.owner[n.term] # None /\ Agree(s.data, h.led[n.term], s.index)
  /\ Sealed(h, h.led[n.term], s.index, n.term)

LEMMA InstallKeepingSuffixEnds ==
  ASSUME SnapshotThreshold # 0,
         NEW d, NEW h, NEW R, NEW a, NEW n, Good(d, h, R, a, n), n.appendedFrom = 0,
         NEW s, Usable(h, R, n, s), SameAt(n.log, s.index, s.term)
  PROVE  Installed(d, h, R, a, n, InstallKeepingSuffix(n, s), s.index)
<1> DEFINE L == FullLog(n)
           c == h.led[n.term]
           i == s.index
           b == ApplyCommitted([n EXCEPT !.commitIndex = i])
           l == Compact(b.log, i, s.term)
           p == PruneConfHistory(b.confHistory, i)
           q == [b EXCEPT !.log = l, !.snapshot = s, !.confHistory = p,
                          !.snapDirty = "keep"]
<1>1. /\ n \in Node /\ Static(n) /\ Tracks(d, n) /\ Shape(n) /\ Covers(n.snapshot)
      /\ L \in Seq(Entry) /\ h \in History /\ HistoryInv(h)
  BY GoodFacts
<1>2. /\ n.term \in Nat /\ n.commitIndex \in Nat /\ n.log.snapIndex <= n.commitIndex
      /\ n.log.snapIndex \in Nat /\ n.id \in Server
  BY GoodBounds
<1>3. /\ i \in Nat \ {0} /\ s \in Snapshot /\ s.data \in Seq(Entry) /\ n.commitIndex < i
      /\ n.log.snapIndex < i
  BY <1>2, SnapshotFields DEF Usable
<1>4. c \in Seq(Entry) /\ Len(c) \in Nat
  BY <1>1, <1>2, HistoryFields, LenProperties
<1>5. Agree(s.data, c, i) /\ Sealed(h, c, i, n.term) /\ OfInitial(s) /\ Covers(s)
      /\ Vouched(R, s)
  BY DEF Usable
<1>6. i <= Len(c) /\ c[i].term = s.term
  <2>1. i <= Len(c) /\ i \in 1 .. i /\ s.data[i] = c[i]
    BY <1>3, <1>5 DEF Agree
  <2> QED
    BY <1>3, <1>5, <2>1 DEF Covers, TermOf
<1> HIDE DEF i, c
<1>7. Agree(L, c, i)
  <2>1. SameAt(n.log, i, c[i].term)
    BY <1>6 DEF i
  <2> QED
    BY <1>3, <1>6, <2>1, SameAtAgrees DEF c
<1> HIDE DEF L
<1>8. Agree(s.data, L, i)
  BY <1>1, <1>3, <1>4, <1>5, <1>7, AgreeFacts
<1>9. Sealed(h, L, i, n.term)
  BY <1>1, <1>2, <1>3, <1>4, <1>5, <1>7, SealedPart
<1>10. /\ Good(d, h, R, a, b) /\ b.state = n.state /\ b.commitIndex = i /\ b.log = n.log
       /\ b.snapshot = n.snapshot /\ b.id = n.id /\ b.term = n.term
  <2>1. i \in Nat /\ n.commitIndex <= i
    BY <1>2, <1>3
  <2> QED
    BY <1>9, <2>1, CommitGood DEF L
<1>11. InstallKeepingSuffix(n, s) = q
  BY Zenon DEF InstallKeepingSuffix, i
<1>12. Ready(d, InstallKeepingSuffix(n, s)) /\ InitialOnly(InstallKeepingSuffix(n, s))
  BY <1>1, <1>3, <1>5, InstallKeepingSuffixReady, InstallKeepingSuffixSteady
     DEF Steady, Static, i
<1>13. b \in Node /\ ~b.panic
  BY <1>10, GoodFacts DEF Good, Core
<1> HIDE DEF b, p
<1>14. /\ q.log = l /\ q.snapshot = s /\ q.snapDirty = "keep" /\ q.panic = b.panic
       /\ q.id = b.id /\ q.term = b.term /\ q.votedFor = b.votedFor /\ q.state = b.state
       /\ q.votes = b.votes /\ q.prs = b.prs /\ q.commitIndex = b.commitIndex
       /\ q.lastApplied = b.lastApplied /\ q.applied = b.applied /\ q.out = b.out
  BY <1>13 DEF Node
<1> HIDE DEF q
<1>15. s.data \o Compact(n.log, i, s.term).entries = L
  BY <1>1, <1>3, <1>5, <1>8, CompactLog DEF L, i
<1>16. FullLog(q) = L /\ FullLog(b) = L
  BY <1>10, <1>14, <1>15 DEF FullLog, L
<1>17. Final(d, h, R, a, q)
  <2>1. b.log.snapIndex <= q.snapshot.index
    BY <1>2, <1>3, <1>10, <1>14 DEF i
  <2> QED
    BY <1>5, <1>10, <1>11, <1>12, <1>13, <1>14, <1>16, <2>1, CompactedFinal
<1>18. Grows(h, h, n.id)
  BY <1>1, GrowsSelf
<1> QED
  BY <1>1, <1>7, <1>10, <1>11, <1>14, <1>16, <1>17, <1>18 DEF Installed, c, i

LEMMA InstallReplacingEnds ==
  ASSUME SnapshotThreshold # 0,
         NEW d, NEW h, NEW R, NEW a, NEW n, Good(d, h, R, a, n), n.appendedFrom = 0,
         n.applied = <<>>, n.state = "Follower",
         NEW s, Usable(h, R, n, s), ~SameAt(n.log, s.index, s.term)
  PROVE  Installed(d, h, R, a, n, InstallReplacing(n, s), s.index)
<1> DEFINE L == FullLog(n)
           c == h.led[n.term]
           i == s.index
           o == s.data
           l == ResetLog(i, s.term)
           p == InitConfHistory(i, s.config)
           q == [n EXCEPT !.log = l, !.commitIndex = i, !.lastApplied = i, !.snapshot = s,
                          !.confHistory = p, !.snapDirty = "replace"]
           g == Catch(h, n.id, o)
<1>1. /\ n \in Node /\ Static(n) /\ Tracks(d, n) /\ d \in Durable /\ a \in Seq(Entry)
      /\ L \in Seq(Entry) /\ h \in History /\ HistoryInv(h) /\ Core(h, R, a, n)
      /\ h.term[n.id] = n.term /\ h.vote[n.id][n.term] = n.votedFor /\ Mine(h, n.id) = L
  BY GoodFacts DEF Good
<1>2. /\ n.term \in Nat /\ n.commitIndex \in Nat /\ n.log.snapIndex <= n.commitIndex
      /\ n.log.snapIndex \in Nat /\ n.id \in Server
  BY GoodBounds
<1>3. /\ i \in Nat \ {0} /\ s \in Snapshot /\ o \in Seq(Entry) /\ n.commitIndex < i
      /\ n.log.snapIndex < i
  BY <1>2, SnapshotFields DEF Usable
<1>4. c \in Seq(Entry) /\ Len(c) \in Nat
  BY <1>1, <1>2, HistoryFields, LenProperties
<1>5. /\ Agree(o, c, i) /\ Sealed(h, c, i, n.term) /\ OfInitial(s) /\ Covers(s)
      /\ Vouched(R, s) /\ h.owner[n.term] # None /\ Len(o) = i
  BY DEF Usable, Covers
<1>6. i <= Len(c) /\ c[i].term = s.term
  <2>1. i <= Len(c) /\ i \in 1 .. i /\ o[i] = c[i]
    BY <1>3, <1>5 DEF Agree
  <2> QED
    BY <1>3, <1>5, <2>1 DEF Covers, TermOf
<1>7. s.config = InitialVoters
  <2>1. s # NoSnapshot
    BY <1>3 DEF NoSnapshot
  <2> QED
    BY <1>5, <2>1 DEF OfInitial
<1>8. InstallReplacing(n, s) = q
  BY Zenon DEF InstallReplacing
<1>9. Ready(d, q) /\ InitialOnly(q)
  <2>1. Ready(d, InstallReplacing(n, s)) /\ InitialOnly(InstallReplacing(n, s))
    BY <1>1, <1>3, <1>7, InstallReplacingReady, InstallReplacingSteady DEF Steady, Static
  <2> HIDE DEF q
  <2> QED
    BY <1>8, <2>1
<1> HIDE DEF i, c, o, L
<1>10. MayCatch(h, n.id, o)
  <2>1. \A k \in Nat : Agree(L, c, k) => k <= Len(o)
    <3> SUFFICES ASSUME NEW k \in Nat, Agree(L, c, k), ~(k <= Len(o))
                 PROVE  FALSE
      OBVIOUS
    <3>1. i \in Nat /\ i <= k
      BY <1>3, <1>5
    <3>2. Agree(L, c, i)
      BY <1>1, <1>4, <3>1, AgreeFacts
    <3>3. SameAt(n.log, i, c[i].term)
      BY <1>3, <3>1, <3>2, AgreeSameAt DEF L
    <3> QED
      BY <1>6, <3>3 DEF i
  <2> QED
    BY <1>1, <1>3, <1>5, <2>1 DEF MayCatch, c
<1>11. /\ HistoryInv(g) /\ Grows(h, g, n.id) /\ Mine(g, n.id) = o
  BY <1>1, <1>2, <1>10, CatchKeeps
<1>12. g \in History /\ g.led = h.led /\ g.term = h.term /\ g.vote = h.vote
  BY <1>1, <1>2, <1>3, CatchFields
<1> HIDE DEF g
<1>13. Sealed(g, o, i, n.term)
  <2>1. Sealed(h, o, i, n.term)
    BY <1>1, <1>2, <1>3, <1>4, <1>5, SealedPart
  <2> QED
    BY <1>1, <1>2, <1>3, <1>11, <1>12, <2>1, SealedGrows
<1>14. \A m \in n.out : Truthful(g, R, m)
  <2>1. n.out \subseteq Message
    BY <1>1, NodeFields
  <2> QED
    BY <1>1, <1>2, <1>11, <1>12, <2>1, TruthfulGrows DEF Core
<1> HIDE DEF p
<1>15. /\ q.log = l /\ q.commitIndex = i /\ q.lastApplied = i /\ q.snapshot = s
       /\ q.snapDirty = "replace" /\ q.out = n.out /\ q.id = n.id /\ q.term = n.term
       /\ q.votedFor = n.votedFor /\ q.applied = n.applied /\ q.panic = n.panic
       /\ q.state = n.state
  BY <1>1 DEF Node
<1>16. l.entries = <<>>
  BY DEF ResetLog
<1> HIDE DEF q, l
<1>17. FullLog(q) = o
  BY <1>3, <1>15, <1>16, ConcatEmptySeq DEF FullLog, o
<1>18. AppAfter(a, q) = SubSeq(o, 1, i)
  <2>1. o \o <<>> = o /\ SubSeq(o, 1, Len(o)) = o
    BY <1>3, ConcatEmptySeq, SubSeqFull
  <2>2. AppAfter(a, q) = o \o n.applied
    BY <1>15 DEF AppAfter, o
  <2> QED
    BY <1>5, <2>1, <2>2
<1>19. Len(a) <= i
  <2>1. Len(a) <= n.commitIndex /\ Len(a) \in Nat
    BY <1>1, LenProperties DEF Core
  <2> QED
    BY <1>2, <1>3, <2>1
<1>20. Core(g, R, a, q)
  <2>1. g.term[q.id] = q.term /\ g.vote[q.id][q.term] = q.votedFor /\ Mine(g, q.id) = FullLog(q)
    BY <1>1, <1>11, <1>12, <1>15, <1>17
  <2>2. ~q.panic /\ \A m \in q.out : Truthful(g, R, m)
    BY <1>1, <1>14, <1>15 DEF Core
  <2> QED
    BY <1>5, <1>13, <1>15, <1>17, <1>18, <1>19, <2>1, <2>2 DEF Core
<1>21. Final(d, g, R, a, q)
  <2>1. Advanced(d, q)
    <3>1. d.snap.index = n.log.snapIndex /\ q.snapshot.index = i
      BY <1>1, <1>15, TracksAdvanced DEF i
    <3> QED
      BY <1>2, <1>3, <3>1 DEF Advanced
  <2> QED
    BY <1>1, <1>9, <1>11, <1>15, <1>20, <2>1, RoleNone DEF Final
<1>22. Agree(FullLog(q), g.led[n.term], i)
  BY <1>5, <1>12, <1>17 DEF c
<1> QED
  BY <1>8, <1>11, <1>12, <1>15, <1>21, <1>22 DEF Installed, i

LEMMA HandleSnapEnds ==
  ASSUME NEW d, NEW h, NEW R, NEW a, NEW n, Good(d, h, R, a, n), n.appendedFrom = 0,
         n.applied = <<>>, NEW m \in Snap, m.term = n.term, Truthful(h, R, m),
         Sound(m), Linked(m)
  PROVE  Ended(d, h, R, a, n.id, HandleSnap(n, m))
<1> DEFINE f == FollowerOf(n, m)
           s == m.snapshot
           k == InstallKeepingSuffix(f, s)
           r == InstallReplacing(f, s)
           q == HandleSnap(n, m)
<1>1. m \in Message /\ m.type = "Snap" /\ s \in Snapshot /\ OfInitial(s) /\ s.index \in Nat
  BY SnapshotFields DEF Message, Snap, Sound
<1>2. SnapshotThreshold # 0 /\ TrueSnapshot(h, R, m)
  BY <1>1 DEF Linked, Truthful
<1>3. /\ Good(d, h, R, a, f) /\ Same(n, f) /\ f.state = "Follower" /\ f.appendedFrom = 0
  BY <1>1, FollowerOfGood
<1>4. /\ f.id = n.id /\ f.term = n.term /\ f.applied = <<>>
      /\ f.commitIndex = n.commitIndex
  BY <1>3 DEF Same
<1>5. n.id \in Server /\ n.commitIndex \in Nat /\ h \in History
  BY GoodBounds, GoodFacts
<1> HIDE DEF f, k, r
<1>6. CASE s.index <= f.commitIndex
  <2>1. q = SnapReply(f, m, f.commitIndex)
    BY <1>6, Zenon DEF HandleSnap, f
  <2>2. Agree(FullLog(f), h.led[f.term], f.commitIndex)
    BY <1>2, <1>3, <1>4, <1>5, CommittedAgrees DEF TrueSnapshot
  <2>3. Final(d, h, R, a, SnapReply(f, m, f.commitIndex))
    BY <1>1, <1>3, <1>4, <1>5, <2>2, GoodFinal, SnapReplyFinal
  <2> QED
    BY <1>5, <2>1, <2>3, GrowsSelf DEF Ended
<1>7. ASSUME NEW p, Installed(d, h, R, a, f, p, s.index), q = SnapReply(p, m, s.index)
      PROVE  Ended(d, h, R, a, n.id, q)
  <2>1. PICK g : /\ g \in History /\ Grows(h, g, f.id) /\ Final(d, g, R, a, p)
                 /\ Agree(FullLog(p), g.led[f.term], s.index) /\ p.id = f.id
                 /\ p.term = f.term
    BY <1>7 DEF Installed
  <2>2. Final(d, g, R, a, SnapReply(p, m, s.index))
    BY <1>1, <2>1, SnapReplyFinal
  <2> QED
    BY <1>4, <1>7, <2>1, <2>2 DEF Ended
<1>8. ~(s.index <= f.commitIndex) => Usable(h, R, f, s)
  BY <1>1, <1>2, <1>4, <1>5 DEF Usable, TrueSnapshot
<1>9. CASE ~(s.index <= f.commitIndex) /\ SameAt(f.log, s.index, s.term)
  <2>1. q = SnapReply(k, m, s.index)
    BY <1>9, Zenon DEF HandleSnap, f, k
  <2>2. Installed(d, h, R, a, f, k, s.index)
    BY <1>2, <1>3, <1>8, <1>9, InstallKeepingSuffixEnds DEF k
  <2> QED
    BY <1>7, <2>1, <2>2
<1>10. CASE ~(s.index <= f.commitIndex) /\ ~SameAt(f.log, s.index, s.term)
  <2>1. q = SnapReply(r, m, s.index)
    BY <1>10, Zenon DEF HandleSnap, f, r
  <2>2. Installed(d, h, R, a, f, r, s.index)
    BY <1>2, <1>3, <1>4, <1>8, <1>10, InstallReplacingEnds DEF r
  <2> QED
    BY <1>7, <2>1, <2>2
<1> QED
  BY <1>6, <1>9, <1>10

-----------------------------------------------------------------------------
(* receive *)
\* A message of a newer term makes the node a follower of that term first.
LEMMA AtMessageTermMoves ==
  ASSUME NEW d, NEW h, NEW R, NEW a, NEW n, Good(d, h, R, a, n), NEW m \in Message
  PROVE  LET b == AtMessageTerm(n, m) IN
         /\ Moved(d, h, R, a, n.id, b) /\ b.id = n.id
         /\ b.appendedFrom = n.appendedFrom /\ b.applied = n.applied
         /\ ~(m.term < n.term) => KeepsTerm(m) \/ b.term = m.term
<1> DEFINE b == AtMessageTerm(n, m)
           leader == IF m.type \in {"App", "Snap"} THEN m.from ELSE None
           f == BecomeFollower(n, m.term, leader)
<1>1. m.term \in Nat /\ leader \in OptServer /\ n.term \in Nat
  BY GoodBounds, MessageEnds DEF OptServer
<1>2. b = IF m.term <= n.term \/ KeepsTerm(m) THEN n ELSE f
  BY Zenon DEF AtMessageTerm
<1> HIDE DEF b, leader
<1>3. CASE m.term <= n.term \/ KeepsTerm(m)
  <2>1. b = n
    BY <1>2, <1>3
  <2>2. ~(m.term < n.term) => KeepsTerm(m) \/ n.term = m.term
    BY <1>1, <1>3
  <2> QED
    BY <2>1, <2>2, GoodMoved DEF b
<1>4. CASE ~(m.term <= n.term \/ KeepsTerm(m))
  <2>1. b = f
    BY <1>2, <1>4
  <2>2. /\ Moved(d, h, R, a, n.id, f) /\ f.id = n.id /\ f.appendedFrom = n.appendedFrom
        /\ f.applied = n.applied /\ f.term = IF m.term > n.term THEN m.term ELSE n.term
    BY <1>1, BecomeFollowerMoves
  <2>3. m.term > n.term
    BY <1>1, <1>4
  <2> HIDE DEF f
  <2> QED
    BY <2>1, <2>2, <2>3 DEF b
<1> QED
  BY <1>3, <1>4

\* Whatever message a node receives, the history has room for what it does.
LEMMA ReceiveEnds ==
  ASSUME NEW d, NEW h, NEW R, NEW a, NEW n, Good(d, h, R, a, n), n.appendedFrom = 0,
         n.applied = <<>>, NEW m \in Message, m.to = n.id, Truthful(h, R, m),
         Sound(m), Linked(m), NEW fresh \in BOOLEAN
  PROVE  Ended(d, h, R, a, n.id, Receive(n, m, fresh))
<1> DEFINE b == AtMessageTerm(n, m)
           i == n.id
           q == Receive(n, m, fresh)
           S == Send(n, VoteReply(n, m, n.term, FALSE, FALSE))
<1>1. n.id \in Server /\ n.term \in Nat /\ h \in History
  BY GoodBounds, GoodFacts
<1>2. CASE m.term < n.term
  <2>1. Good(d, h, R, a, StaleReply(n, m))
    BY StaleReplyGood
  <2> QED
    BY <1>2, <2>1, GoodMoved, MovedEnds DEF Receive
<1>3. CASE ~(m.term < n.term) /\ StickyVote(n, m, fresh)
  <2>1. Good(d, h, R, a, S)
    BY <1>1, RefusalGood
  <2> QED
    BY <1>3, <2>1, GoodMoved, MovedEnds DEF Receive
<1>4. CASE ~(m.term < n.term) /\ ~StickyVote(n, m, fresh)
  <2>1. q = CASE m.type = "Vote"       -> HandleVote(b, m, fresh)
              [] m.type = "VoteResp"   -> HandleVoteResp(b, m)
              [] m.type = "App"        -> HandleApp(b, m)
              [] m.type = "AppResp"    -> HandleAppResp(b, m)
              [] m.type = "Snap"       -> HandleSnap(b, m)
              [] m.type = "SnapResp"   -> HandleSnapResp(b, m)
              [] m.type = "TimeoutNow" -> HandleTimeoutNow(b, m)
    BY <1>4, Zenon DEF Receive, b
  <2>2. /\ Moved(d, h, R, a, i, b) /\ b.id = i /\ b.appendedFrom = 0 /\ b.applied = <<>>
        /\ KeepsTerm(m) \/ b.term = m.term
    BY <1>4, AtMessageTermMoves
  <2> HIDE DEF b, q, i
  <2>3. PICK g : g \in History /\ Grows(h, g, i) /\ Good(d, g, R, a, b)
    BY <2>2 DEF Moved
  <2>4. Truthful(g, R, m)
    BY <1>1, <2>3, TruthfulGrows DEF i
  <2>5. ASSUME m.type = "Vote" PROVE Ended(d, g, R, a, i, HandleVote(b, m, fresh))
    <3>1. m \in VoteReq /\ (~m.preVote => m.term = b.term)
      BY <2>2, <2>5, MessageOfType DEF KeepsTerm
    <3> QED
      BY <2>2, <2>3, <2>4, <3>1, HandleVoteEnds
  <2>6. ASSUME m.type = "VoteResp" PROVE Ended(d, g, R, a, i, HandleVoteResp(b, m))
    <3>1. m \in VoteResp /\ m.to = b.id
      BY <2>2, <2>6, MessageOfType DEF i
    <3> QED
      BY <2>2, <2>3, <2>4, <3>1, HandleVoteRespMoves, MovedEnds
  <2>7. ASSUME m.type = "App" PROVE Ended(d, g, R, a, i, HandleApp(b, m))
    <3>1. m \in App /\ m.term = b.term
      BY <2>2, <2>7, MessageOfType DEF KeepsTerm
    <3> QED
      BY <2>2, <2>3, <2>4, <3>1, HandleAppMoves, MovedEnds
  <2>8. ASSUME m.type = "AppResp" PROVE Ended(d, g, R, a, i, HandleAppResp(b, m))
    <3>1. m \in AppResp
      BY <2>8, MessageOfType
    <3> QED
      BY <2>3, <2>4, <3>1, HandleAppRespGood, GoodMoved, MovedEnds
  <2>9. ASSUME m.type = "Snap" PROVE Ended(d, g, R, a, i, HandleSnap(b, m))
    <3>1. m \in Snap /\ m.term = b.term
      BY <2>2, <2>9, MessageOfType DEF KeepsTerm
    <3> QED
      BY <2>2, <2>3, <2>4, <3>1, HandleSnapEnds
  <2>10. ASSUME m.type = "SnapResp" PROVE Ended(d, g, R, a, i, HandleSnapResp(b, m))
    <3>1. m \in SnapResp
      BY <2>10, MessageOfType
    <3> QED
      BY <2>3, <2>4, <3>1, HandleSnapRespGood, GoodMoved, MovedEnds
  <2>11. ASSUME m.type = "TimeoutNow" PROVE Ended(d, g, R, a, i, HandleTimeoutNow(b, m))
    BY <2>2, <2>3, HandleTimeoutNowMoves, MovedEnds
  <2>12. Ended(d, g, R, a, i, q)
    BY <2>1, <2>5, <2>6, <2>7, <2>8, <2>9, <2>10, <2>11, MessageOfType
  <2> QED
    BY <1>1, <2>3, <2>12, EndedLater DEF q, i
<1> QED
  BY <1>2, <1>3, <1>4

-----------------------------------------------------------------------------
(* The cluster and its history *)

\* The entries seen committed.
Vouchers == {c.entry : c \in committed}

\* The store d of server i shows what the history says of i now.
StoreTrue(h, R, i, d) ==
  LET a == d.snap.data \o d.entries
  IN  /\ h.term[i] = d.term /\ h.vote[i][d.term] = d.votedFor /\ Mine(h, i) = a
      /\ Covers(d.snap) /\ Vouched(R, d.snap) /\ Sealed(h, a, d.snap.index, d.term)

\* A live node between two steps, its store d and its application a.
Resting(d, h, R, a, n) ==
  /\ Good(d, h, R, a, n) /\ n.appendedFrom = 0 /\ n.applied = <<>> /\ n.out = {}
  /\ \A k \in 1 .. Len(a) : a[k] \in R

\* The entry of c was committed by the term c names.
CommitTrue(h, c) ==
  /\ c.entry.index # 0
  /\ \E b \in Seq(Entry) :
       Sealed(h, b, c.entry.index, c.termUB) /\ b[c.entry.index] = c.entry

Tells(h) ==
  /\ HistoryInv(h)
  /\ \A i \in Server : StoreTrue(h, Vouchers, i, durable[i])
  /\ \A i \in up : Resting(durable[i], h, Vouchers, app[i], node[i])
  /\ \A m \in net : Truthful(h, Vouchers, m)
  /\ \A c \in committed : CommitTrue(h, c)

RecordsOnce == \A c, d \in committed : c.entry = d.entry => c = d

DownEmpty == \A i \in Server \ up : app[i] = <<>> /\ ~node[i].panic

\* There is a history that the cluster tells the truth of.
Told == RecordsOnce /\ DownEmpty /\ \E h : Tells(h)

SafetyInv == ElectionInv /\ DurabilityInv /\ Told

LEMMA VouchedMore ==
  ASSUME NEW R, NEW S, R \subseteq S, NEW s, Vouched(R, s)
  PROVE  Vouched(S, s)
BY DEF Vouched

\* More entries have been seen committed.
LEMMA GoodMore ==
  ASSUME NEW d, NEW h, NEW R, NEW a, NEW n, Good(d, h, R, a, n), NEW S, R \subseteq S
  PROVE  Good(d, h, S, a, n)
<1>1. n \in Node /\ n.out \subseteq Message /\ h \in History /\ n.id \in Server
  BY GoodFacts, NodeFields
<1>2. Grows(h, h, n.id)
  BY <1>1, GrowsSelf
<1>3. \A m \in n.out : Truthful(h, S, m)
  BY <1>1, <1>2, TruthfulGrows DEF Good, Core
<1>4. Vouched(S, n.snapshot)
  BY VouchedMore DEF Good, Core
<1> QED
  BY <1>3, <1>4 DEF Good, Core

LEMMA FinalMore ==
  ASSUME NEW d, NEW h, NEW R, NEW a, NEW n, Final(d, h, R, a, n), NEW S, R \subseteq S
  PROVE  Final(d, h, S, a, n)
<1>1. n \in Node /\ n.out \subseteq Message /\ h \in History /\ n.id \in Server
  BY NodeFields DEF Final, Ready, HistoryInv
<1>2. Grows(h, h, n.id)
  BY <1>1, GrowsSelf
<1>3. \A m \in n.out : Truthful(h, S, m)
  BY <1>1, <1>2, TruthfulGrows DEF Final, Core
<1>4. Vouched(S, n.snapshot)
  BY VouchedMore DEF Final, Core
<1> QED
  BY <1>3, <1>4 DEF Final, Core

\* What a live node's store shows.
LEMMA StoreOf ==
  ASSUME NEW d, NEW h, NEW R, NEW a, NEW n, Good(d, h, R, a, n), n.appendedFrom = 0,
         HardStateOf(d, n)
  PROVE  StoreTrue(h, R, n.id, d)
<1>1. /\ n \in Node /\ n.log.entries = d.entries /\ n.snapshot = d.snap
      /\ n.snapshot.index = n.log.snapIndex /\ Shape(n)
  <2>1. Tracks(d, n) /\ n \in Node /\ n.log \in Log
    BY GoodFacts, GoodBounds
  <2>2. 0 \notin FirstIndex(n.log) .. LastIndex(n.log)
    <3>1. n.log.snapIndex \in Nat /\ LastIndex(n.log) \in Int
      BY <2>1, LogFields DEF LastIndex
    <3> QED
      BY <3>1 DEF FirstIndex
  <2> QED
    BY <2>1, <2>2 DEF Tracks, Appending, Shape
<1>2. FullLog(n) = d.snap.data \o d.entries
  BY <1>1 DEF FullLog
<1>3. Sealed(h, FullLog(n), d.snap.index, n.term)
  BY <1>1, SnapshotOf
<1> QED
  <2> DEFINE f == d.snap.data \o d.entries
  <2>1. /\ h.term[n.id] = n.term /\ h.vote[n.id][n.term] = n.votedFor
        /\ Mine(h, n.id) = FullLog(n)
        /\ Covers(n.snapshot) /\ Vouched(R, n.snapshot)
    BY GoodFacts
  <2>2. f = FullLog(n) /\ d.term = n.term /\ d.votedFor = n.votedFor /\ d.snap = n.snapshot
    BY <1>1, <1>2 DEF HardStateOf
  <2> HIDE DEF f
  <2>3. /\ h.term[n.id] = d.term /\ h.vote[n.id][d.term] = d.votedFor /\ Mine(h, n.id) = f
        /\ Covers(d.snap) /\ Vouched(R, d.snap) /\ Sealed(h, f, d.snap.index, d.term)
    BY <1>3, <2>1, <2>2
  <2> QED
    BY <2>3, Zenon DEF StoreTrue, f

\* The store and the node of another server do not notice a step.
LEMMA StoreLater ==
  ASSUME NEW h, HistoryInv(h), NEW g \in History, NEW i \in Server, Grows(h, g, i),
         NEW R, NEW S, R \subseteq S, NEW j \in Server, j # i, NEW d \in Durable,
         StoreTrue(h, R, j, d)
  PROVE  StoreTrue(g, S, j, d)
<1> DEFINE a == d.snap.data \o d.entries
<1>1. /\ h \in History /\ d.term \in Nat /\ d.snap \in Snapshot /\ d.snap.index \in Nat
      /\ d.snap.data \in Seq(Entry) /\ d.entries \in Seq(Entry)
  BY SnapshotFields DEF HistoryInv, Durable
<1>2. a \in Seq(Entry)
  BY <1>1, ConcatProperties
<1>3. h.term[j] \in Nat
  BY <1>1, HistoryFields
<1>4. /\ g.term[j] = h.term[j] /\ g.vote[j][d.term] = h.vote[j][d.term]
      /\ Mine(g, j) = Mine(h, j)
  BY <1>1, <1>3 DEF Grows, Mine
<1>5. Sealed(g, a, d.snap.index, d.term)
  <2> DEFINE k == d.snap.index
  <2>1. Sealed(h, a, k, d.term) /\ k \in Nat /\ d.term <= d.term
    BY <1>1 DEF StoreTrue
  <2> HIDE DEF a, k
  <2>2. Sealed(g, a, k, d.term)
    BY <1>1, <1>2, <2>1, SealedGrows
  <2> QED
    BY <2>2 DEF k
<1> QED
  BY <1>4, <1>5, VouchedMore DEF StoreTrue

LEMMA RestingLater ==
  ASSUME NEW h, HistoryInv(h), NEW g, HistoryInv(g), NEW i \in Server, Grows(h, g, i),
         NEW R, NEW S, R \subseteq S, NEW d, NEW a, NEW n, n.id # i,
         Resting(d, h, R, a, n)
  PROVE  Resting(d, g, S, a, n)
<1>1. /\ n \in Node /\ Shape(n) /\ a \in Seq(Entry) /\ Core(h, R, a, n) /\ Role(h, n)
  BY GoodFacts DEF Resting, Good
<1>2. g \in History
  BY DEF HistoryInv
<1>3. Core(g, S, a, n) /\ Role(g, n)
  BY <1>1, <1>2, OtherGrows
<1> QED
  BY <1>3 DEF Resting, Good

LEMMA CommitLater ==
  ASSUME NEW h, HistoryInv(h), NEW g \in History, NEW i \in Server, Grows(h, g, i),
         NEW c \in CommitRecord, CommitTrue(h, c)
  PROVE  CommitTrue(g, c)
<1>1. h \in History /\ c.entry.index \in Nat /\ c.termUB \in Nat
  BY DEF HistoryInv, CommitRecord, Entry
<1>2. PICK b \in Seq(Entry) :
        Sealed(h, b, c.entry.index, c.termUB) /\ b[c.entry.index] = c.entry
  BY DEF CommitTrue
<1>3. Sealed(g, b, c.entry.index, c.termUB)
  BY <1>1, <1>2, SealedGrows
<1> QED
  BY <1>2, <1>3 DEF CommitTrue

-----------------------------------------------------------------------------
(* What the checker records *)

LEMMA FinalFacts ==
  ASSUME NEW d, NEW h, NEW R, NEW a, NEW n, Final(d, h, R, a, n)
  PROVE  /\ n \in Node /\ Shape(n) /\ Covers(n.snapshot) /\ a \in Seq(Entry)
         /\ FullLog(n) \in Seq(Entry) /\ Len(FullLog(n)) \in Nat
         /\ HistoryInv(h) /\ h \in History /\ LedOK(h) /\ Rooted(h, FullLog(n))
         /\ n.id \in Server /\ n.term \in Nat /\ n.commitIndex \in Nat
         /\ n.log.snapIndex \in Nat /\ n.log.snapIndex <= n.commitIndex
         /\ n.commitIndex <= Len(FullLog(n)) /\ n.lastApplied = n.commitIndex
         /\ Sealed(h, FullLog(n), n.commitIndex, n.term)
         /\ Len(FullLog(n)) = n.log.snapIndex + Len(n.log.entries)
         /\ AppAfter(a, n) = SubSeq(FullLog(n), 1, n.commitIndex)
<1>1. /\ n \in Node /\ Shape(n) /\ Covers(n.snapshot) /\ a \in Seq(Entry)
      /\ HistoryInv(h) /\ h \in History /\ LedOK(h) /\ Mine(h, n.id) = FullLog(n)
      /\ Sealed(h, FullLog(n), n.commitIndex, n.term) /\ n.lastApplied = n.commitIndex
      /\ AppAfter(a, n) = SubSeq(FullLog(n), 1, n.commitIndex)
  BY DEF Final, Ready, Core, HistoryInv
<1>2. /\ n.id \in Server /\ n.term \in Nat /\ n.commitIndex \in Nat
      /\ n.log.snapIndex \in Nat /\ n.log.snapIndex <= n.commitIndex
  BY <1>1, NodeFields, LogFields DEF Shape
<1>3. /\ FullLog(n) \in Seq(Entry) /\ Len(FullLog(n)) \in Nat
      /\ Len(FullLog(n)) = n.log.snapIndex + Len(n.log.entries)
  BY <1>1, LogOf DEF LastIndex
<1>4. Rooted(h, FullLog(n))
  BY <1>1, <1>2, MineRooted
<1>5. n.commitIndex <= Len(FullLog(n))
  BY <1>1, <1>2, <1>3 DEF Sealed, Agree
<1> QED
  BY <1>1, <1>2, <1>3, <1>4, <1>5

\* The entries a node is seen to have committed: those after its snapshot.
LEMMA CommittedSeen ==
  ASSUME NEW n \in Node, Shape(n), Covers(n.snapshot), n.commitIndex <= Len(FullLog(n))
  PROVE  \A e : e \in CommittedEntries(n) <=>
           \E k \in n.log.snapIndex + 1 .. n.commitIndex : e = FullLog(n)[k]
<1> DEFINE base == n.log.snapIndex
           ents == n.log.entries
           ci == n.commitIndex
           b == Min({ci - base, Len(ents)})
           L == FullLog(n)
<1>1. /\ base \in Nat /\ ci \in Nat /\ Len(ents) \in Nat /\ Len(L) = base + Len(ents)
      /\ \A j \in 1 .. Len(ents) : L[base + j] = ents[j]
  BY NodeFields, LogFields, LogOf, LenProperties DEF LastIndex
<1>2. b = ci - base
  <2>1. ci - base \in Int /\ Len(ents) \in Int /\ ci - base <= Len(ents)
    BY <1>1
  <2> QED
    BY <2>1, MinOfTwo
<1>3. CommittedEntries(n) = {ents[k] : k \in 1 .. b}
  BY Zenon DEF CommittedEntries
<1> HIDE DEF b, L, ents, base, ci
<1>4. ASSUME NEW e, e \in CommittedEntries(n)
      PROVE  \E k \in base + 1 .. ci : e = L[k]
  <2>1. PICK j \in 1 .. b : e = ents[j]
    BY <1>3, <1>4
  <2> DEFINE k == base + j
  <2>2. j \in 1 .. Len(ents) /\ k \in base + 1 .. ci
    <3>1. ci <= base + Len(ents)
      BY <1>1 DEF ci, L
    <3> QED
      BY <1>1, <1>2, <2>1, <3>1
  <2>3. e = L[k]
    BY <1>1, <2>1, <2>2
  <2> QED
    BY <2>2, <2>3
<1>5. ASSUME NEW k \in base + 1 .. ci PROVE L[k] \in CommittedEntries(n)
  <2> DEFINE j == k - base
  <2>1. j \in 1 .. b /\ j \in 1 .. Len(ents) /\ base + j = k
    <3>1. ci <= base + Len(ents)
      BY <1>1 DEF ci, L
    <3> QED
      BY <1>1, <1>2, <3>1
  <2> HIDE DEF j
  <2>2. L[k] = ents[j]
    BY <1>1, <2>1
  <2> QED
    BY <1>3, <2>1, <2>2
<1> QED
  BY <1>4, <1>5 DEF base, ci, L

\* After a step the application has the committed part of the log, and each
\* entry of it has been seen committed, now or when the snapshot was taken.
LEMMA AppliedSeen ==
  ASSUME NEW d, NEW h, NEW R, NEW a, NEW n, Final(d, h, R, a, n),
         NEW S, R \subseteq S, CommittedEntries(n) \subseteq S
  PROVE  LET b == AppAfter(a, n) IN
         /\ b \in Seq(Entry) /\ Len(b) = n.commitIndex
         /\ \A k \in 1 .. Len(b) : b[k] = FullLog(n)[k] /\ b[k] \in S
<1> DEFINE L == FullLog(n)
           ci == n.commitIndex
           base == n.log.snapIndex
           b == AppAfter(a, n)
<1>1. /\ n \in Node /\ Shape(n) /\ Covers(n.snapshot) /\ L \in Seq(Entry) /\ Len(L) \in Nat
      /\ ci \in Nat /\ base \in Nat /\ base <= ci /\ ci <= Len(L)
      /\ b = SubSeq(L, 1, ci)
  BY FinalFacts
<1>2. /\ \A k \in 1 .. base : L[k] = n.snapshot.data[k]
      /\ Len(n.snapshot.data) = base
  BY <1>1, LogOf
<1>3. \A k \in base + 1 .. ci : L[k] \in CommittedEntries(n)
  BY <1>1, CommittedSeen
<1>4. \A k \in 1 .. base : L[k] \in R
  BY <1>2 DEF Final, Core, Vouched
<1> HIDE DEF L, ci, base, b
<1>5. b \in Seq(Entry) /\ Len(b) = ci /\ \A k \in 1 .. Len(b) : b[k] = L[k]
  <2>1. 1 \in Nat \ {0} /\ ci \in Int
    BY <1>1
  <2>2. /\ b \in Seq(Entry) /\ Len(b) = IF 1 <= ci THEN ci - 1 + 1 ELSE 0
        /\ \A k \in 1 .. Len(b) : b[k] = L[1 + k - 1]
    BY <1>1, <2>1, PartFields
  <2>3. Len(b) = ci
    BY <1>1, <2>2
  <2>4. \A k \in 1 .. ci : b[k] = L[k]
    BY <1>1, <2>2, <2>3
  <2> QED
    BY <2>2, <2>3, <2>4
<1>6. \A k \in 1 .. Len(b) : b[k] \in S
  <2> SUFFICES ASSUME NEW k \in 1 .. Len(b)
               PROVE  b[k] \in S
    OBVIOUS
  <2>1. k \in 1 .. base \/ k \in base + 1 .. ci
    BY <1>1, <1>5
  <2> QED
    BY <1>3, <1>4, <1>5, <2>1
<1> QED
  BY <1>5, <1>6 DEF b, ci, L

LEMMA SeenTrue ==
  ASSUME NEW d, NEW h, NEW R, NEW a, NEW n, Final(d, h, R, a, n),
         NEW e \in CommittedEntries(n)
  PROVE  CommitTrue(h, [entry |-> e, termUB |-> n.term])
<1> DEFINE L == FullLog(n)
           c == [entry |-> e, termUB |-> n.term]
<1>1. /\ n \in Node /\ Shape(n) /\ Covers(n.snapshot) /\ L \in Seq(Entry) /\ Len(L) \in Nat
      /\ n.commitIndex \in Nat /\ n.log.snapIndex \in Nat /\ n.commitIndex <= Len(L)
      /\ h \in History /\ LedOK(h) /\ Rooted(h, L) /\ n.term \in Nat
      /\ Sealed(h, L, n.commitIndex, n.term)
  BY FinalFacts
<1>2. PICK k \in n.log.snapIndex + 1 .. n.commitIndex : e = L[k]
  BY <1>1, CommittedSeen
<1> HIDE DEF L
<1>3. k \in Nat /\ k # 0 /\ k <= n.commitIndex /\ k \in 1 .. Len(L) /\ k <= Len(L)
  BY <1>1, <1>2
<1>4. e.index = k
  BY <1>1, <1>2, <1>3, RootedTerms
<1>5. Agree(L, L, k)
  BY <1>1, <1>3, AgreeFacts
<1>6. Sealed(h, L, k, n.term)
  BY <1>1, <1>3, <1>5, SealedPart
<1>7. c.entry = e /\ c.termUB = n.term
  OBVIOUS
<1> HIDE DEF c
<1>8. CommitTrue(h, c)
  BY <1>1, <1>2, <1>3, <1>4, <1>6, <1>7 DEF CommitTrue
<1> QED
  BY <1>8 DEF c

\* The checker keeps one record for each entry it has ever seen committed.
LEMMA RecordsKept ==
  ASSUME TypeOK, RecordsOnce, NEW n \in Node
  PROVE  LET C == RecordCommitted(n) IN
         /\ \A c \in C : c \in committed \/
              \E e \in CommittedEntries(n) : c = [entry |-> e, termUB |-> n.term]
         /\ \A c, d \in C : c.entry = d.entry => c = d
         /\ \A c \in committed : \E d \in C : d.entry = c.entry
         /\ \A e \in CommittedEntries(n) : \E d \in C : d.entry = e
<1> DEFINE seen == {[entry |-> e, termUB |-> n.term] : e \in CommittedEntries(n)}
           all == committed \cup seen
           C == RecordCommitted(n)
<1>1. committed \in SUBSET CommitRecord /\ n.term \in Nat
  BY NodeFields DEF TypeOK
<1>2. \A c \in seen : c.entry \in CommittedEntries(n) /\ c.termUB = n.term
  OBVIOUS
<1>3. \A c \in all : c.termUB \in Nat
  BY <1>1, <1>2 DEF CommitRecord
<1>4. \A c, d \in seen : c.entry = d.entry => c = d
  OBVIOUS
<1>5. C = {c \in all : \A d \in all : d.entry = c.entry => c.termUB <= d.termUB}
  BY Zenon DEF RecordCommitted
<1>6. \A c \in all : c \in CommitRecord \/ c \in seen
  BY <1>1
<1>7. \A c \in CommitRecord : c = [entry |-> c.entry, termUB |-> c.termUB]
  BY DEF CommitRecord
<1>8. \A c \in seen : c = [entry |-> c.entry, termUB |-> c.termUB]
  OBVIOUS
<1>9. ASSUME NEW e \in CommittedEntries(n) PROVE \E c \in seen : c.entry = e
  <2> DEFINE c == [entry |-> e, termUB |-> n.term]
  <2>1. c \in seen /\ c.entry = e
    OBVIOUS
  <2> HIDE DEF c, seen
  <2> QED
    BY <2>1
<1>10. \A c \in seen : \E e \in CommittedEntries(n) : c = [entry |-> e, termUB |-> n.term]
  OBVIOUS
<1> HIDE DEF seen, C
<1>11. \A c, d \in C : c.entry = d.entry => c = d
  <2> SUFFICES ASSUME NEW c \in C, NEW d \in C, c.entry = d.entry
               PROVE  c = d
    OBVIOUS
  <2>1. c \in all /\ d \in all /\ c.termUB <= d.termUB /\ d.termUB <= c.termUB
    BY <1>5
  <2>2. c.termUB = d.termUB
    BY <1>3, <2>1
  <2> QED
    BY <1>6, <1>7, <1>8, <2>1, <2>2
<1>12. ASSUME NEW c \in all PROVE \E d \in C : d.entry = c.entry
  <2>1. \A x, y \in committed : x.entry = y.entry => x = y
    BY DEF RecordsOnce
  <2>2. CASE \E x \in committed, y \in seen : x.entry = c.entry /\ y.entry = c.entry
    <3>1. PICK x \in committed, y \in seen : x.entry = c.entry /\ y.entry = c.entry
      BY <2>2
    <3>2. \A d \in all : d.entry = c.entry => d = x \/ d = y
      BY <1>4, <2>1, <3>1
    <3>3. x.termUB \in Nat /\ y.termUB \in Nat
      BY <1>3
    <3>4. CASE x.termUB <= y.termUB
      <4>1. \A d \in all : d.entry = x.entry => x.termUB <= d.termUB
        BY <3>1, <3>2, <3>3, <3>4
      <4>2. x \in C
        BY <1>5, <4>1
      <4> QED
        BY <3>1, <4>2
    <3>5. CASE y.termUB <= x.termUB
      <4>1. \A d \in all : d.entry = y.entry => y.termUB <= d.termUB
        BY <3>1, <3>2, <3>3, <3>5
      <4>2. y \in C
        BY <1>5, <4>1
      <4> QED
        BY <3>1, <4>2
    <3> QED
      BY <3>3, <3>4, <3>5
  <2>3. CASE ~(\E x \in committed, y \in seen : x.entry = c.entry /\ y.entry = c.entry)
    <3>1. \A d \in all : d.entry = c.entry => d = c
      BY <1>4, <2>1, <2>3
    <3>2. c.termUB <= c.termUB
      BY <1>3
    <3>3. c \in C
      BY <1>5, <3>1, <3>2
    <3> QED
      BY <3>3
  <2> QED
    BY <2>2, <2>3
<1>13. \A c \in C : c \in committed \/
         \E e \in CommittedEntries(n) : c = [entry |-> e, termUB |-> n.term]
  BY <1>5, <1>10
<1>14. \A c \in committed : \E d \in C : d.entry = c.entry
  BY <1>12
<1>15. \A e \in CommittedEntries(n) : \E d \in C : d.entry = e
  BY <1>9, <1>12
<1> QED
  BY <1>11, <1>13, <1>14, <1>15 DEF C

-----------------------------------------------------------------------------
(* The end of a step *)

LEMMA SyncedFields ==
  ASSUME NEW n \in Node, NEW d, ~n.panic, ~Discontinuous(d, PersistOf(n))
  PROVE  LET m == Synced(n, d) IN
         /\ m \in Node /\ m.id = n.id /\ m.term = n.term /\ m.votedFor = n.votedFor
         /\ m.state = n.state /\ m.votes = n.votes /\ m.prs = n.prs
         /\ m.learner = n.learner /\ m.confHistory = n.confHistory
         /\ m.log = n.log /\ m.snapshot = n.snapshot
         /\ m.commitIndex = n.commitIndex /\ m.lastApplied = n.lastApplied
         /\ m.out = {} /\ m.appendedFrom = 0 /\ m.snapDirty = "none"
         /\ m.applied = <<>> /\ ~m.panic
<1> DEFINE m == Settled(n)
           x == m.panic \/ Discontinuous(d, PersistOf(n))
           q == [m EXCEPT !.panic = x]
<1>1. /\ m.id = n.id /\ m.term = n.term /\ m.votedFor = n.votedFor
      /\ m.state = n.state /\ m.votes = n.votes /\ m.prs = n.prs
      /\ m.learner = n.learner /\ m.confHistory = n.confHistory
      /\ m.log = n.log /\ m.snapshot = n.snapshot
      /\ m.commitIndex = n.commitIndex /\ m.lastApplied = n.lastApplied
      /\ m.out = {} /\ m.appendedFrom = 0 /\ m.snapDirty = "none"
      /\ m.applied = <<>> /\ m.panic = n.panic /\ m \in Node
  BY EmptySeq DEF Settled, Node
<1>2. Synced(n, d) = q
  BY Zenon DEF Synced
<1>3. Synced(n, d) \in Node
  BY SyncedType
<1>4. ~x
  BY <1>1
<1> HIDE DEF m, x
<1>5. /\ q.id = m.id /\ q.term = m.term /\ q.votedFor = m.votedFor
      /\ q.state = m.state /\ q.votes = m.votes /\ q.prs = m.prs
      /\ q.learner = m.learner /\ q.confHistory = m.confHistory
      /\ q.log = m.log /\ q.snapshot = m.snapshot
      /\ q.commitIndex = m.commitIndex /\ q.lastApplied = m.lastApplied
      /\ q.out = m.out /\ q.appendedFrom = m.appendedFrom /\ q.snapDirty = m.snapDirty
      /\ q.applied = m.applied
  BY <1>1 DEF Node
<1>6. q.panic = x
  BY <1>1 DEF Node
<1> HIDE DEF q
<1>7. ~q.panic
  BY <1>4, <1>6
<1> QED
  BY <1>1, <1>2, <1>3, <1>5, <1>7

\* Once the step's Persist is on the disk and its entries are applied, the
\* node rests.
LEMMA SyncedRests ==
  ASSUME NEW d, NEW h, NEW R, NEW a, NEW n, Final(d, h, R, a, n), StoredByIndex(d),
         NEW S, R \subseteq S,
         NEW b, b = AppAfter(a, n), \A k \in 1 .. Len(b) : b[k] \in S,
         NEW e, e = ApplyPersist(d, PersistOf(n)), NEW m, m = Synced(n, d)
  PROVE  /\ Resting(e, h, S, b, m) /\ m.id = n.id /\ m.state = n.state
         /\ m.term = n.term /\ m.votedFor = n.votedFor /\ m.log = n.log
         /\ FullLog(m) = FullLog(n) /\ m.commitIndex = n.commitIndex
         /\ m.lastApplied = n.lastApplied /\ Len(b) = n.commitIndex
         /\ GoodStore(e)
<1>1. /\ n \in Node /\ Shape(n) /\ d \in Durable /\ ~n.panic /\ Ready(d, n)
      /\ HistoryInv(h) /\ Core(h, R, a, n) /\ Role(h, n) /\ InitialOnly(n)
  BY DEF Final, Ready, Core
<1>2. Saved(e, n) /\ ~Discontinuous(d, PersistOf(n))
  BY <1>1, PersistSaves DEF Ready
<1>3. /\ m \in Node /\ m.id = n.id /\ m.term = n.term /\ m.votedFor = n.votedFor
      /\ m.state = n.state /\ m.votes = n.votes /\ m.prs = n.prs
      /\ m.learner = n.learner /\ m.confHistory = n.confHistory
      /\ m.log = n.log /\ m.snapshot = n.snapshot
      /\ m.commitIndex = n.commitIndex /\ m.lastApplied = n.lastApplied
      /\ m.out = {} /\ m.appendedFrom = 0 /\ m.snapDirty = "none"
      /\ m.applied = <<>> /\ ~m.panic
  BY <1>1, <1>2, SyncedFields
<1>4. AtRest(e, m) /\ GoodStore(e)
  BY <1>1, <1>2, SavedAtRest
<1>5. e \in Durable
  BY <1>1, PersistOfType, ApplyPersistType
<1>6. /\ b \in Seq(Entry) /\ Len(b) = n.commitIndex
      /\ b = SubSeq(FullLog(n), 1, n.commitIndex) /\ n.commitIndex \in Nat
  <2> DEFINE T == R \cup CommittedEntries(n)
  <2>1. R \subseteq T /\ CommittedEntries(n) \subseteq T
    OBVIOUS
  <2> HIDE DEF T
  <2> QED
    BY <2>1, AppliedSeen, FinalFacts
<1>7. FullLog(m) = FullLog(n)
  BY <1>3 DEF FullLog
<1>8. AppAfter(b, m) = b
  <2>1. AppAfter(b, m) = b \o <<>>
    BY <1>3 DEF AppAfter
  <2> QED
    BY <1>6, <2>1, ConcatEmptySeq
<1>9. Core(h, S, b, m)
  <2>1. Len(b) <= m.commitIndex
    BY <1>3, <1>6
  <2>2. Vouched(S, m.snapshot)
    BY <1>1, <1>3, VouchedMore DEF Core
  <2> QED
    BY <1>1, <1>3, <1>6, <1>7, <1>8, <2>1, <2>2 DEF Core
<1>10. Role(h, m)
  BY <1>1, <1>3, <1>7 DEF Role, Stands, Peers
<1>11. Static(m)
  BY <1>1, <1>3 DEF Static, InitialOnly
<1>12. Good(e, h, S, b, m)
  BY <1>1, <1>4, <1>5, <1>6, <1>9, <1>10, <1>11 DEF Good, AtRest
<1> QED
  BY <1>3, <1>4, <1>6, <1>7, <1>12 DEF Resting

\* What a step of server i must show for the next state to tell the history g.
LEMMA StepTells ==
  ASSUME VoteInv, NEW h, Tells(h), NEW i \in Server,
         NEW g, HistoryInv(g), Grows(h, g, i), Vouchers \subseteq Vouchers',
         durable' \in [Server -> Durable],
         \A j \in Server : j # i => durable'[j] = durable[j],
         StoreTrue(g, Vouchers', i, durable'[i]),
         \A j \in up' : j \in Server,
         \A j \in up' : j # i => j \in up /\ node'[j] = node[j] /\ app'[j] = app[j],
         i \in up' => Resting(durable'[i], g, Vouchers', app'[i], node'[i]),
         \A m \in net' : m \in net \/ Truthful(g, Vouchers', m),
         \A c \in committed' : c \in committed \/ CommitTrue(g, c)
  PROVE  Tells(g)'
<1> DEFINE R == Vouchers
           S == Vouchers'
<1>1. /\ HistoryInv(h) /\ h \in History /\ g \in History /\ R \subseteq S
      /\ \A j \in Server : StoreTrue(h, R, j, durable[j])
      /\ \A j \in up : Resting(durable[j], h, R, app[j], node[j])
      /\ \A m \in net : Truthful(h, R, m)
      /\ \A c \in committed : CommitTrue(h, c)
  BY DEF Tells, HistoryInv
<1>2. /\ durable \in [Server -> Durable] /\ net \in SUBSET Message
      /\ committed \in SUBSET CommitRecord /\ \A j \in Server : node[j].id = j
  BY DEF VoteInv, TypeOK, HardStateSaved
<1> HIDE DEF R, S
<1>3. ASSUME NEW j \in Server PROVE StoreTrue(g, S, j, durable'[j])
  <2>1. CASE j = i
    BY <2>1 DEF S
  <2>2. CASE j # i
    <3>1. durable'[j] = durable[j] /\ durable[j] \in Durable
      BY <1>2, <2>2
    <3>2. StoreTrue(g, S, j, durable[j])
      BY <1>1, <2>2, <3>1, StoreLater
    <3> QED
      BY <3>1, <3>2
  <2> QED
    BY <2>1, <2>2
<1>4. ASSUME NEW j \in up' PROVE Resting(durable'[j], g, S, app'[j], node'[j])
  <2>1. CASE j = i
    BY <1>4, <2>1 DEF S
  <2>2. CASE j # i
    <3>1. /\ j \in up /\ j \in Server /\ node'[j] = node[j] /\ app'[j] = app[j]
          /\ durable'[j] = durable[j] /\ node[j].id # i
      BY <1>2, <2>2
    <3>2. Resting(durable[j], h, R, app[j], node[j])
      BY <1>1, <3>1
    <3>3. Resting(durable[j], g, S, app[j], node[j])
      BY <1>1, <3>1, <3>2, RestingLater
    <3> QED
      BY <3>1, <3>3
  <2> QED
    BY <2>1, <2>2
<1>5. ASSUME NEW m \in net' PROVE Truthful(g, S, m)
  <2>1. CASE m \in net
    BY <1>1, <1>2, <2>1, TruthfulGrows
  <2>2. CASE Truthful(g, Vouchers', m)
    BY <2>2 DEF S
  <2> QED
    BY <2>1, <2>2
<1>6. ASSUME NEW c \in committed' PROVE CommitTrue(g, c)
  <2>1. CASE c \in committed
    BY <1>1, <1>2, <2>1, CommitLater
  <2> QED
    BY <2>1
<1> QED
  BY <1>3, <1>4, <1>5, <1>6 DEF Tells, S

\* The same when nothing is sent, stored or committed and no live node steps.
LEMMA QuietTells ==
  ASSUME VoteInv, NEW h, Tells(h), NEW i \in Server,
         UNCHANGED <<durable, net, committed>>,
         \A j \in up' : j \in Server,
         \A j \in up' : j # i => j \in up /\ node'[j] = node[j] /\ app'[j] = app[j],
         i \in up' => Resting(durable[i], h, Vouchers, app'[i], node'[i])
  PROVE  Tells(h)'
<1>1. HistoryInv(h) /\ h \in History
  BY DEF Tells, HistoryInv
<1>2. Grows(h, h, i)
  BY <1>1, GrowsSelf
<1>3. Vouchers' = Vouchers
  BY DEF Vouchers
<1>4. /\ durable' \in [Server -> Durable] /\ durable' = durable
      /\ net' = net /\ committed' = committed
  BY DEF VoteInv, TypeOK
<1>5. StoreTrue(h, Vouchers', i, durable'[i])
  BY <1>3, <1>4 DEF Tells
<1>6. i \in up' => Resting(durable'[i], h, Vouchers', app'[i], node'[i])
  BY <1>3, <1>4
<1> QED
  BY <1>1, <1>2, <1>3, <1>4, <1>5, <1>6, StepTells

\* The application of a node at rest is the committed part of its log.
LEMMA RestingApp ==
  ASSUME NEW d, NEW h, NEW R, NEW a, NEW n, Resting(d, h, R, a, n)
  PROVE  /\ a = SubSeq(FullLog(n), 1, n.commitIndex) /\ a \in Seq(Entry)
         /\ Len(a) = n.commitIndex /\ n.lastApplied = n.commitIndex
         /\ \A k \in 1 .. Len(a) : a[k] = FullLog(n)[k] /\ a[k] \in R
         /\ Sealed(h, a, Len(a), n.term) /\ Agree(a, FullLog(n), Len(a))
<1> DEFINE L == FullLog(n)
           ci == n.commitIndex
<1>1. Good(d, h, R, a, n) /\ \A k \in 1 .. Len(a) : a[k] \in R
  BY DEF Resting
<1>2. /\ a \in Seq(Entry) /\ L \in Seq(Entry) /\ Len(L) \in Nat /\ ci \in Nat /\ ci <= Len(L)
      /\ n.lastApplied = ci /\ Sealed(h, L, ci, n.term) /\ h \in History /\ n.term \in Nat
      /\ n.snapDirty = "none"
  BY <1>1, GoodFacts, GoodBounds
<1>3. AppAfter(a, n) = a
  <2>1. AppAfter(a, n) = a \o <<>>
    BY <1>2 DEF AppAfter, Resting
  <2> QED
    BY <1>2, <2>1, ConcatEmptySeq
<1>4. a = SubSeq(L, 1, ci)
  BY <1>1, <1>3 DEF Good, Core
<1> HIDE DEF L, ci
<1>5. Len(a) = ci /\ \A k \in 1 .. Len(a) : a[k] = L[k]
  <2>1. 1 \in Nat \ {0} /\ ci \in Int
    BY <1>2
  <2>2. /\ Len(a) = IF 1 <= ci THEN ci - 1 + 1 ELSE 0
        /\ \A k \in 1 .. Len(a) : a[k] = L[1 + k - 1]
    BY <1>2, <1>4, <2>1, PartFields
  <2>3. Len(a) = ci
    BY <1>2, <2>2
  <2>4. \A k \in 1 .. ci : a[k] = L[k]
    BY <1>2, <2>2, <2>3
  <2> QED
    BY <2>3, <2>4
<1>6. Agree(a, L, Len(a))
  BY <1>2, <1>5 DEF Agree
<1>7. Sealed(h, a, Len(a), n.term)
  <2>1. ci <= ci
    BY <1>2
  <2> QED
    BY <1>2, <1>5, <1>6, <2>1, SealedPart
<1> QED
  BY <1>1, <1>2, <1>4, <1>5, <1>6, <1>7 DEF L, ci

\* What the checker records of a finished step is true.
LEMMA ReleaseRecords ==
  ASSUME TypeOK, RecordsOnce, NEW d, NEW g, NEW R, NEW a, NEW n, Final(d, g, R, a, n),
         committed' = RecordCommitted(n)
  PROVE  /\ Vouchers \subseteq Vouchers' /\ CommittedEntries(n) \subseteq Vouchers'
         /\ RecordsOnce'
         /\ \A c \in committed' : c \in committed \/ CommitTrue(g, c)
<1>1. n \in Node
  BY FinalFacts
<1> DEFINE C == RecordCommitted(n)
<1>2. /\ \A c \in C : c \in committed \/
           \E e \in CommittedEntries(n) : c = [entry |-> e, termUB |-> n.term]
      /\ \A c, x \in C : c.entry = x.entry => c = x
      /\ \A c \in committed : \E x \in C : x.entry = c.entry
      /\ \A e \in CommittedEntries(n) : \E x \in C : x.entry = e
  BY <1>1, RecordsKept
<1> HIDE DEF C
<1>3. committed' = C
  BY DEF C
<1>4. Vouchers \subseteq Vouchers' /\ CommittedEntries(n) \subseteq Vouchers' /\ RecordsOnce'
  BY <1>2, <1>3 DEF Vouchers, RecordsOnce
<1>5. \A c \in committed' : c \in committed \/ CommitTrue(g, c)
  BY <1>2, <1>3, SeenTrue
<1> QED
  BY <1>4, <1>5

\* A step of server i that ends with the node n and the history g, and leaves
\* the store d.
LEMMA ReleaseTells ==
  ASSUME VoteInv, RecordsOnce, NEW h, Tells(h), NEW i \in up, NEW n,
         NEW g, Grows(h, g, i), Final(durable[i], g, Vouchers, app[i], n),
         NEW d \in Durable, Release(i, n, d), StoreTrue(g, Vouchers', i, d),
         \A j \in up' : j \in Server,
         \A j \in up' : j # i => j \in up /\ node'[j] = node[j] /\ app'[j] = app[j],
         i \in up' => Resting(d, g, Vouchers', app'[i], node'[i])
  PROVE  Tells(g)' /\ RecordsOnce'
<1>1. /\ TypeOK /\ i \in Server /\ durable \in [Server -> Durable]
  BY DEF VoteInv, TypeOK
<1>2. /\ committed' = RecordCommitted(n) /\ durable' = [durable EXCEPT ![i] = d]
      /\ net' = net \cup Carried(n.out)
  BY DEF Release
<1>3. /\ Vouchers \subseteq Vouchers' /\ RecordsOnce'
      /\ \A c \in committed' : c \in committed \/ CommitTrue(g, c)
  BY <1>1, <1>2, ReleaseRecords
<1>4. /\ durable' \in [Server -> Durable] /\ durable'[i] = d
      /\ \A j \in Server : j # i => durable'[j] = durable[j]
  BY <1>1, <1>2
<1>5. HistoryInv(g) /\ g \in History /\ n \in Node /\ n.out \subseteq Message
  BY FinalFacts, NodeFields
<1>6. \A m \in n.out : Truthful(g, Vouchers', m)
  <2>1. \A m \in n.out : Truthful(g, Vouchers, m)
    BY DEF Final, Core
  <2>2. Grows(g, g, i)
    BY <1>5, GrowsSelf
  <2> DEFINE S == Vouchers'
  <2>3. Vouchers \subseteq S
    BY <1>3
  <2> HIDE DEF S
  <2>4. \A m \in n.out : Truthful(g, S, m)
    BY <1>1, <1>5, <2>1, <2>2, <2>3, TruthfulGrows
  <2> QED
    BY <2>4 DEF S
<1>7. \A m \in net' : m \in net \/ Truthful(g, Vouchers', m)
  BY <1>2, <1>6 DEF Carried
<1>8. StoreTrue(g, Vouchers', i, durable'[i])
  BY <1>4
<1>9. i \in up' => Resting(durable'[i], g, Vouchers', app'[i], node'[i])
  BY <1>4
<1>10. Tells(g)'
  BY <1>1, <1>3, <1>4, <1>5, <1>7, <1>8, <1>9, StepTells
<1> QED
  BY <1>3, <1>10

\* A snapshot changes nothing of what the node and its application show.
LEMMA SnapshotShows ==
  ASSUME NEW n \in Node, n.snapDirty = "none", n.applied = <<>>, NEW index \in Nat,
         NEW a \in Seq(Entry)
  PROVE  LET s == CreateSnapshot(n, index, a) IN
         /\ s.id = n.id /\ s.term = n.term /\ s.votedFor = n.votedFor
         /\ s.state = n.state /\ s.commitIndex = n.commitIndex /\ s.applied = <<>>
         /\ AppAfter(a, s) = a
<1> DEFINE s == CreateSnapshot(n, index, a)
<1>1. /\ s.id = n.id /\ s.term = n.term /\ s.votedFor = n.votedFor
      /\ s.state = n.state /\ s.commitIndex = n.commitIndex /\ s.applied = <<>>
      /\ s.snapDirty \in {"none", "keep"}
  BY DEF CreateSnapshot, Node
<1> HIDE DEF s
<1>2. AppAfter(a, s) = a \o <<>>
  BY <1>1 DEF AppAfter
<1>3. AppAfter(a, s) = a
  BY <1>2, ConcatEmptySeq
<1> QED
  BY <1>1, <1>3 DEF s

\* What was committed and applied before a step still is after it.
LEMMA StepOnward ==
  ASSUME NEW d, NEW h, NEW R, NEW a, NEW o, Resting(d, h, R, a, o),
         NEW i \in Server, NEW g, Grows(h, g, i), NEW n, Final(d, g, R, a, n),
         NEW b, b = AppAfter(a, n)
  PROVE  o.commitIndex <= n.commitIndex /\ IsPrefix(a, b)
<1>1. /\ a \in Seq(Entry) /\ Len(a) = o.commitIndex /\ Sealed(h, a, Len(a), o.term)
  BY RestingApp
<1>2. Len(a) \in Nat /\ h \in History /\ o.term \in Nat
  BY <1>1, GoodFacts, GoodBounds DEF Resting
<1>3. /\ HistoryInv(g) /\ g \in History /\ FullLog(n) \in Seq(Entry) /\ n.term \in Nat
      /\ n.commitIndex \in Nat /\ Sealed(g, FullLog(n), n.commitIndex, n.term)
  BY FinalFacts
<1>4. Len(a) <= n.commitIndex
  BY DEF Final, Core
<1>5. Sealed(g, a, Len(a), o.term)
  <2> DEFINE k == Len(a)
  <2>1. k \in Nat /\ Sealed(h, a, k, o.term) /\ o.term <= o.term
    BY <1>1, <1>2
  <2> HIDE DEF k
  <2>2. Sealed(g, a, k, o.term)
    BY <1>1, <1>2, <1>3, <2>1, SealedGrows
  <2> QED
    BY <2>2 DEF k
<1>6. Agree(a, FullLog(n), Len(a))
  <2> DEFINE j == Len(a)
             L == FullLog(n)
  <2>1. /\ j \in Nat /\ Sealed(g, a, j, o.term) /\ j <= n.commitIndex
        /\ L \in Seq(Entry) /\ Sealed(g, L, n.commitIndex, n.term)
    BY <1>2, <1>3, <1>4, <1>5
  <2> HIDE DEF j, L
  <2>2. Agree(a, L, j)
    BY <1>1, <1>2, <1>3, <2>1, SealedMeet
  <2> QED
    BY <2>2 DEF j, L
<1>7. /\ b \in Seq(Entry) /\ Len(b) = n.commitIndex
      /\ \A k \in 1 .. Len(b) : b[k] = FullLog(n)[k]
  <2> DEFINE T == R \cup CommittedEntries(n)
  <2>1. R \subseteq T /\ CommittedEntries(n) \subseteq T
    OBVIOUS
  <2> HIDE DEF T
  <2> QED
    <3>1. /\ AppAfter(a, n) \in Seq(Entry) /\ Len(AppAfter(a, n)) = n.commitIndex
          /\ \A k \in 1 .. Len(AppAfter(a, n)) :
               AppAfter(a, n)[k] = FullLog(n)[k] /\ AppAfter(a, n)[k] \in T
      BY <2>1, AppliedSeen, Zenon
    <3> QED
      BY <3>1
<1>8. Agree(a, b, Len(a))
  BY <1>2, <1>3, <1>4, <1>6, <1>7 DEF Agree
<1>9. SubSeq(a, 1, Len(a)) = SubSeq(b, 1, Len(a))
  BY <1>1, <1>2, <1>7, <1>8, AgreePrefix
<1>10. Len(a) <= Len(b)
  BY <1>4, <1>7
<1> QED
  BY <1>1, <1>4, <1>9, <1>10 DEF IsPrefix

\* A live node keeps what it has committed and applied.
Onward(i) ==
  node[i].commitIndex <= node'[i].commitIndex /\ IsPrefix(app[i], app'[i])

\* A crash at any point between the steps leaves what is on the disks.
LEMMA CrashTold ==
  ASSUME VoteInv, Told, NEW i \in Server, CrashServer(i),
         UNCHANGED <<durable, net, leaders, committed>>
  PROVE  Told' /\ i \notin up'
<1>1. PICK h : Tells(h)
  BY DEF Told
<1>2. /\ up' = up \ {i} /\ node' = [node EXCEPT ![i] = Wiped(i)]
      /\ app' = [app EXCEPT ![i] = <<>>]
  BY DEF CrashServer
<1>3. node \in [Server -> Node] /\ app \in [Server -> Seq(Entry)] /\ up \in SUBSET Server
  BY DEF VoteInv, TypeOK
<1>4. \A j \in Server : j # i => node'[j] = node[j] /\ app'[j] = app[j]
  BY <1>2, <1>3
<1>5. Tells(h)'
  BY <1>1, <1>2, <1>3, <1>4, QuietTells
<1>6. ~Wiped(i).panic
  BY DEF Wiped, RestartNode
<1>7. DownEmpty'
  <2>1. node'[i] = Wiped(i) /\ app'[i] = <<>>
    BY <1>2, <1>3
  <2> QED
    BY <1>2, <1>4, <1>6, <2>1 DEF DownEmpty, Told
<1>8. RecordsOnce'
  BY DEF RecordsOnce, Told
<1> QED
  BY <1>2, <1>5, <1>7, <1>8 DEF Told

LEMMA OthersOnward ==
  ASSUME TypeOK, NEW j \in up, node'[j] = node[j], app'[j] = app[j]
  PROVE  Onward(j)
<1>1. node[j] \in Node /\ app[j] \in Seq(Entry)
  BY DEF TypeOK
<1>2. node[j].commitIndex \in Nat /\ Len(app[j]) \in Nat
  BY <1>1, NodeFields, LenProperties
<1>3. node[j].commitIndex <= node[j].commitIndex /\ IsPrefix(app[j], app[j])
  BY <1>2 DEF IsPrefix
<1> QED
  BY <1>3 DEF Onward

-----------------------------------------------------------------------------
(* HandleOutput *)

\* The end of an event of server i whose step ended with the node n.
LEMMA HandleOutputTold ==
  ASSUME VoteInv, DurabilityInv, Told, NEW h, Tells(h), NEW i \in up,
         NEW n, Follows(node[i], n), Ended(durable[i], h, Vouchers, app[i], i, n),
         HandleOutput(i, n)
  PROVE  /\ Told'
         /\ \A j \in up \cap up' : Onward(j)
<1> DEFINE d == ApplyPersist(durable[i], PersistOf(n))
           m == Synced(n, durable[i])
           a == AppAfter(app[i], n)
           s == CreateSnapshot(m, m.lastApplied, a)
           e == ApplyPersist(d, PersistOf(s))
           q == Synced(s, d)
           S == Vouchers'
<1>1. /\ n \in Node /\ i \in Server /\ durable[i] \in Durable /\ n.id = i
      /\ HardStateOf(durable[i], node[i]) /\ StoredByIndex(durable[i])
      /\ node \in [Server -> Node] /\ app \in [Server -> Seq(Entry)]
      /\ up \in SUBSET Server /\ TypeOK /\ RecordsOnce
      /\ Resting(durable[i], h, Vouchers, app[i], node[i])
  BY DEF Follows, VoteInv, HardStateSaved, TypeOK, DurabilityInv, GoodStore, Told, Tells
<1>2. PICK g : g \in History /\ Grows(h, g, i)
               /\ Final(durable[i], g, Vouchers, app[i], n)
  BY DEF Ended
<1>3. d \in Durable /\ HardStateOf(d, n)
  <2>1. n.hsDirty \/ HardStateOf(durable[i], n)
    BY <1>1 DEF Follows, HardStateOf
  <2> QED
    BY <1>1, <2>1, HardStatePersisted
<1>4. node[i].commitIndex <= n.commitIndex /\ IsPrefix(app[i], a)
  BY <1>1, <1>2, StepOnward
<1>5. ASSUME committed' = RecordCommitted(n)
      PROVE  /\ Vouchers \subseteq S
             /\ Resting(d, g, S, a, m) /\ m.id = i
             /\ m.commitIndex = n.commitIndex /\ m.term = n.term
             /\ m.votedFor = n.votedFor /\ GoodStore(d)
             /\ StoreTrue(g, S, i, d)
  <2>1. Vouchers \subseteq S /\ CommittedEntries(n) \subseteq S
    BY <1>1, <1>2, <1>5, ReleaseRecords
  <2> HIDE DEF S, d, m
  <2>2. \A k \in 1 .. Len(a) : a[k] \in S
    BY <1>2, <2>1, AppliedSeen
  <2> HIDE DEF a
  <2>3. /\ Resting(d, g, S, a, m) /\ m.id = i /\ m.commitIndex = n.commitIndex
        /\ m.term = n.term /\ m.votedFor = n.votedFor /\ GoodStore(d)
    <3> DEFINE o == durable[i]
               v == app[i]
               R == Vouchers
    <3>1. /\ d = ApplyPersist(o, PersistOf(n)) /\ m = Synced(n, o) /\ a = AppAfter(v, n)
      BY DEF d, m, a
    <3>2. Final(o, g, R, v, n) /\ StoredByIndex(o) /\ R \subseteq S
      BY <1>1, <1>2, <2>1
    <3> HIDE DEF o, v, R
    <3>3. /\ Resting(d, g, S, a, m) /\ m.id = n.id /\ m.commitIndex = n.commitIndex
          /\ m.term = n.term /\ m.votedFor = n.votedFor /\ GoodStore(d)
      BY <2>2, <3>1, <3>2, SyncedRests
    <3> QED
      BY <1>1, <3>3
  <2>4. Good(d, g, S, a, m) /\ m.appendedFrom = 0 /\ HardStateOf(d, m)
    BY <1>3, <2>3 DEF Resting, HardStateOf
  <2>5. StoreTrue(g, S, i, d)
    BY <2>3, <2>4, StoreOf
  <2> QED
    BY <2>1, <2>3, <2>5
<1> HIDE DEF d, m, a, S
<1>6. CASE FsyncCrash(i, n)
  <2>1. CrashServer(i) /\ UNCHANGED <<durable, net, leaders, committed>>
    BY <1>6 DEF FsyncCrash
  <2>2. Told' /\ i \notin up'
    BY <1>1, <2>1, CrashTold
  <2>3. \A j \in up' : j # i /\ node'[j] = node[j] /\ app'[j] = app[j]
    BY <1>1, <2>1, <2>2 DEF CrashServer
  <2>4. \A j \in Server : j # i /\ j \in up' => node'[j] = node[j] /\ app'[j] = app[j]
    BY <2>3
  <2>5. ASSUME NEW j \in up \cap up' PROVE Onward(j)
    BY <1>1, <2>2, <2>3, <2>5, OthersOnward
  <2> QED
    BY <2>2, <2>5
<1>7. CASE /\ Release(i, n, d) /\ node' = [node EXCEPT ![i] = m]
           /\ app' = [app EXCEPT ![i] = a] /\ UNCHANGED <<up, crashes>>
  <2>1. committed' = RecordCommitted(n)
    BY <1>7 DEF Release
  <2>2. node'[i] = m /\ app'[i] = a /\ up' = up
    BY <1>1, <1>7
  <2>3. \A j \in Server : j # i => node'[j] = node[j] /\ app'[j] = app[j]
    BY <1>1, <1>7
  <2>4. Tells(g)' /\ RecordsOnce'
    BY <1>1, <1>2, <1>3, <1>5, <1>7, <2>1, <2>2, <2>3, ReleaseTells DEF S
  <2>5. Onward(i)
    BY <1>4, <1>5, <2>1, <2>2 DEF Onward
  <2>6. DownEmpty'
    BY <1>1, <2>2, <2>3 DEF DownEmpty, Told
  <2> QED
    BY <1>1, <2>2, <2>3, <2>4, <2>5, <2>6, OthersOnward DEF Told
<1>8. CASE /\ SnapshotDue(n)
           /\ Release(i, n, e) /\ node' = [node EXCEPT ![i] = q]
           /\ app' = [app EXCEPT ![i] = a] /\ UNCHANGED <<up, crashes>>
  <2>1. committed' = RecordCommitted(n) /\ SnapshotThreshold # 0
    BY <1>8 DEF Release, SnapshotDue
  <2>2. /\ Resting(d, g, S, a, m) /\ Good(d, g, S, a, m)
        /\ m.appendedFrom = 0 /\ m.applied = <<>> /\ \A k \in 1 .. Len(a) : a[k] \in S
        /\ m.snapDirty = "none" /\ a \in Seq(Entry) /\ m \in Node /\ m.lastApplied \in Nat
    BY <1>5, <2>1, GoodFacts, NodeFields DEF Resting
  <2>3. Final(d, g, S, a, s)
    BY <2>1, <2>2, CreateSnapshotFinal
  <2>4. /\ s.id = m.id /\ s.term = m.term /\ s.votedFor = m.votedFor
        /\ s.commitIndex = m.commitIndex /\ AppAfter(a, s) = a
    BY <2>2, SnapshotShows
  <2> HIDE DEF s, e, q
  <2>5. /\ Resting(e, g, S, a, q) /\ q.id = i /\ q.commitIndex = n.commitIndex
        /\ q.term = n.term /\ q.votedFor = n.votedFor
    <3>1. e = ApplyPersist(d, PersistOf(s)) /\ q = Synced(s, d)
      BY DEF e, q
    <3>2. StoredByIndex(d) /\ S \subseteq S /\ a = AppAfter(a, s)
      BY <1>5, <2>1, <2>4 DEF GoodStore
    <3>3. \A k \in 1 .. Len(a) : a[k] \in S
      BY <2>2
    <3>4. /\ Resting(e, g, S, a, q) /\ q.id = s.id /\ q.commitIndex = s.commitIndex
          /\ q.term = s.term /\ q.votedFor = s.votedFor
      BY <2>3, <3>1, <3>2, <3>3, SyncedRests
    <3> QED
      BY <1>5, <2>1, <2>4, <3>4
  <2>6. e \in Durable /\ HardStateOf(e, q)
    <3>1. s \in Node /\ HardStateOf(d, s)
      BY <1>3, <1>5, <2>1, <2>3, <2>4 DEF Final, Ready, HardStateOf
    <3>2. e \in Durable /\ HardStateOf(e, s)
      BY <1>3, <3>1, HardStatePersisted DEF e
    <3> QED
      BY <1>5, <2>1, <2>4, <2>5, <3>2 DEF HardStateOf
  <2>7. StoreTrue(g, S, i, e)
    BY <2>5, <2>6, StoreOf DEF Resting
  <2>8. node'[i] = q /\ app'[i] = a /\ up' = up
    BY <1>1, <1>8
  <2>9. \A j \in Server : j # i => node'[j] = node[j] /\ app'[j] = app[j]
    BY <1>1, <1>8
  <2>10. Tells(g)' /\ RecordsOnce'
    BY <1>1, <1>2, <1>8, <2>5, <2>6, <2>7, <2>8, <2>9, ReleaseTells DEF S
  <2>11. Onward(i)
    BY <1>4, <2>5, <2>8 DEF Onward
  <2>12. DownEmpty'
    BY <1>1, <2>8, <2>9 DEF DownEmpty, Told
  <2> QED
    BY <1>1, <2>8, <2>9, <2>10, <2>11, <2>12, OthersOnward DEF Told
<1>9. CASE Release(i, n, d) /\ CrashServer(i) /\ UNCHANGED leaders
  <2>1. committed' = RecordCommitted(n)
    BY <1>9 DEF Release
  <2>2. /\ up' = up \ {i} /\ node' = [node EXCEPT ![i] = Wiped(i)]
        /\ app' = [app EXCEPT ![i] = <<>>]
    BY <1>9 DEF CrashServer
  <2>3. \A j \in Server : j # i => node'[j] = node[j] /\ app'[j] = app[j]
    BY <1>1, <2>2
  <2>4. Tells(g)' /\ RecordsOnce'
    BY <1>1, <1>2, <1>3, <1>5, <1>9, <2>1, <2>2, <2>3, ReleaseTells DEF S
  <2>5. ~Wiped(i).panic
    BY DEF Wiped, RestartNode
  <2>6. DownEmpty'
    <3>1. node'[i] = Wiped(i) /\ app'[i] = <<>>
      BY <1>1, <2>2
    <3> QED
      BY <1>1, <2>2, <2>3, <2>5, <3>1 DEF DownEmpty, Told
  <2>7. \A j \in up' : j # i
    BY <2>2
  <2> QED
    BY <1>1, <2>2, <2>3, <2>4, <2>6, <2>7, OthersOnward DEF Told
<1> QED
  BY <1>6, <1>7, <1>8, <1>9, Zenon DEF HandleOutput, Complete, d, m, a

-----------------------------------------------------------------------------
(* The events *)

\* A restart begins with what the store shows.
LEMMA ConcatAgrees ==
  ASSUME NEW a \in Seq(Entry), NEW t \in Seq(Entry)
  PROVE  a \o t \in Seq(Entry) /\ Agree(a, a \o t, Len(a)) /\ Len(a) \in Nat
<1> DEFINE b == a \o t
<1>1. Len(a) \in Nat /\ Len(t) \in Nat
  BY LenProperties
<1>2. /\ b \in Seq(Entry) /\ Len(b) = Len(a) + Len(t)
      /\ \A i \in 1 .. Len(a) + Len(t) : b[i] = IF i <= Len(a) THEN a[i] ELSE t[i - Len(a)]
  BY ConcatProperties
<1> HIDE DEF b
<1>3. Agree(a, b, Len(a))
  BY <1>1, <1>2 DEF Agree
<1> QED
  BY <1>1, <1>2, <1>3 DEF b

\* A restart begins with what the store shows.
LEMMA RestartRests ==
  ASSUME NEW i \in Server, NEW d \in Durable, GoodStore(d), StaticStore(d),
         NEW h, HistoryInv(h), NEW R, StoreTrue(h, R, i, d)
  PROVE  Resting(d, h, R, d.snap.data, RestartNode(i, d))
<1> DEFINE n == RestartNode(i, d)
           a == d.snap.data
           l == ResetLog(d.snap.index, d.snap.term)
<1>1. /\ n \in Node /\ n.id = i /\ n.out = {} /\ n.term = d.term /\ n.votedFor = d.votedFor
  BY RestartNodeType DEF HardStateOf
<1>2. /\ n.log = AppendLog(l, d.entries) /\ n.snapshot = d.snap /\ n.state = "Follower"
      /\ n.commitIndex = d.snap.index /\ n.lastApplied = d.snap.index
      /\ n.snapDirty = "none" /\ n.applied = <<>> /\ ~n.panic /\ n.appendedFrom = 0
  BY DEF RestartNode
<1>3. Tracks(d, n) /\ Static(n)
  BY RestartAtRest, RestartFit DEF AtRest, Fit
<1>4. /\ d.entries \in Seq(Entry) /\ a \in Seq(Entry) /\ d.snap.index \in Nat
      /\ Len(a) = d.snap.index /\ Vouched(R, d.snap) /\ Covers(d.snap)
      /\ Sealed(h, a \o d.entries, d.snap.index, d.term) /\ Mine(h, i) = a \o d.entries
      /\ h.term[i] = d.term /\ h.vote[i][d.term] = d.votedFor
  BY SnapshotFields DEF Durable, StoreTrue, Covers
<1>5. FullLog(n) = a \o d.entries
  <2>1. n.log.entries = <<>> \o d.entries
    BY <1>2 DEF AppendLog, ResetLog
  <2>2. n.log.entries = d.entries
    BY <1>4, <2>1, ConcatEmptySeq
  <2> QED
    BY <1>2, <2>2 DEF FullLog
<1>6. AppAfter(a, n) = SubSeq(FullLog(n), 1, n.commitIndex)
  <2>1. AppAfter(a, n) = a \o <<>>
    BY <1>2 DEF AppAfter
  <2>2. AppAfter(a, n) = a
    BY <1>4, <2>1, ConcatEmptySeq
  <2>3. SubSeq(a, 1, Len(a)) = a
    BY <1>4, SubSeqFull
  <2> DEFINE b == a \o d.entries
  <2>4. b \in Seq(Entry) /\ Agree(a, b, Len(a)) /\ Len(a) \in Nat
    <3>1. a \in Seq(Entry) /\ d.entries \in Seq(Entry)
      BY <1>4
    <3>2. b \in Seq(Entry) /\ Agree(a, b, Len(a)) /\ Len(a) \in Nat
      <4> HIDE DEF a
      <4> QED
        BY <3>1, ConcatAgrees
    <3> QED
      BY <3>2
  <2> HIDE DEF b, a
  <2>5. SubSeq(a, 1, Len(a)) = SubSeq(b, 1, Len(a))
    BY <1>4, <2>4, AgreePrefix
  <2> QED
    BY <1>2, <1>4, <1>5, <2>2, <2>3, <2>5 DEF b
<1> HIDE DEF n
<1>7. Core(h, R, a, n)
  BY <1>1, <1>2, <1>4, <1>5, <1>6 DEF Core
<1>8. Role(h, n)
  BY <1>2, RoleNone
<1>9. Good(d, h, R, a, n)
  BY <1>3, <1>4, <1>7, <1>8 DEF Good
<1> QED
  BY <1>1, <1>2, <1>4, <1>9 DEF Resting, Vouched, n

LEMMA RestartTold ==
  ASSUME ElectionInv, DurabilityInv, Told, NEW i \in Server, Restart(i)
  PROVE  Told' /\ \A j \in up \cap up' : Onward(j)
<1>1. PICK h : Tells(h)
  BY DEF Told
<1> DEFINE d == durable[i]
           q == RestartNode(i, d)
<1>2. /\ VoteInv /\ TypeOK /\ node \in [Server -> Node] /\ app \in [Server -> Seq(Entry)]
      /\ up \in SUBSET Server /\ d \in Durable /\ GoodStore(d) /\ StaticStore(d)
      /\ HistoryInv(h) /\ StoreTrue(h, Vouchers, i, d)
  BY <1>1 DEF ElectionInv, VoteInv, TypeOK, AllStatic, DurabilityInv, Tells
<1>3. Resting(d, h, Vouchers, d.snap.data, q)
  BY <1>2, RestartRests
<1>4. /\ up' = up \cup {i} /\ node' = [node EXCEPT ![i] = q]
      /\ app' = [app EXCEPT ![i] = d.snap.data] /\ i \notin up
      /\ UNCHANGED <<durable, net, committed>>
  BY DEF Restart
<1> HIDE DEF q
<1>5. /\ node'[i] = q /\ app'[i] = d.snap.data
      /\ \A j \in Server : j # i => node'[j] = node[j] /\ app'[j] = app[j]
  BY <1>2, <1>4
<1>6. Tells(h)'
  BY <1>1, <1>2, <1>3, <1>4, <1>5, QuietTells
<1>7. DownEmpty'
  BY <1>2, <1>4, <1>5 DEF DownEmpty, Told
<1>8. RecordsOnce'
  BY <1>4 DEF RecordsOnce, Told
<1>9. \A j \in up : Onward(j)
  BY <1>2, <1>4, <1>5, OthersOnward
<1> QED
  BY <1>6, <1>7, <1>8, <1>9 DEF Told

\* A live node before an event.
LEMMA UpRests ==
  ASSUME VoteInv, NEW h, Tells(h), NEW i \in up
  PROVE  /\ i \in Server /\ node[i] \in Node /\ node[i].id = i
         /\ Good(durable[i], h, Vouchers, app[i], node[i])
         /\ node[i].appendedFrom = 0 /\ node[i].applied = <<>>
         /\ HistoryInv(h) /\ h \in History
BY DEF VoteInv, TypeOK, HardStateSaved, Tells, Resting, HistoryInv

\* An event of server i that its node ends as n.
Handles(h, i, n) ==
  /\ HandleOutput(i, n)
  /\ Follows(node[i], n) /\ Ended(durable[i], h, Vouchers, app[i], i, n)

Handled(h) == \E i \in up : \E n : Handles(h, i, n)

LEMMA DeliverHandles ==
  ASSUME ElectionInv, DurabilityInv, NEW h, Tells(h), NEW m \in net, Deliver(m)
  PROVE  Handled(h)
<1>2. /\ m \in Message /\ m.to \in up /\ m.to \in Server /\ VoteInv
      /\ Linked(m) /\ Sound(m) /\ Truthful(h, Vouchers, m)
  BY DEF DurabilityInv, ElectionInv, AllStatic, VoteInv, TypeOK, Deliver, Tells
<1>3. PICK fresh \in BOOLEAN :
        HandleOutput(m.to, Receive(node[m.to], m, fresh))
  BY DEF Deliver
<1> DEFINE i == m.to
           n == Receive(node[i], m, fresh)
<1>4. /\ node[i] \in Node /\ node[i].id = i
      /\ Good(durable[i], h, Vouchers, app[i], node[i])
      /\ node[i].appendedFrom = 0 /\ node[i].applied = <<>>
  BY <1>2, UpRests
<1>5. Follows(node[i], n) /\ Ended(durable[i], h, Vouchers, app[i], i, n)
  BY <1>2, <1>4, ReceiveFollows, ReceiveEnds
<1>6. HandleOutput(i, n) /\ i \in up
  BY <1>2, <1>3
<1> HIDE DEF n, i
<1> QED
  BY <1>5, <1>6 DEF Handled, Handles

\* An event whose node has moved with its history.
LEMMA MovedHandles ==
  ASSUME NEW h, NEW i \in up, NEW n, Follows(node[i], n),
         Moved(durable[i], h, Vouchers, app[i], i, n), HandleOutput(i, n)
  PROVE  Handled(h)
BY MovedEnds DEF Handled, Handles

\* Every event is a crash, a restart, or a step of a node for which the
\* history has room.
LEMMA EventHandles ==
  ASSUME ConfChanges = {}, ElectionInv, DurabilityInv, NEW h, Tells(h), Next
  PROVE  (\E i \in Server : Crash(i) \/ Restart(i)) \/ Handled(h)
<1>00. VoteInv
  BY DEF ElectionInv
<1>1. ASSUME NEW i \in Server, ElectionTimeout(i) PROVE Handled(h)
  <2> DEFINE n == Campaign(node[i], PreVote, FALSE)
  <2>1. i \in up /\ HandleOutput(i, n)
    BY <1>1 DEF ElectionTimeout
  <2>2. PreVote \in BOOLEAN /\ FALSE \in BOOLEAN
    BY ParamsAssumption
  <2>3. Follows(node[i], n) /\ Moved(durable[i], h, Vouchers, app[i], i, n)
    <3>1. /\ node[i] \in Node /\ node[i].id = i
          /\ Good(durable[i], h, Vouchers, app[i], node[i])
      BY <1>00, <2>1, UpRests
    <3>2. Follows(node[i], n)
      BY <2>2, <3>1, CampaignFollows
    <3>3. Moved(durable[i], h, Vouchers, app[i], i, n)
      BY <2>2, <3>1, CampaignMoves
    <3> QED
      BY <3>2, <3>3
  <2> HIDE DEF n
  <2> QED
    BY <2>1, <2>3, MovedHandles
<1>2. ASSUME NEW i \in Server, NEW due \in SUBSET LeaderTicks, LeaderTick(i, due)
      PROVE  Handled(h)
  <2> DEFINE t == "transfer" \in due
             u == "quorum" \in due
             b == "heartbeat" \in due
             n == TickLeader(node[i], t, u, b)
  <2>0. t \in BOOLEAN /\ u \in BOOLEAN /\ b \in BOOLEAN
    OBVIOUS
  <2>1. i \in up /\ HandleOutput(i, n) /\ node[i].state = "Leader"
    BY <1>2 DEF LeaderTick
  <2> HIDE DEF t, u, b
  <2>2. Good(durable[i], h, Vouchers, app[i], node[i]) /\ node[i] \in Node
    BY <1>00, <2>1, UpRests
  <2>3. Good(durable[i], h, Vouchers, app[i], n)
    BY <2>0, <2>1, <2>2, TickLeaderGood
  <2>4. Follows(node[i], n)
    BY <2>0, <2>2, TickLeaderQuiet, QuietFollows
  <2> HIDE DEF n
  <2> QED
    BY <1>00, <2>1, <2>3, <2>4, UpRests, GoodMoved, MovedHandles
<1>3. ASSUME NEW i \in Server, NEW v \in Value, ClientPropose(i, v) PROVE Handled(h)
  <2> DEFINE n == Propose(node[i], v)
  <2>1. i \in up /\ HandleOutput(i, n)
    BY <1>3 DEF ClientPropose
  <2>2. Follows(node[i], n) /\ Moved(durable[i], h, Vouchers, app[i], i, n)
    BY <1>00, <2>1, UpRests, ProposeQuiet, QuietFollows, ProposeMoves
  <2> HIDE DEF n
  <2> QED
    BY <1>00, <2>1, <2>2, MovedHandles
<1>4. ASSUME NEW i \in Server, NEW t \in TransferTargets, Transfer(i, t) PROVE Handled(h)
  <2> DEFINE n == TransferLeadership(node[i], t)
  <2>1. i \in up /\ HandleOutput(i, n) /\ t \in Server
    BY <1>4, ClusterAssumption DEF Transfer
  <2>2. Follows(node[i], n) /\ Good(durable[i], h, Vouchers, app[i], n)
    BY <1>00, <2>1, UpRests, TransferLeadershipQuiet, QuietFollows,
       TransferLeadershipGood
  <2> HIDE DEF n
  <2> QED
    BY <1>00, <2>1, <2>2, UpRests, GoodMoved, MovedHandles
<1>5. ASSUME NEW m \in net, Deliver(m) PROVE Handled(h)
  BY <1>5, DeliverHandles
<1>6. \/ \E i \in Server : ElectionTimeout(i) \/ Crash(i) \/ Restart(i)
      \/ \E i \in Server, due \in SUBSET LeaderTicks : LeaderTick(i, due)
      \/ \E i \in Server, v \in Value : ClientPropose(i, v)
      \/ \E i \in Server, t \in TransferTargets : Transfer(i, t)
      \/ \E m \in net : Deliver(m)
  BY DEF Next, ReceiveVote, ReceiveVoteResp, ReceiveApp, ReceiveAppResp, ReceiveSnap,
         ReceiveSnapResp, ReceiveTimeoutNow
<1> QED
  BY <1>1, <1>2, <1>3, <1>4, <1>5, <1>6

LEMMA NextTold ==
  ASSUME ConfChanges = {}, ElectionInv, DurabilityInv, Told, Next
  PROVE  Told' /\ \A j \in up \cap up' : Onward(j)
<1> DEFINE Goal == Told' /\ \A j \in up \cap up' : Onward(j)
<1>0. PICK h : Tells(h)
  BY DEF Told
<1>00. VoteInv
  BY DEF ElectionInv
<1> HIDE DEF Goal
<1>1. ASSUME NEW i \in Server, Crash(i) PROVE Goal
  <2>1. /\ CrashServer(i) /\ UNCHANGED <<durable, net, leaders, committed>>
    BY <1>1 DEF Crash
  <2>2. Told' /\ i \notin up'
    BY <1>00, <2>1, CrashTold
  <2>3. TypeOK /\ \A j \in up : j \in Server
    BY <1>00 DEF VoteInv, TypeOK
  <2>4. \A j \in up \cap up' : j # i /\ node'[j] = node[j] /\ app'[j] = app[j]
    BY <2>1, <2>2, <2>3 DEF CrashServer, TypeOK
  <2> QED
    BY <2>2, <2>3, <2>4, OthersOnward DEF Goal
<1>2. ASSUME NEW i \in Server, Restart(i) PROVE Goal
  BY <1>2, RestartTold DEF Goal
<1>3. ASSUME NEW i \in up, NEW n, Handles(h, i, n) PROVE Goal
  BY <1>0, <1>00, <1>3, HandleOutputTold DEF Handles, Goal
<1>4. Goal
  BY <1>0, <1>1, <1>2, <1>3, EventHandles DEF Handled
<1> QED
  BY <1>4 DEF Goal

-----------------------------------------------------------------------------
(* The inductive invariant *)

\* Nothing has happened yet.
NewHistory ==
  [term  |-> [i \in Server |-> 0],
   vote  |-> [i \in Server |-> [t \in Nat |-> None]],
   held  |-> [i \in Server |-> [t \in Nat |-> <<>>]],
   bid   |-> [i \in Server |-> [t \in Nat |-> <<>>]],
   led   |-> [t \in Nat |-> <<>>],
   owner |-> [t \in Nat |-> None]]

LEMMA NewHistoryInv == HistoryInv(NewHistory)
<1> DEFINE h == NewHistory
<1>1. h \in History
  BY EmptySeq DEF NewHistory, History
<1>2. /\ \A i \in Server : h.term[i] = 0
      /\ \A i \in Server, t \in Nat :
           h.vote[i][t] = None /\ h.held[i][t] = <<>> /\ h.bid[i][t] = <<>>
      /\ \A t \in Nat : h.led[t] = <<>> /\ h.owner[t] = None
  BY DEF NewHistory
<1> HIDE DEF h
<1>3. \A t : 1 .. Len(<<>>) = {} /\ Rooted(h, <<>>) /\ AtMost(<<>>, t) /\ Below(<<>>, t)
  BY DEF Rooted, AtMost, Below
<1>4. LedOK(h)
  BY <1>2, <1>3 DEF LedOK
<1>5. PastOK(h)
  BY <1>2, <1>3, ServerAssumption DEF PastOK
<1>6. \A t, l \in Nat : ~Open(h, t, l)
  BY <1>2, <1>3 DEF Open, Point
<1>7. Inherited(h) /\ Kept(h) /\ Supported(h)
  BY <1>6 DEF Inherited, Kept, Supported
<1> QED
  BY <1>1, <1>4, <1>5, <1>7 DEF HistoryInv, h

LEMMA InitSafetyInv == Init => SafetyInv
<1> SUFFICES ASSUME Init PROVE SafetyInv
  OBVIOUS
<1>1. ElectionInv /\ DurabilityInv
  BY InitElectionInv, InitDurabilityInv
<1>2. /\ node = [i \in Server |-> RestartNode(i, NewDurable)] /\ up = Server
      /\ durable = [i \in Server |-> NewDurable] /\ app = [i \in Server |-> <<>>]
      /\ net = {} /\ committed = {}
  BY DEF Init
<1> DEFINE h == NewHistory
<1>3. HistoryInv(h)
  BY NewHistoryInv
<1>4. NewDurable \in Durable /\ StaticStore(NewDurable) /\ GoodStore(NewDurable)
  BY NewDurableType, NewStoreStatic, WellLoggedEmpty
     DEF GoodStore, StoredByIndex, NewDurable
<1>5. ASSUME NEW i \in Server PROVE StoreTrue(h, Vouchers, i, NewDurable)
  <2>1. NewDurable.snap.data \o NewDurable.entries = <<>>
    <3>1. NewDurable.snap.data \o NewDurable.entries = <<>> \o <<>>
      BY DEF NewDurable, NoSnapshot
    <3> QED
      BY <3>1, EmptySeq, ConcatEmptySeq
  <2>2. /\ NewDurable.term = 0 /\ NewDurable.votedFor = None
        /\ NewDurable.snap.index = 0 /\ NewDurable.snap.term = 0
        /\ NewDurable.snap.data = <<>>
    BY DEF NewDurable, NoSnapshot
  <2>3. h.term[i] = 0 /\ h.vote[i][0] = None /\ Mine(h, i) = <<>>
    BY DEF NewHistory, Mine
  <2>4. Covers(NewDurable.snap) /\ Vouched(Vouchers, NewDurable.snap)
    BY <2>2 DEF Covers, Vouched, TermOf
  <2> HIDE DEF h
  <2> QED
    BY <2>1, <2>2, <2>3, <2>4 DEF StoreTrue, Sealed
<1>6. ASSUME NEW i \in Server
      PROVE  Resting(NewDurable, h, Vouchers, <<>>, RestartNode(i, NewDurable))
  <2>1. NewDurable.snap.data = <<>>
    BY DEF NewDurable, NoSnapshot
  <2> HIDE DEF h
  <2> QED
    BY <1>3, <1>4, <1>5, <2>1, RestartRests
<1> HIDE DEF h
<1>7. Tells(h)
  BY <1>2, <1>3, <1>5, <1>6 DEF Tells
<1>8. RecordsOnce /\ DownEmpty
  BY <1>2 DEF RecordsOnce, DownEmpty
<1> QED
  BY <1>1, <1>7, <1>8 DEF SafetyInv, Told

LEMMA StutterTold ==
  ASSUME Told, UNCHANGED vars
  PROVE  Told'
<1>1. PICK h : Tells(h)
  BY DEF Told
<1>2. UNCHANGED <<node, up, durable, app, net, committed>>
  BY DEF vars
<1>3. Tells(h)' /\ RecordsOnce' /\ DownEmpty'
  BY <1>1, <1>2 DEF Tells, Vouchers, RecordsOnce, DownEmpty, Told
<1> QED
  BY <1>3 DEF Told

LEMMA NextSafety ==
  ASSUME ConfChanges = {}, SafetyInv, Next
  PROVE  SafetyInv' /\ \A i \in up \cap up' : Onward(i)
<1>1. ElectionInv' /\ DurabilityInv'
  BY NextElection, NextDurability DEF SafetyInv
<1>2. Told' /\ \A i \in up \cap up' : Onward(i)
  BY NextTold DEF SafetyInv
<1> QED
  BY <1>1, <1>2 DEF SafetyInv

LEMMA StutterSafety ==
  ASSUME SafetyInv, UNCHANGED vars
  PROVE  SafetyInv' /\ \A i \in up \cap up' : Onward(i)
<1>1. ElectionInv' /\ DurabilityInv' /\ Told'
  BY StutterElection, StutterDurability, StutterTold DEF SafetyInv
<1>2. TypeOK /\ node' = node /\ app' = app
  BY DEF SafetyInv, ElectionInv, VoteInv, vars
<1>3. \A i \in up \cap up' : Onward(i)
  BY <1>2, OthersOnward
<1> QED
  BY <1>1, <1>3 DEF SafetyInv

-----------------------------------------------------------------------------
(* What the invariant says *)

LEMMA StoresMatch == SafetyInv => LogMatching
<1> SUFFICES ASSUME SafetyInv, NEW i \in Server, NEW j \in Server,
                    NEW k \in DOMAIN DurableLog(i) \cap DOMAIN DurableLog(j),
                    DurableLog(i)[k].term = DurableLog(j)[k].term
             PROVE  \A x \in 1 .. k : DurableLog(i)[x] = DurableLog(j)[x]
  BY DEF LogMatching
<1>1. PICK h : Tells(h)
  BY DEF SafetyInv, Told
<1>2. HistoryInv(h) /\ h \in History
  <2>1. HistoryInv(h)
    BY <1>1, Zenon DEF Tells
  <2> QED
    BY <2>1 DEF HistoryInv
<1> DEFINE a == DurableLog(i)
           b == DurableLog(j)
<1>3. a = Mine(h, i) /\ b = Mine(h, j)
  BY <1>1 DEF Tells, StoreTrue, DurableLog
<1>4. /\ a \in Seq(Entry) /\ b \in Seq(Entry) /\ Rooted(h, a) /\ Rooted(h, b)
  BY <1>2, <1>3, MineRooted
<1>5. k \in DOMAIN a /\ k \in DOMAIN b /\ a[k].term = b[k].term
  OBVIOUS
<1> HIDE DEF a, b
<1>6. k \in 1 .. Len(a) /\ k \in 1 .. Len(b) /\ k \in Nat
  BY <1>4, <1>5
<1>7. Agree(a, b, k)
  BY <1>2, <1>4, <1>5, <1>6, RootedMatch
<1> QED
  BY <1>7 DEF Agree, a, b

LEMMA LeadersComplete == SafetyInv => LeaderCompleteness
<1> SUFFICES ASSUME SafetyInv, NEW i \in LeadersUp, NEW c \in committed,
                    node[i].term > c.termUB
             PROVE  /\ c.entry.index \in DOMAIN FullLog(node[i])
                    /\ FullLog(node[i])[c.entry.index] = c.entry
  BY DEF LeaderCompleteness
<1> DEFINE n == node[i]
           L == FullLog(n)
           k == c.entry.index
<1>1. PICK h : Tells(h)
  BY DEF SafetyInv, Told
<1>2. i \in up /\ n.state = "Leader" /\ VoteInv /\ c \in CommitRecord
  BY DEF LeadersUp, SafetyInv, ElectionInv, VoteInv, TypeOK
<1>3. Good(durable[i], h, Vouchers, app[i], n) /\ HistoryInv(h) /\ h \in History
  BY <1>1, <1>2, UpRests
<1>4. /\ h.owner[n.term] = n.id /\ h.led[n.term] = L /\ L \in Seq(Entry)
      /\ n.id \in Server /\ n.term \in Nat
  BY <1>2, <1>3, GoodLeader, GoodFacts, GoodBounds
<1>5. k \in Nat /\ c.termUB \in Nat /\ k # 0
  BY <1>1, <1>2 DEF CommitRecord, Entry, Tells, CommitTrue
<1>6. PICK b \in Seq(Entry) : Sealed(h, b, k, c.termUB) /\ b[k] = c.entry
  BY <1>1 DEF Tells, CommitTrue
<1> HIDE DEF n, L, k
<1>7. Sealed(h, b, k, n.term)
  <2>1. Grows(h, h, n.id) /\ c.termUB <= n.term
    BY <1>3, <1>4, <1>5, GrowsSelf DEF n
  <2> QED
    BY <1>3, <1>4, <1>5, <1>6, <2>1, SealedGrows
<1>8. Agree(L, b, k)
  <2>1. h.owner[n.term] # None
    BY <1>4, ServerAssumption
  <2> QED
    BY <1>3, <1>4, <1>5, <1>7, <2>1, SealedLed
<1>9. k \in DOMAIN L /\ L[k] = c.entry
  BY <1>4, <1>5, <1>6, <1>8 DEF Agree
<1> QED
  BY <1>9 DEF k, L, n

LEMMA CommittedMeet == SafetyInv => CommittedOnce
<1> SUFFICES ASSUME SafetyInv, NEW c \in committed, NEW d \in committed,
                    c.entry.index = d.entry.index
             PROVE  c = d
  BY DEF CommittedOnce
<1> DEFINE k == c.entry.index
<1>1. PICK h : Tells(h)
  BY DEF SafetyInv, Told
<1>2. HistoryInv(h) /\ c \in CommitRecord /\ d \in CommitRecord /\ RecordsOnce
  BY <1>1 DEF Tells, SafetyInv, ElectionInv, VoteInv, TypeOK, Told
<1>3. k \in Nat /\ c.termUB \in Nat /\ d.termUB \in Nat /\ k # 0 /\ d.entry.index = k
  BY <1>1, <1>2 DEF CommitRecord, Entry, Tells, CommitTrue
<1>4. PICK a \in Seq(Entry) : Sealed(h, a, k, c.termUB) /\ a[k] = c.entry
  BY <1>1 DEF Tells, CommitTrue
<1> HIDE DEF k
<1>5. PICK b \in Seq(Entry) : Sealed(h, b, k, d.termUB) /\ b[k] = d.entry
  BY <1>1, <1>3 DEF Tells, CommitTrue
<1>6. Agree(b, a, k)
  <2>1. k <= k
    BY <1>3
  <2> QED
    BY <1>2, <1>3, <1>4, <1>5, <2>1, SealedMeet
<1>7. c.entry = d.entry
  BY <1>3, <1>4, <1>5, <1>6 DEF Agree
<1> QED
  BY <1>2, <1>7 DEF RecordsOnce

\* The application of a live server, as the history tells it.
LEMMA AppSealed ==
  ASSUME SafetyInv, NEW h, Tells(h), NEW i \in up
  PROVE  LET a == app[i] IN
         /\ a \in Seq(Entry) /\ Len(a) \in Nat /\ node[i].term \in Nat
         /\ Len(a) = node[i].commitIndex /\ node[i].lastApplied = node[i].commitIndex
         /\ Sealed(h, a, Len(a), node[i].term)
         /\ \A k \in 1 .. Len(a) : a[k].index = k /\ a[k] \in Vouchers
<1> DEFINE n == node[i]
           a == app[i]
<1>1. Resting(durable[i], h, Vouchers, a, n)
  BY DEF Tells
<1>2. /\ a \in Seq(Entry) /\ Len(a) = n.commitIndex /\ n.lastApplied = n.commitIndex
      /\ Sealed(h, a, Len(a), n.term) /\ Agree(a, FullLog(n), Len(a))
      /\ \A k \in 1 .. Len(a) : a[k] \in Vouchers
  BY <1>1, RestingApp
<1>3. /\ n.term \in Nat /\ h \in History /\ LedOK(h)
      /\ FullLog(n) \in Seq(Entry) /\ Rooted(h, FullLog(n))
  BY <1>1, GoodFacts, GoodBounds DEF Resting
<1> HIDE DEF n, a
<1>4. Rooted(h, a)
  BY <1>2, <1>3, RootedPart
<1>5. \A k \in 1 .. Len(a) : a[k].index = k
  BY <1>2, <1>3, <1>4, RootedTerms
<1>6. Len(a) \in Nat
  BY <1>2, LenProperties
<1> QED
  BY <1>2, <1>3, <1>5, <1>6 DEF n, a

LEMMA PrefixOfSealed ==
  ASSUME NEW h, HistoryInv(h), NEW a \in Seq(Entry), NEW b \in Seq(Entry),
         NEW u \in Nat, NEW w \in Nat, Len(a) \in Nat, Len(b) \in Nat, Len(a) <= Len(b),
         Sealed(h, a, Len(a), u), Sealed(h, b, Len(b), w)
  PROVE  IsPrefix(a, b)
<1> DEFINE j == Len(a)
           k == Len(b)
<1>1. j \in Nat /\ k \in Nat /\ j <= k /\ Sealed(h, a, j, u) /\ Sealed(h, b, k, w)
  OBVIOUS
<1> HIDE DEF j, k
<1>2. Agree(a, b, j)
  BY <1>1, SealedMeet
<1>3. SubSeq(a, 1, j) = SubSeq(b, 1, j)
  BY <1>1, <1>2, AgreePrefix
<1> QED
  BY <1>3 DEF IsPrefix, j

LEMMA AppsMeet == SafetyInv => StateMachineSafety
<1> SUFFICES ASSUME SafetyInv PROVE StateMachineSafety
  OBVIOUS
<1>1. PICK h : Tells(h)
  BY DEF SafetyInv, Told
<1>2. HistoryInv(h) /\ app \in [Server -> Seq(Entry)] /\ DownEmpty
  BY <1>1 DEF Tells, SafetyInv, ElectionInv, VoteInv, TypeOK, Told
<1>3. ASSUME NEW i \in Server, NEW j \in Server
      PROVE  IsPrefix(app[i], app[j]) \/ IsPrefix(app[j], app[i])
  <2> DEFINE a == app[i]
             b == app[j]
  <2>1. a \in Seq(Entry) /\ b \in Seq(Entry) /\ Len(a) \in Nat /\ Len(b) \in Nat
    BY <1>2, LenProperties
  <2>2. CASE i \in up /\ j \in up
    <3>1. /\ Sealed(h, a, Len(a), node[i].term) /\ node[i].term \in Nat
          /\ Sealed(h, b, Len(b), node[j].term) /\ node[j].term \in Nat
      BY <1>1, <2>2, AppSealed
    <3> HIDE DEF a, b
    <3>2. CASE Len(a) <= Len(b)
      <4>1. IsPrefix(a, b)
        BY <1>2, <2>1, <3>1, <3>2, PrefixOfSealed
      <4> QED
        BY <4>1 DEF a, b
    <3>3. CASE Len(b) <= Len(a)
      <4>1. IsPrefix(b, a)
        BY <1>2, <2>1, <3>1, <3>3, PrefixOfSealed
      <4> QED
        BY <4>1 DEF a, b
    <3> QED
      BY <2>1, <3>2, <3>3
  <2>3. ASSUME NEW x \in Seq(Entry) PROVE IsPrefix(<<>>, x)
    <3>1. SubSeq(<<>>, 1, 0) = <<>> /\ SubSeq(x, 1, 0) = <<>>
      BY SubSeqEmpty
    <3>2. Len(<<>>) = 0 /\ Len(x) \in Nat
      BY LenProperties
    <3>3. 0 <= Len(x)
      BY <3>2
    <3> QED
      BY <3>1, <3>2, <3>3 DEF IsPrefix
  <2>4. CASE i \notin up
    BY <1>2, <2>1, <2>3, <2>4 DEF DownEmpty
  <2>5. CASE j \notin up
    BY <1>2, <2>1, <2>3, <2>5 DEF DownEmpty
  <2> QED
    BY <2>2, <2>4, <2>5
<1>4. ASSUME NEW i \in Server, NEW k \in DOMAIN app[i]
      PROVE  app[i][k].index = k
  <2>1. i \in up
    BY <1>2 DEF DownEmpty
  <2> DEFINE a == app[i]
  <2>2. a \in Seq(Entry) /\ \A x \in 1 .. Len(a) : a[x].index = x
    BY <1>1, <2>1, AppSealed
  <2> HIDE DEF a
  <2>3. \A x \in DOMAIN a : a[x].index = x
    BY <2>2
  <2> QED
    BY <2>3 DEF a
<1> QED
  BY <1>3, <1>4 DEF StateMachineSafety

LEMMA AppsCommitted == SafetyInv => AppliedIsCommitted
<1> SUFFICES ASSUME SafetyInv, NEW i \in up
             PROVE  /\ Len(app[i]) = node[i].lastApplied
                    /\ \A k \in DOMAIN app[i] : \E c \in committed : c.entry = app[i][k]
  BY DEF AppliedIsCommitted
<1>1. PICK h : Tells(h)
  BY DEF SafetyInv, Told
<1> DEFINE a == app[i]
<1>2. /\ a \in Seq(Entry) /\ Len(a) = node[i].lastApplied
      /\ \A k \in 1 .. Len(a) : a[k] \in Vouchers
  BY <1>1, AppSealed
<1> HIDE DEF a
<1>3. \A k \in DOMAIN a : \E c \in committed : c.entry = a[k]
  BY <1>2 DEF Vouchers
<1> QED
  BY <1>2, <1>3 DEF a

LEMMA MatchesHeld == SafetyInv => MatchIsDurable
<1> SUFFICES ASSUME SafetyInv, NEW i \in LeadersUp, NEW s \in Server,
                    durable[s].term = node[i].term
             PROVE  /\ node[i].prs[s].match <= Len(DurableLog(s))
                    /\ SubSeq(DurableLog(s), 1, node[i].prs[s].match)
                         = SubSeq(FullLog(node[i]), 1, node[i].prs[s].match)
  BY DEF MatchIsDurable
<1> DEFINE n == node[i]
           k == n.prs[s].match
           L == FullLog(n)
           D == DurableLog(s)
<1>1. PICK h : Tells(h)
  BY DEF SafetyInv, Told
<1>2. i \in up /\ n.state = "Leader" /\ VoteInv
  BY DEF LeadersUp, SafetyInv, ElectionInv
<1>3. Good(durable[i], h, Vouchers, app[i], n) /\ HistoryInv(h) /\ h \in History
  BY <1>1, <1>2, UpRests
<1>4. L \in Seq(Entry) /\ Peers(h, n) /\ n.prs \in [Server -> Progress]
  BY <1>2, <1>3, GoodLeader, GoodFacts, GoodBounds
<1>5. k \in Nat
  <2>1. n.prs[s] \in Progress
    BY <1>4
  <2> QED
    BY <2>1, ProgressFields
<1>6. h.held[s][n.term] = D /\ D \in Seq(Entry)
  <2>1. h.term[s] = durable[s].term /\ Mine(h, s) = D
    BY <1>1 DEF Tells, StoreTrue, DurableLog
  <2> QED
    BY <1>3, <2>1, HistoryFields DEF Mine
<1>7. Agree(D, L, k)
  BY <1>4, <1>6 DEF Peers
<1> HIDE DEF n, k, L, D
<1>8. k <= Len(D) /\ SubSeq(D, 1, k) = SubSeq(L, 1, k)
  BY <1>4, <1>5, <1>6, <1>7, AgreePrefix DEF Agree
<1> QED
  BY <1>8 DEF n, k, L, D

LEMMA NothingPanics == SafetyInv => NoPanic
<1> SUFFICES ASSUME SafetyInv, NEW i \in Server PROVE ~node[i].panic
  BY DEF NoPanic, Running
<1>1. PICK h : Tells(h)
  BY DEF SafetyInv, Told
<1>2. CASE i \in up
  BY <1>1, <1>2 DEF Tells, Resting, Good, Core
<1>3. CASE i \notin up
  BY <1>3 DEF SafetyInv, Told, DownEmpty
<1> QED
  BY <1>2, <1>3

-----------------------------------------------------------------------------
(* The theorems *)

\* In every behaviour without membership changes there is, at any time, a
\* history that obeys the rules of Raft and of which every store, live node,
\* message in flight and record of the checker tells the truth.
THEOREM SafetyInvariant ==
  ASSUME ConfChanges = {}
  PROVE  Spec => []SafetyInv
<1>1. SafetyInv /\ [Next]_vars => SafetyInv'
  BY NextSafety, StutterSafety
<1> QED
  BY InitSafetyInv, <1>1, PTL DEF Spec

\* Logs on disk that have an entry of one term at one index are equal up to
\* it, through every truncation, compaction and installed snapshot.
THEOREM LogsMatch ==
  ASSUME ConfChanges = {}
  PROVE  Spec => []LogMatching
BY SafetyInvariant, StoresMatch, PTL

\* A leader has every entry that was seen committed in an earlier term, in its
\* log or below its snapshot.
THEOREM LeadersAreComplete ==
  ASSUME ConfChanges = {}
  PROVE  Spec => []LeaderCompleteness
BY SafetyInvariant, LeadersComplete, PTL

\* No two different entries are ever committed at one index, by any counting
\* of acknowledgements, any commit index in a message and any snapshot.
THEOREM NothingCommittedTwice ==
  ASSUME ConfChanges = {}
  PROVE  Spec => []CommittedOnce
BY SafetyInvariant, CommittedMeet, PTL

\* The applications of any two servers have applied the same entries as far as
\* both have got, every index once, through snapshots, crashes and replay.
THEOREM ApplicationsAgree ==
  ASSUME ConfChanges = {}
  PROVE  Spec => []StateMachineSafety
BY SafetyInvariant, AppsMeet, PTL

\* The application of a live server is at lastApplied, and every entry it has
\* was seen committed.
THEOREM AppliedWasCommitted ==
  ASSUME ConfChanges = {}
  PROVE  Spec => []AppliedIsCommitted
BY SafetyInvariant, AppsCommitted, PTL

\* What a leader counts for a follower (Progress.Match) is on that follower's
\* disk for as long as it stays in the term: acknowledgements follow the fsync.
THEOREM CountedIsDurable ==
  ASSUME ConfChanges = {}
  PROVE  Spec => []MatchIsDurable
BY SafetyInvariant, MatchesHeld, PTL

\* None of the panics of raft/ and storage/ is ever reached: no gap in what is
\* persisted, no snapshot beyond what is applied, no entry below a compacted
\* log asked for.
THEOREM NeverPanics ==
  ASSUME ConfChanges = {}
  PROVE  Spec => []NoPanic
BY SafetyInvariant, NothingPanics, PTL

\* While a server stays up, its commit index and its application only grow:
\* no truncation and no snapshot takes back what was applied.
THEOREM CommitsNeverFall ==
  ASSUME ConfChanges = {}
  PROVE  Spec => CommitsStand
<1> DEFINE A == \A i \in up \cap up' :
                  /\ node[i].commitIndex <= node'[i].commitIndex
                  /\ IsPrefix(app[i], app'[i])
<1>1. SafetyInv /\ [Next]_vars => [A]_vars
  BY NextSafety, StutterSafety DEF Onward
<1>2. Spec => []SafetyInv
  BY SafetyInvariant
<1> QED
  BY <1>1, <1>2, PTL DEF Spec, CommitsStand

-----------------------------------------------------------------------------
(* The committed entries as a sequence *)

\* The entries of R stand at the indexes up to some K, without a gap.
Gapless(R) ==
  \E K \in Nat :
    /\ \A e \in R : e.index \in 1 .. K
    /\ \A k \in 1 .. K : \E e \in R : e.index = k

\* The sequence s lists R by index.
Lists(s, R) ==
  /\ s \in Seq(Entry)
  /\ \A k \in 1 .. Len(s) : s[k] \in R /\ s[k].index = k
  /\ \A e \in R : e.index \in 1 .. Len(s) /\ s[e.index] = e

\* The sequence a holds entries of R, each at its index.
Within(a, R) ==
  a \in Seq(Entry) /\ \A k \in 1 .. Len(a) : a[k] \in R /\ a[k].index = k

LEMMA CommittedListed ==
  ASSUME SafetyInv, Gapless(Vouchers)
  PROVE  Lists(CommittedLog, Vouchers)
<1>1. PICK K \in Nat :
        /\ \A e \in Vouchers : e.index \in 1 .. K
        /\ \A k \in 1 .. K : \E e \in Vouchers : e.index = k
  BY DEF Gapless
<1>2. CommittedOnce /\ \A c \in committed : c.entry \in Entry
  BY CommittedMeet DEF SafetyInv, ElectionInv, VoteInv, TypeOK, CommitRecord
<1> DEFINE At(k) == CHOOSE c \in committed : c.entry.index = k
           f == [k \in 1 .. K |-> At(k)]
<1>3. \A k \in 1 .. K : At(k) \in committed /\ At(k).entry.index = k
  <2> SUFFICES ASSUME NEW k \in 1 .. K PROVE At(k) \in committed /\ At(k).entry.index = k
    OBVIOUS
  <2>1. \E c \in committed : c.entry.index = k
    BY <1>1 DEF Vouchers
  <2> QED
    BY <2>1
<1> HIDE DEF At
<1>4. \A c \in committed : c.entry.index \in 1 .. K /\ At(c.entry.index) = c
  <2> SUFFICES ASSUME NEW c \in committed
               PROVE  c.entry.index \in 1 .. K /\ At(c.entry.index) = c
    OBVIOUS
  <2>1. c.entry.index \in 1 .. K
    BY <1>1 DEF Vouchers
  <2> QED
    BY <1>2, <1>3, <2>1 DEF CommittedOnce
<1>5. f \in Bijection(1 .. K, committed)
  <2>1. f \in [1 .. K -> committed] /\ \A k \in 1 .. K : f[k] = At(k)
    BY <1>3
  <2> HIDE DEF f
  <2>2. IsInjective(f)
    BY <1>3, <2>1 DEF IsInjective
  <2>3. \A c \in committed : \E k \in 1 .. K : f[k] = c
    BY <1>4, <2>1
  <2> QED
    BY <2>1, <2>2, <2>3 DEF Bijection, Injection, Surjection
<1> HIDE DEF f
<1>6. Cardinality(committed) = K
  <2>1. IsFiniteSet(1 .. K) /\ Cardinality(1 .. K) = K
    <3>1. 1 \in Int /\ K \in Int
      OBVIOUS
    <3>2. IsFiniteSet(1 .. K) /\ Cardinality(1 .. K) = IF 1 > K THEN 0 ELSE K - 1 + 1
      BY <3>1, FS_Interval
    <3> QED
      BY <3>2
  <2>2. ExistsBijection(1 .. K, committed)
    BY <1>5 DEF ExistsBijection
  <2> QED
    BY <2>1, <2>2, FS_Bijection
<1> DEFINE s == [k \in 1 .. K |-> At(k).entry]
<1>7. CommittedLog = s
  BY <1>6, Zenon DEF CommittedLog, At
<1>8. s \in Seq(Entry)
  BY <1>2, <1>3, IsASeq
<1>9. DOMAIN s = 1 .. K /\ \A k \in 1 .. K : s[k] = At(k).entry
  OBVIOUS
<1> HIDE DEF s
<1>10. Len(s) = K
  <2>1. Len(s) \in Nat /\ 1 .. Len(s) = 1 .. K
    BY <1>8, <1>9, LenProperties
  <2> QED
    BY <2>1
<1>11. \A k \in 1 .. Len(s) : s[k] \in Vouchers /\ s[k].index = k
  BY <1>3, <1>9, <1>10 DEF Vouchers
<1>12. \A e \in Vouchers : e.index \in 1 .. Len(s) /\ s[e.index] = e
  BY <1>4, <1>9, <1>10 DEF Vouchers
<1> QED
  BY <1>7, <1>8, <1>11, <1>12 DEF Lists

\* What is within a list is a prefix of it.
LEMMA WithinPrefix ==
  ASSUME NEW s, NEW R, Lists(s, R), NEW a, Within(a, R)
  PROVE  Len(a) \in Nat /\ Len(a) <= Len(s) /\ a = SubSeq(s, 1, Len(a))
<1>1. /\ s \in Seq(Entry) /\ a \in Seq(Entry) /\ Len(s) \in Nat /\ Len(a) \in Nat
  BY LenProperties DEF Lists, Within
<1>2. \A k \in 1 .. Len(a) : k \in 1 .. Len(s) /\ s[k] = a[k]
  BY DEF Lists, Within
<1>3. Len(a) <= Len(s)
  <2>1. Len(a) = 0 \/ Len(a) \in 1 .. Len(a)
    BY <1>1
  <2> QED
    BY <1>1, <1>2, <2>1
<1>4. Agree(a, s, Len(a))
  BY <1>1, <1>2, <1>3 DEF Agree
<1>5. SubSeq(a, 1, Len(a)) = SubSeq(s, 1, Len(a)) /\ SubSeq(a, 1, Len(a)) = a
  BY <1>1, <1>4, AgreePrefix, SubSeqFull
<1> QED
  BY <1>1, <1>3, <1>5

\* The longer list continues the shorter one.
LEMMA ListGrows ==
  ASSUME NEW s, NEW R, Lists(s, R), NEW t, NEW S, Lists(t, S), R \subseteq S
  PROVE  LET new == SubSeq(t, Len(s) + 1, Len(t)) IN
         /\ new \in Seq(Entry) /\ t = s \o new
         /\ Len(s) \in Nat /\ Len(t) \in Nat /\ Len(s) <= Len(t)
<1>1. /\ s \in Seq(Entry) /\ t \in Seq(Entry) /\ Len(s) \in Nat /\ Len(t) \in Nat
  BY LenProperties DEF Lists
<1>2. Within(s, S)
  BY DEF Within, Lists
<1>3. Len(s) <= Len(t) /\ s = SubSeq(t, 1, Len(s))
  BY <1>2, WithinPrefix
<1> DEFINE j == Len(s) + 1
           new == SubSeq(t, j, Len(t))
<1>4. j \in 1 .. Len(t) + 1 /\ j - 1 = Len(s) /\ j \in Nat \ {0} /\ Len(t) \in Int
      /\ Len(t) <= Len(t)
  BY <1>1, <1>3
<1>5. \A k \in 1 .. j - 1 : s[k] = t[k]
  <2> SUFFICES ASSUME NEW k \in 1 .. Len(s) PROVE s[k] = t[k]
    BY <1>4
  <2>1. s[k] \in S /\ s[k].index = k
    BY DEF Lists
  <2>2. t[s[k].index] = s[k]
    BY <2>1 DEF Lists
  <2> QED
    BY <2>1, <2>2
<1> HIDE DEF j
<1>6. SubSeq(s, 1, j - 1) \o new = t
  <2>1. j - 1 <= Len(s)
    BY <1>1, <1>4
  <2> QED
    BY <1>1, <1>4, <1>5, <2>1, TailReplaced, Zenon
<1>7. SubSeq(s, 1, j - 1) = s
  BY <1>1, <1>4, SubSeqFull
<1>8. new \in Seq(Entry)
  BY <1>1, <1>4, PartFields
<1> QED
  BY <1>1, <1>3, <1>6, <1>7, <1>8 DEF j

\* Newly committed entries leave no gap when everything before them is there.
LEMMA GaplessGrows ==
  ASSUME NEW R, Gapless(R), NEW S, R \subseteq S, NEW c \in Nat,
         \A e \in S : e \in R \/ e.index \in 1 .. c,
         \A k \in 1 .. c : \E e \in S : e.index = k
  PROVE  Gapless(S)
<1>1. PICK K \in Nat :
        /\ \A e \in R : e.index \in 1 .. K
        /\ \A k \in 1 .. K : \E e \in R : e.index = k
  BY DEF Gapless
<1> DEFINE M == IF K <= c THEN c ELSE K
<1>2. /\ M \in Nat
      /\ \A x \in 1 .. K : x \in 1 .. M
      /\ \A x \in 1 .. c : x \in 1 .. M
      /\ \A x \in 1 .. M : x \in 1 .. K \/ x \in 1 .. c
  OBVIOUS
<1> HIDE DEF M
<1>3. \A e \in S : e.index \in 1 .. M
  BY <1>1, <1>2
<1>4. \A k \in 1 .. M : \E e \in S : e.index = k
  BY <1>1, <1>2
<1> QED
  BY <1>2, <1>3, <1>4 DEF Gapless

-----------------------------------------------------------------------------
(* The state of the cluster as one of the replicated log *)

\* Applications and snapshots are within what is committed, and a live
\* server's snapshot is not ahead of its application.
Fits ==
  /\ Lists(CommittedLog, Vouchers)
  /\ \A i \in Server :
       /\ Within(app[i], Vouchers) /\ Within(durable[i].snap.data, Vouchers)
       /\ Len(durable[i].snap.data) = durable[i].snap.index
       /\ i \in up => durable[i].snap.index <= Len(app[i])

LEMMA SnapshotWithin ==
  ASSUME SafetyInv, NEW i \in Server
  PROVE  LET s == durable[i].snap IN
         Within(s.data, Vouchers) /\ Len(s.data) = s.index /\ s.index \in Nat
<1> DEFINE d == durable[i]
           s == d.snap
           b == s.data \o d.entries
<1>1. PICK h : Tells(h)
  BY DEF SafetyInv, Told
<1>2. /\ HistoryInv(h) /\ h \in History /\ LedOK(h) /\ StoreTrue(h, Vouchers, i, d)
      /\ d \in Durable
  BY <1>1 DEF Tells, HistoryInv, SafetyInv, ElectionInv, VoteInv, TypeOK
<1>3. /\ s \in Snapshot /\ s.index \in Nat /\ s.data \in Seq(Entry) /\ d.entries \in Seq(Entry)
  BY <1>2, SnapshotFields DEF Durable
<1>4. b = Mine(h, i) /\ Len(s.data) = s.index /\ Vouched(Vouchers, s)
  BY <1>2 DEF StoreTrue, Covers
<1>5. b \in Seq(Entry) /\ Rooted(h, b)
  BY <1>2, <1>4, MineRooted
<1>6. \A k \in 1 .. Len(s.data) : k \in 1 .. Len(b) /\ b[k] = s.data[k]
  <2> DEFINE a == s.data
             t == d.entries
  <2>1. a \in Seq(Entry) /\ t \in Seq(Entry) /\ Len(a) \in Nat /\ Len(t) \in Nat
    BY <1>3, LenProperties
  <2>2. /\ Len(a \o t) = Len(a) + Len(t)
        /\ \A k \in 1 .. Len(a) + Len(t) : (a \o t)[k] = IF k <= Len(a) THEN a[k] ELSE t[k - Len(a)]
    BY <2>1, ConcatProperties
  <2> HIDE DEF a, t
  <2>3. \A k \in 1 .. Len(a) : k \in 1 .. Len(a \o t) /\ (a \o t)[k] = a[k]
    BY <2>1, <2>2
  <2> QED
    BY <2>3 DEF a, t
<1> HIDE DEF b
<1>7. \A k \in 1 .. Len(s.data) : s.data[k].index = k
  <2> SUFFICES ASSUME NEW k \in 1 .. Len(s.data) PROVE s.data[k].index = k
    OBVIOUS
  <2>1. k \in 1 .. Len(b) /\ b[k] = s.data[k]
    BY <1>6
  <2>2. b[k].index = k
    BY <1>2, <1>5, <2>1, RootedTerms
  <2> QED
    BY <2>1, <2>2
<1> QED
  BY <1>3, <1>4, <1>7 DEF Within, Vouched

LEMMA StateFits ==
  ASSUME SafetyInv, Gapless(Vouchers)
  PROVE  Fits
<1>1. PICK h : Tells(h)
  BY DEF SafetyInv, Told
<1>2. ASSUME NEW i \in Server PROVE Within(app[i], Vouchers)
  <2>1. CASE i \in up
    BY <1>1, <2>1, AppSealed DEF Within
  <2>2. CASE i \notin up
    <3>1. app[i] = <<>>
      BY <2>2 DEF SafetyInv, Told, DownEmpty
    <3>2. <<>> \in Seq(Entry) /\ Len(<<>>) = 0
      BY EmptySeq
    <3> QED
      BY <3>1, <3>2 DEF Within
  <2> QED
    BY <2>1, <2>2
<1>3. ASSUME NEW i \in up PROVE durable[i].snap.index <= Len(app[i])
  <2>1. /\ i \in Server /\ Good(durable[i], h, Vouchers, app[i], node[i])
    BY <1>1, UpRests DEF SafetyInv, ElectionInv
  <2>2. durable[i].snap.index = node[i].log.snapIndex
    BY <2>1, TracksAdvanced DEF Good
  <2>3. node[i].log.snapIndex <= node[i].commitIndex
    BY <2>1, GoodBounds
  <2>4. Len(app[i]) = node[i].commitIndex
    BY <1>1, AppSealed
  <2> QED
    BY <2>2, <2>3, <2>4
<1> QED
  BY <1>2, <1>3, CommittedListed, SnapshotWithin DEF Fits

-----------------------------------------------------------------------------
(* What an event does to that state *)

\* Server i runs on, after a step that changes what it has applied and saved.
Runs(i) == i \in up /\ up' = up /\ Len(app[i]) <= Len(app'[i])

\* It stops; the step may have come as far as its first fsync.
Stops(i) == i \in up /\ up' = up \ {i} /\ app' = [app EXCEPT ![i] = <<>>]

Restarts(i) ==
  /\ i \in Server \ up /\ up' = up \cup {i}
  /\ app' = [app EXCEPT ![i] = durable[i].snap.data]
  /\ UNCHANGED <<durable, committed>>

\* An event of server i, as far as the replicated log is concerned.
Effect(i) ==
  /\ app' = [app EXCEPT ![i] = app'[i]]
  /\ durable' = [durable EXCEPT ![i] = durable'[i]]
  /\ durable[i].snap.index <= durable'[i].snap.index
  /\ Vouchers \subseteq Vouchers' /\ Gapless(Vouchers')
  /\ Runs(i) \/ Stops(i) \/ Restarts(i)

\* The snapshot of a step that has applied enough is newer than the last one.
LEMMA SecondAdvances ==
  ASSUME NEW d, NEW h, NEW R, NEW a, NEW n, Final(d, h, R, a, n), StoredByIndex(d),
         NEW b \in Seq(Entry),
         NEW e, e = ApplyPersist(d, PersistOf(n)), NEW m, m = Synced(n, d),
         NEW s, s = CreateSnapshot(m, m.lastApplied, b),
         NEW f, f = ApplyPersist(e, PersistOf(s))
  PROVE  d.snap.index <= e.snap.index /\ d.snap.index <= f.snap.index
<1>1. /\ n \in Node /\ Shape(n) /\ d \in Durable /\ ~n.panic /\ Ready(d, n) /\ Advanced(d, n)
  BY DEF Final, Ready, Core
<1>2. Saved(e, n) /\ ~Discontinuous(d, PersistOf(n))
  BY <1>1, PersistSaves DEF Ready
<1>3. /\ m.log = n.log /\ m.lastApplied = n.lastApplied /\ m.snapDirty = "none" /\ m \in Node
  BY <1>1, <1>2, SyncedFields
<1>4. e.snap = n.snapshot /\ e.snap.index = n.log.snapIndex /\ d.snap.index <= e.snap.index
  BY <1>1, <1>2 DEF Saved, Shape, Advanced
<1>5. d.snap.index \in Nat /\ e.snap.index \in Nat /\ m.lastApplied \in Nat
  BY <1>1, <1>3, <1>4, SnapshotFields, NodeFields, LogFields DEF Durable
<1>6. f.snap = IF s.snapDirty = "none" THEN e.snap ELSE s.snapshot
  BY DEF ApplyPersist, PersistOf
<1>7. CASE m.lastApplied <= m.log.snapIndex
  <2>1. s = m
    BY <1>7, Zenon DEF CreateSnapshot
  <2> QED
    BY <1>3, <1>4, <1>6, <2>1
<1>8. CASE ~(m.lastApplied <= m.log.snapIndex)
  <2>1. s.snapDirty = "keep" /\ s.snapshot.index = m.lastApplied
    BY <1>3, <1>8 DEF CreateSnapshot, Node
  <2>2. m.log.snapIndex <= m.lastApplied
    <3>1. m.log.snapIndex \in Nat
      BY <1>3, NodeFields, LogFields
    <3> QED
      BY <1>5, <1>8, <3>1
  <2> QED
    BY <1>3, <1>4, <1>5, <1>6, <2>1, <2>2
<1> QED
  BY <1>7, <1>8

\* What a finished step is seen to have committed continues what was.
LEMMA ReleaseGapless ==
  ASSUME TypeOK, RecordsOnce, Gapless(Vouchers),
         NEW d, NEW g, NEW a, NEW n, Final(d, g, Vouchers, a, n),
         committed' = RecordCommitted(n)
  PROVE  Vouchers \subseteq Vouchers' /\ Gapless(Vouchers')
<1> DEFINE L == FullLog(n)
           c == n.commitIndex
           b == AppAfter(a, n)
           R == Vouchers
           S == Vouchers'
<1>1. /\ n \in Node /\ Shape(n) /\ Covers(n.snapshot) /\ L \in Seq(Entry) /\ Len(L) \in Nat
      /\ g \in History /\ LedOK(g) /\ Rooted(g, L) /\ c \in Nat /\ c <= Len(L)
      /\ n.log.snapIndex \in Nat
  BY FinalFacts
<1>2. R \subseteq S /\ CommittedEntries(n) \subseteq S
  BY ReleaseRecords
<1>3. \A e \in S : e \in R \/ e \in CommittedEntries(n)
  <2> SUFFICES ASSUME NEW x \in committed' PROVE x.entry \in R \/ x.entry \in CommittedEntries(n)
    BY DEF Vouchers
  <2>1. x \in RecordCommitted(n)
    OBVIOUS
  <2>2. x \in committed \/ \E e \in CommittedEntries(n) : x = [entry |-> e, termUB |-> n.term]
    BY <1>1, <2>1, RecordsKept
  <2> QED
    BY <2>2 DEF Vouchers
<1>4. \A e \in CommittedEntries(n) : \E k \in n.log.snapIndex + 1 .. c : e = L[k]
  BY <1>1, CommittedSeen
<1>5. \A k \in 1 .. Len(L) : L[k].index = k
  BY <1>1, RootedTerms
<1> HIDE DEF R, S
<1>6. \A k \in 1 .. c : L[k] \in S
  <2>1. /\ b \in Seq(Entry) /\ Len(b) = c
        /\ \A k \in 1 .. Len(b) : b[k] = L[k] /\ b[k] \in S
    BY <1>2, AppliedSeen DEF R
  <2> HIDE DEF b, L, c
  <2> QED
    BY <2>1
<1> HIDE DEF L, c
<1>7. \A e \in S : e \in R \/ e.index \in 1 .. c
  <2> SUFFICES ASSUME NEW e \in CommittedEntries(n) PROVE e.index \in 1 .. c
    BY <1>3
  <2>1. PICK k \in n.log.snapIndex + 1 .. c : e = L[k]
    BY <1>4
  <2>2. k \in 1 .. c /\ k \in 1 .. Len(L)
    BY <1>1, <2>1
  <2> QED
    BY <1>5, <2>1, <2>2
<1>8. \A k \in 1 .. c : k \in 1 .. Len(L) /\ L[k].index = k
  BY <1>1, <1>5
<1>9. Gapless(R)
  BY DEF R
<1>10. Gapless(S)
  BY <1>1, <1>2, <1>6, <1>7, <1>8, <1>9, GaplessGrows
<1> QED
  BY <1>2, <1>10 DEF R, S

\* A crash between the steps.
LEMMA CrashEffect ==
  ASSUME TypeOK, Gapless(Vouchers), NEW i \in up, CrashServer(i),
         UNCHANGED <<durable, net, leaders, committed>>
  PROVE  i \in Server /\ Effect(i)
<1>1. /\ i \in Server /\ durable \in [Server -> Durable] /\ app \in [Server -> Seq(Entry)]
      /\ app' = [app EXCEPT ![i] = <<>>] /\ up' = up \ {i}
      /\ durable' = durable /\ committed' = committed
  BY DEF CrashServer, TypeOK
<1>2. durable' = [durable EXCEPT ![i] = durable'[i]] /\ app' = [app EXCEPT ![i] = app'[i]]
  BY <1>1
<1>3. durable[i].snap.index \in Nat
  BY <1>1, SnapshotFields DEF Durable
<1>4. Vouchers' = Vouchers
  BY <1>1 DEF Vouchers
<1>5. durable[i].snap.index <= durable'[i].snap.index
  BY <1>1, <1>3
<1>6. Gapless(Vouchers') /\ Vouchers \subseteq Vouchers'
  BY <1>4
<1> QED
  BY <1>1, <1>2, <1>5, <1>6 DEF Effect, Stops

LEMMA RestartEffect ==
  ASSUME TypeOK, Gapless(Vouchers), NEW i \in Server, Restart(i)
  PROVE  Effect(i)
<1>1. /\ durable \in [Server -> Durable] /\ app \in [Server -> Seq(Entry)]
      /\ app' = [app EXCEPT ![i] = durable[i].snap.data] /\ up' = up \cup {i}
      /\ i \in Server \ up /\ durable' = durable /\ committed' = committed
  BY DEF Restart, TypeOK
<1>2. durable' = [durable EXCEPT ![i] = durable'[i]] /\ app' = [app EXCEPT ![i] = app'[i]]
  BY <1>1
<1>3. durable[i].snap.index \in Nat
  BY <1>1, SnapshotFields DEF Durable
<1>4. Vouchers' = Vouchers
  BY <1>1 DEF Vouchers
<1>5. durable[i].snap.index <= durable'[i].snap.index
  BY <1>1, <1>3
<1>6. Gapless(Vouchers') /\ Vouchers \subseteq Vouchers'
  BY <1>4
<1> QED
  BY <1>1, <1>2, <1>5, <1>6 DEF Effect, Restarts

\* A step of a server, whatever becomes of its output.
LEMMA HandledEffect ==
  ASSUME VoteInv, DurabilityInv, Told, Gapless(Vouchers), NEW h, Tells(h), NEW i \in up,
         NEW n, Handles(h, i, n)
  PROVE  i \in Server /\ Effect(i)
<1> DEFINE o == durable[i]
           d == ApplyPersist(o, PersistOf(n))
           m == Synced(n, o)
           a == AppAfter(app[i], n)
           s == CreateSnapshot(m, m.lastApplied, a)
           e == ApplyPersist(d, PersistOf(s))
           q == Synced(s, d)
<1>1. /\ i \in Server /\ o \in Durable /\ StoredByIndex(o) /\ TypeOK /\ RecordsOnce
      /\ durable \in [Server -> Durable] /\ app \in [Server -> Seq(Entry)]
      /\ up \in SUBSET Server /\ Resting(o, h, Vouchers, app[i], node[i])
  BY DEF VoteInv, TypeOK, DurabilityInv, GoodStore, Told, Tells
<1>2. PICK g : g \in History /\ Grows(h, g, i) /\ Final(o, g, Vouchers, app[i], n)
  BY DEF Handles, Ended
<1>3. IsPrefix(app[i], a)
  BY <1>1, <1>2, StepOnward
<1>4. a \in Seq(Entry) /\ Len(app[i]) <= Len(a)
  <2> DEFINE R == Vouchers
             T == R \cup CommittedEntries(n)
  <2>1. R \subseteq T /\ CommittedEntries(n) \subseteq T
    OBVIOUS
  <2> HIDE DEF T, R
  <2>2. a \in Seq(Entry)
    BY <1>2, <2>1, AppliedSeen DEF R
  <2> QED
    BY <1>3, <2>2 DEF IsPrefix
<1> HIDE DEF a
<1>5. o.snap.index <= d.snap.index /\ o.snap.index <= e.snap.index
  <2>1. /\ d = ApplyPersist(o, PersistOf(n)) /\ m = Synced(n, o)
        /\ s = CreateSnapshot(m, m.lastApplied, a) /\ e = ApplyPersist(d, PersistOf(s))
    OBVIOUS
  <2> HIDE DEF d, m, s, e, o
  <2> QED
    BY <1>1, <1>2, <1>4, <2>1, SecondAdvances
<1> HIDE DEF d, m, s, e, q
<1>6. CASE FsyncCrash(i, n)
  BY <1>1, <1>6, CrashEffect DEF FsyncCrash
<1>7. ASSUME NEW x, o.snap.index <= x.snap.index, Release(i, n, x)
      PROVE  /\ durable' = [durable EXCEPT ![i] = durable'[i]]
             /\ durable[i].snap.index <= durable'[i].snap.index
             /\ Vouchers \subseteq Vouchers' /\ Gapless(Vouchers')
  <2>1. committed' = RecordCommitted(n) /\ durable' = [durable EXCEPT ![i] = x]
    BY <1>7 DEF Release
  <2>2. durable' = [durable EXCEPT ![i] = durable'[i]] /\ durable'[i] = x
    BY <1>1, <2>1
  <2>3. Vouchers \subseteq Vouchers' /\ Gapless(Vouchers')
    BY <1>1, <1>2, <2>1, ReleaseGapless
  <2> QED
    BY <1>7, <2>2, <2>3
<1>8. ASSUME NEW x, o.snap.index <= x.snap.index, Release(i, n, x),
             app' = [app EXCEPT ![i] = a], UNCHANGED up
      PROVE  Effect(i)
  <2>1. app' = [app EXCEPT ![i] = app'[i]] /\ app'[i] = a
    BY <1>1, <1>8
  <2>2. Runs(i)
    BY <1>4, <1>8, <2>1 DEF Runs
  <2> QED
    BY <1>7, <1>8, <2>1, <2>2 DEF Effect
<1>9. CASE Release(i, n, d) /\ app' = [app EXCEPT ![i] = a] /\ UNCHANGED up
  BY <1>1, <1>5, <1>8, <1>9
<1>10. CASE Release(i, n, e) /\ app' = [app EXCEPT ![i] = a] /\ UNCHANGED up
  BY <1>1, <1>5, <1>8, <1>10
<1>11. CASE Release(i, n, d) /\ CrashServer(i)
  <2>1. app' = [app EXCEPT ![i] = <<>>] /\ up' = up \ {i}
    BY <1>11 DEF CrashServer
  <2>2. app' = [app EXCEPT ![i] = app'[i]]
    BY <1>1, <2>1
  <2>3. Stops(i)
    BY <2>1 DEF Stops
  <2> QED
    BY <1>1, <1>5, <1>7, <1>11, <2>2, <2>3 DEF Effect
<1>12. \/ FsyncCrash(i, n)
       \/ Release(i, n, d) /\ app' = [app EXCEPT ![i] = a] /\ UNCHANGED up
       \/ Release(i, n, e) /\ app' = [app EXCEPT ![i] = a] /\ UNCHANGED up
       \/ Release(i, n, d) /\ CrashServer(i)
  BY Zenon DEF Handles, HandleOutput, Complete, d, m, s, e, a, o
<1>13. Effect(i)
  BY <1>6, <1>9, <1>10, <1>11, <1>12
<1> QED
  BY <1>1, <1>13

LEMMA EventEffect ==
  ASSUME ConfChanges = {}, SafetyInv, Gapless(Vouchers), Next
  PROVE  \E i \in Server : Effect(i)
<1>1. /\ ElectionInv /\ DurabilityInv /\ VoteInv /\ TypeOK /\ Told
  BY DEF SafetyInv, ElectionInv, VoteInv
<1>2. PICK h : Tells(h)
  BY <1>1 DEF Told
<1>3. ASSUME NEW i \in Server, Crash(i) PROVE Effect(i)
  BY <1>1, <1>3, CrashEffect DEF Crash
<1>4. ASSUME NEW i \in Server, Restart(i) PROVE Effect(i)
  BY <1>1, <1>4, RestartEffect
<1>5. ASSUME NEW i \in up, NEW n, Handles(h, i, n) PROVE i \in Server /\ Effect(i)
  BY <1>1, <1>2, <1>5, HandledEffect
<1> QED
  BY <1>1, <1>2, <1>3, <1>4, <1>5, EventHandles DEF Handled

-----------------------------------------------------------------------------
(* The refinement *)

\* Before and after an event, with the new parts of the abstract state taken
\* from the longer list.
LEMMA EffectParts ==
  ASSUME TypeOK, Fits, Fits', NEW i \in Server, Effect(i)
  PROVE  LET l == CommittedLog
             t == CommittedLog'
             saved == [j \in Server |-> durable[j].snap.data]
             savedNext == [j \in Server |-> durable'[j].snap.data]
             k == Len(app'[i])
             s == Len(savedNext[i])
         IN  /\ Abstract!Growth \in Seq(Entry) /\ t = l \o Abstract!Growth
             /\ k \in 0 .. Len(t) /\ s \in 0 .. Len(t)
             /\ Len(saved[i]) <= s /\ (i \in up' => s <= k)
             /\ app' = [app EXCEPT ![i] = SubSeq(t, 1, k)]
             /\ savedNext = [saved EXCEPT ![i] = SubSeq(t, 1, s)]
<1> DEFINE l == CommittedLog
           t == CommittedLog'
           x == durable[i].snap
           y == durable'[i].snap
           saved == [j \in Server |-> durable[j].snap.data]
           savedNext == [j \in Server |-> durable'[j].snap.data]
<1>1. /\ Lists(l, Vouchers) /\ Lists(t, Vouchers') /\ Within(app'[i], Vouchers')
      /\ Within(y.data, Vouchers') /\ Len(y.data) = y.index
      /\ (i \in up' => y.index <= Len(app'[i]))
      /\ Len(x.data) = x.index
  BY DEF Fits
<1>2. /\ app' = [app EXCEPT ![i] = app'[i]] /\ durable' = [durable EXCEPT ![i] = durable'[i]]
      /\ x.index <= y.index /\ Vouchers \subseteq Vouchers'
  BY DEF Effect
<1>3. durable \in [Server -> Durable] /\ app \in [Server -> Seq(Entry)]
  BY DEF TypeOK
<1>4. saved[i] = x.data /\ savedNext[i] = y.data
  OBVIOUS
<1>5. savedNext = [saved EXCEPT ![i] = y.data]
  BY <1>2, <1>3
<1> HIDE DEF l, t, x, y, saved, savedNext
<1>6. /\ SubSeq(t, Len(l) + 1, Len(t)) \in Seq(Entry)
      /\ t = l \o SubSeq(t, Len(l) + 1, Len(t)) /\ Len(l) \in Nat /\ Len(t) \in Nat
  BY <1>1, <1>2, ListGrows
<1>7. Abstract!Growth = SubSeq(t, Len(l) + 1, Len(t))
  BY DEF Abstract!Growth, l, t
<1>8. Len(app'[i]) \in Nat /\ Len(app'[i]) <= Len(t) /\ app'[i] = SubSeq(t, 1, Len(app'[i]))
  BY <1>1, WithinPrefix
<1>9. Len(y.data) \in Nat /\ Len(y.data) <= Len(t) /\ y.data = SubSeq(t, 1, Len(y.data))
  BY <1>1, WithinPrefix
<1>10. Len(app'[i]) \in 0 .. Len(t) /\ Len(y.data) \in 0 .. Len(t)
  BY <1>6, <1>8, <1>9
<1>11. /\ app' = [app EXCEPT ![i] = SubSeq(t, 1, Len(app'[i]))]
       /\ savedNext = [saved EXCEPT ![i] = SubSeq(t, 1, Len(y.data))]
  BY <1>2, <1>5, <1>8, <1>9
<1> QED
  BY <1>1, <1>2, <1>4, <1>6, <1>7, <1>10, <1>11 DEF l, t, saved, savedNext

LEMMA EffectMaps ==
  ASSUME TypeOK, Fits, Fits', NEW i \in Server, Effect(i)
  PROVE  Abstract!Next
<1> DEFINE l == CommittedLog
           t == CommittedLog'
           saved == [j \in Server |-> durable[j].snap.data]
           savedNext == [j \in Server |-> durable'[j].snap.data]
           w == Abstract!Growth
           Parts(k, s) ==
             /\ k \in 0 .. Len(t) /\ s \in 0 .. Len(t)
             /\ k = Len(app'[i]) /\ w \in Seq(Entry) /\ t = l \o w
             /\ Len(saved[i]) <= s /\ (i \in up' => s <= k)
             /\ app' = [app EXCEPT ![i] = SubSeq(t, 1, k)]
             /\ savedNext = [saved EXCEPT ![i] = SubSeq(t, 1, s)]
<1>0. Parts(Len(app'[i]), Len(savedNext[i]))
  BY EffectParts
<1>1. PICK k, s : Parts(k, s)
  <2>1. \E k, s : k = Len(app'[i]) /\ s = Len(savedNext[i])
    OBVIOUS
  <2>2. PICK k, s : k = Len(app'[i]) /\ s = Len(savedNext[i])
    BY <2>1
  <2>3. Parts(k, s)
    BY <1>0, <2>2
  <2> HIDE DEF Parts
  <2> QED
    BY <2>3
<1>2. Len(saved[i]) \in Nat /\ Len(app[i]) \in Nat /\ Len(t) \in Nat
  <2>1. Within(durable[i].snap.data, Vouchers) /\ Within(app[i], Vouchers) /\ Lists(t, Vouchers')
    BY DEF Fits
  <2> HIDE DEF t
  <2> QED
    BY <2>1, LenProperties DEF Within, Lists
<1> HIDE DEF l, t, saved, savedNext, w
<1>3. CASE Runs(i)
  <2>1. i \in up /\ UNCHANGED up /\ Len(app[i]) <= k /\ s <= k
    BY <1>1, <1>3 DEF Runs
  <2>2. k \in Len(app[i]) .. Len(t) /\ s \in Len(saved[i]) .. k
    BY <1>1, <1>2, <2>1
  <2>3. Abstract!Step(i, w, k, s)
    BY <1>1, <2>1, <2>2 DEF Abstract!Step, l, t, saved, savedNext
  <2>4. /\ Abstract!Growth \in Seq(Entry)
        /\ k \in 0 .. Len(CommittedLog') /\ s \in 0 .. Len(CommittedLog')
        /\ Abstract!Step(i, Abstract!Growth, k, s)
    BY <1>1, <2>3 DEF w, t
  <2>5. \E kk, ss \in 0 .. Len(CommittedLog') : Abstract!Step(i, Abstract!Growth, kk, ss)
    BY <2>4, Zenon
  <2> QED
    BY <2>4, <2>5, Zenon DEF Abstract!Next
<1>4. CASE Stops(i)
  <2>1. i \in up /\ up' = up \ {i} /\ app' = [app EXCEPT ![i] = <<>>]
    BY <1>4 DEF Stops
  <2>2. s \in Len(saved[i]) .. Len(t)
    BY <1>1, <1>2
  <2>3. Abstract!Fail(i, w, s)
    BY <1>1, <2>1, <2>2 DEF Abstract!Fail, l, t, saved, savedNext
  <2>4. /\ Abstract!Growth \in Seq(Entry) /\ s \in 0 .. Len(CommittedLog')
        /\ Abstract!Fail(i, Abstract!Growth, s)
    BY <1>1, <2>3 DEF w, t
  <2>5. \E ss \in 0 .. Len(CommittedLog') : Abstract!Fail(i, Abstract!Growth, ss)
    BY <2>4, Zenon
  <2> QED
    BY <2>4, <2>5, Zenon DEF Abstract!Next
<1>5. CASE Restarts(i)
  <2>1. /\ i \in Server \ up /\ up' = up \cup {i}
        /\ app' = [app EXCEPT ![i] = durable[i].snap.data]
        /\ durable' = durable /\ committed' = committed
    BY <1>5 DEF Restarts
  <2>2. t = l /\ savedNext = saved /\ saved[i] = durable[i].snap.data
    BY <2>1 DEF CommittedLog, t, l, saved, savedNext
  <2>3. Abstract!Recover(i)
    BY <2>1, <2>2 DEF Abstract!Recover, l, t, saved, savedNext
  <2> QED
    BY <2>3 DEF Abstract!Next
<1> QED
  BY <1>3, <1>4, <1>5 DEF Effect

\* Nothing is committed, applied or saved yet.
LEMMA InitMaps ==
  ASSUME Init
  PROVE  Gapless(Vouchers) /\ Abstract!Init
<1>1. /\ up = Server /\ app = [i \in Server |-> <<>>] /\ committed = {}
      /\ durable = [i \in Server |-> NewDurable]
  BY DEF Init
<1>2. Vouchers = {}
  BY <1>1 DEF Vouchers
<1>3. Gapless(Vouchers)
  <2>1. 1 .. 0 = {} /\ 0 \in Nat
    OBVIOUS
  <2> QED
    BY <1>2, <2>1 DEF Gapless
<1>4. Lists(CommittedLog, {})
  BY <1>2, <1>3, InitSafetyInv, CommittedListed
<1>5. CommittedLog = <<>>
  <2> DEFINE l == CommittedLog
  <2>1. l \in Seq(Entry) /\ 1 \notin 1 .. Len(l) /\ Len(l) \in Nat
    BY <1>4, LenProperties DEF Lists
  <2> HIDE DEF l
  <2>2. Len(l) = 0
    BY <2>1
  <2>3. l = <<>>
    BY <2>1, <2>2, EmptySeq
  <2> QED
    BY <2>3 DEF l
<1>6. [i \in Server |-> durable[i].snap.data] = [i \in Server |-> <<>>]
  BY <1>1 DEF NewDurable, NoSnapshot
<1> QED
  BY <1>1, <1>3, <1>5, <1>6 DEF Abstract!Init

LEMMA NextGapless ==
  ASSUME ConfChanges = {}, SafetyInv, Gapless(Vouchers), [Next]_vars
  PROVE  Gapless(Vouchers)'
<1>1. CASE Next
  <2>1. Gapless(Vouchers')
    BY <1>1, EventEffect DEF Effect
  <2> QED
    BY <2>1
<1>2. CASE UNCHANGED vars
  <2>1. Vouchers' = Vouchers
    BY <1>2 DEF vars, Vouchers
  <2> QED
    BY <2>1
<1> QED
  BY <1>1, <1>2

LEMMA NextMaps ==
  ASSUME ConfChanges = {}, SafetyInv, Gapless(Vouchers), Fits, Fits', [Next]_vars
  PROVE  [Abstract!Next]_Abstract!vars
<1>1. CASE Next
  BY <1>1, EventEffect, EffectMaps DEF SafetyInv, ElectionInv, VoteInv
<1>2. CASE UNCHANGED vars
  BY <1>2 DEF vars, CommittedLog, Abstract!vars
<1> QED
  BY <1>1, <1>2

\* Without membership changes every behaviour of the cluster, with all its
\* messages, elections and crashes at either fsync, is one of the replicated
\* log: what the servers apply is one sequence that only grows, and a restart
\* gives back the part that the snapshot on disk covers.
THEOREM ClusterReplicatesLog ==
  ASSUME ConfChanges = {}
  PROVE  Spec => ImplementsReplicatedLog
<1>1. SafetyInv /\ Gapless(Vouchers) => Fits
  BY StateFits
<1>2. SafetyInv /\ Gapless(Vouchers) /\ [Next]_vars => Gapless(Vouchers)'
  BY NextGapless
<1>3. SafetyInv /\ Gapless(Vouchers) /\ Fits /\ Fits' /\ [Next]_vars
        => [Abstract!Next]_Abstract!vars
  BY NextMaps
<1>4. Init => Gapless(Vouchers) /\ Abstract!Init
  BY InitMaps
<1> QED
  BY <1>1, <1>2, <1>3, <1>4, SafetyInvariant, PTL
     DEF Spec, ImplementsReplicatedLog, Abstract!Spec
==============================================================================
