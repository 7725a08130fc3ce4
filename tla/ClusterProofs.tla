---------------------------- MODULE ClusterProofs ----------------------------
(***************************************************************************)
(* Theorems about the cluster for every number of servers, every bound and *)
(* every choice of faults: the types, the persistence of votes, for a      *)
(* fixed membership one leader per term, and what a crash cannot take.     *)
(*                                                                         *)
(* Every event that steps a node ends in HandleOutput of a node that       *)
(* Follows the one before it (module RaftNodeProofs), so the preservation  *)
(* of the invariants is proved once, for HandleOutput, and then for the    *)
(* events that do not step a node: Crash and Restart.                      *)
(***************************************************************************)
EXTENDS ClusterProperties, RaftNodeProofs

\* The hard state of n is the one in the store d.
HardStateOf(d, n) == d.term = n.term /\ d.votedFor = n.votedFor

\* A granted vote is on the disk of the server that sent it.
VoteOnDisk(m, d) ==
  d.term > m.term \/ (d.term = m.term /\ d.votedFor = m.to)

-----------------------------------------------------------------------------
(* The output of a step *)

LEMMA PersistOfType ==
  ASSUME NEW n \in Node
  PROVE  PersistOf(n) \in Persist
<1> DEFINE e == IF n.appendedFrom = 0 THEN <<>>
                ELSE Slice(n.log, n.appendedFrom, LastIndex(n.log) + 1, 0)
<1>1. e \in Seq(Entry)
  BY NodeFields, IndexType, SliceType, EmptySeq
<1>2. PersistOf(n) = [hs |-> n.hsDirty, term |-> n.term, votedFor |-> n.votedFor,
                      snap |-> n.snapDirty, snapshot |-> n.snapshot, entries |-> e]
  BY Zenon DEF PersistOf
<1> HIDE DEF e
<1> QED
  BY <1>1, <1>2, NodeFields DEF Persist, OptServer

\* After the fsync the store has the node's hard state, because every change
\* of it was marked.
LEMMA HardStatePersisted ==
  ASSUME NEW n \in Node, NEW d \in Durable, n.hsDirty \/ HardStateOf(d, n)
  PROVE  /\ ApplyPersist(d, PersistOf(n)) \in Durable
         /\ HardStateOf(ApplyPersist(d, PersistOf(n)), n)
<1>1. ApplyPersist(d, PersistOf(n)) \in Durable
  BY PersistOfType, ApplyPersistType
<1>2. HardStateOf(ApplyPersist(d, PersistOf(n)), n)
  BY DEF ApplyPersist, PersistOf, HardStateOf
<1> QED
  BY <1>1, <1>2

LEMMA SyncedType ==
  ASSUME NEW n \in Node, NEW d
  PROVE  /\ Synced(n, d) \in Node /\ Synced(n, d).id = n.id /\ Synced(n, d).out = {}
         /\ Synced(n, d).term = n.term /\ Synced(n, d).votedFor = n.votedFor
<1> DEFINE m == Settled(n)
           x == m.panic \/ Discontinuous(d, PersistOf(n))
<1>1. /\ m \in Node /\ m.id = n.id /\ m.out = {}
      /\ m.term = n.term /\ m.votedFor = n.votedFor
  BY EmptySeq DEF Settled, Node
<1>2. Synced(n, d) = [m EXCEPT !.panic = x]
  BY Zenon DEF Synced
<1>3. x \in BOOLEAN
  BY <1>1, NodeFields
<1> HIDE DEF m, x
<1> QED
  BY <1>1, <1>2, <1>3 DEF Node

LEMMA AppAfterType ==
  ASSUME NEW n \in Node, NEW a \in Seq(Entry)
  PROVE  AppAfter(a, n) \in Seq(Entry)
<1> DEFINE b == IF n.snapDirty = "replace" THEN n.snapshot.data ELSE a
<1>1. b \in Seq(Entry) /\ n.applied \in Seq(Entry)
  BY NodeFields, SnapshotFields
<1>2. AppAfter(a, n) = b \o n.applied
  BY Zenon DEF AppAfter
<1> HIDE DEF b
<1> QED
  BY <1>1, <1>2, ConcatProperties

LEMMA RestartNodeType ==
  ASSUME NEW i \in Server, NEW d \in Durable
  PROVE  /\ RestartNode(i, d) \in Node
         /\ RestartNode(i, d).id = i /\ RestartNode(i, d).out = {}
         /\ HardStateOf(d, RestartNode(i, d))
BY RestartType DEF HardStateOf

LEMMA RecordsType ==
  ASSUME TypeOK, NEW n \in Node
  PROVE  RecordLeader(n) \in SUBSET Leadership /\ RecordCommitted(n) \in SUBSET CommitRecord
<1>1. leaders \in SUBSET Leadership /\ committed \in SUBSET CommitRecord
  BY DEF TypeOK
<1>2. RecordLeader(n) \in SUBSET Leadership
  BY <1>1, NodeFields DEF RecordLeader, Leadership
<1>3. CommittedEntries(n) \in SUBSET Entry
  <2> DEFINE b == Min({n.commitIndex - n.log.snapIndex, Len(n.log.entries)})
  <2>1. b \in Int /\ b <= Len(n.log.entries)
    <3>1. n.commitIndex - n.log.snapIndex \in Int /\ Len(n.log.entries) \in Int
      BY NodeFields, LogFields
    <3> QED
      BY <3>1, MinOfTwo
  <2> HIDE DEF b
  <2>2. \A k \in 1 .. b : n.log.entries[k] \in Entry
    BY <2>1, NodeFields, LogFields
  <2>3. CommittedEntries(n) = {n.log.entries[k] : k \in 1 .. b}
    BY Zenon DEF CommittedEntries, b
  <2> QED
    BY <2>2, <2>3
<1>4. RecordCommitted(n) \in SUBSET CommitRecord
  BY <1>1, <1>3, NodeFields DEF RecordCommitted, CommitRecord
<1> QED
  BY <1>2, <1>4

-----------------------------------------------------------------------------
(* The inductive invariant *)

\* Each node is its server's and has sent everything it had to; the hard
\* state of a live one is on disk.
HardStateSaved ==
  /\ \A i \in Server : node[i].id = i /\ node[i].out = {}
  /\ \A i \in up : HardStateOf(durable[i], node[i])

VoteInv == TypeOK /\ HardStateSaved /\ GrantedVotesDurable

\* What one step does to the terms and votes on disk.
DurableVotesKept ==
  \A i \in Server :
    LET d == durable[i]  e == durable'[i]
    IN  /\ d.term <= e.term
        /\ d.term = e.term /\ d.votedFor # None => d.votedFor = e.votedFor

LEMMA InitVoteInv == Init => VoteInv
<1> SUFFICES ASSUME Init PROVE VoteInv
  OBVIOUS
<1>1. \A i \in Server : RestartNode(i, NewDurable) \in Node
        /\ RestartNode(i, NewDurable).id = i /\ RestartNode(i, NewDurable).out = {}
        /\ HardStateOf(NewDurable, RestartNode(i, NewDurable))
  BY NewDurableType, RestartNodeType
<1>2. TypeOK
  BY <1>1, NewDurableType, EmptySeq, ClusterAssumption DEF Init, TypeOK
<1>3. HardStateSaved
  BY <1>1 DEF Init, HardStateSaved
<1>4. GrantedVotesDurable
  BY DEF Init, GrantedVotesDurable
<1> QED
  BY <1>2, <1>3, <1>4 DEF VoteInv

\* The disks keep to their votes when only server i's store changes, to one
\* that keeps to its vote, and every new granted vote is on its sender's disk.
LEMMA GrantsKept ==
  ASSUME VoteInv, TypeOK', DurableVotesKept,
         \A m \in net' : m \in net \/ ~Granted(m) \/ VoteOnDisk(m, durable'[m.from])
  PROVE  GrantedVotesDurable'
<1> SUFFICES ASSUME NEW m \in net', Granted(m)
             PROVE  VoteOnDisk(m, durable'[m.from])
  BY DEF GrantedVotesDurable, Granted, VoteOnDisk
<1>1. CASE m \in net
  <2>1. VoteOnDisk(m, durable[m.from])
    BY <1>1 DEF VoteInv, GrantedVotesDurable, Granted, VoteOnDisk
  <2>2. m \in VoteResp /\ m.from \in Server /\ m.to \in Server /\ m.term \in Nat
    BY <1>1, MessageOfType, MessageEnds DEF VoteInv, TypeOK, Granted
  <2>3. m.to # None
    BY <2>2, ServerAssumption
  <2>4. durable[m.from].term \in Nat /\ durable'[m.from].term \in Nat
    BY <2>2 DEF VoteInv, TypeOK, Durable
  <2> QED
    BY <2>1, <2>2, <2>3, <2>4 DEF DurableVotesKept, VoteOnDisk
<1>2. CASE m \notin net
  BY <1>2
<1> QED
  BY <1>1, <1>2

LEMMA CrashKeeps ==
  ASSUME VoteInv, NEW i \in Server, CrashServer(i)
  PROVE  /\ node' \in [Server -> Node] /\ up' \in SUBSET Server
         /\ app' \in [Server -> Seq(Entry)] /\ crashes' \in 0 .. MaxCrashes
         /\ \A j \in Server : node'[j].id = j /\ node'[j].out = {}
         /\ \A j \in up' : j \in up /\ j # i /\ node'[j] = node[j]
<1>1. Wiped(i) \in Node /\ Wiped(i).id = i /\ Wiped(i).out = {}
  BY NewDurableType, RestartNodeType DEF Wiped
<1>2. /\ node \in [Server -> Node] /\ up \in SUBSET Server
      /\ app \in [Server -> Seq(Entry)] /\ crashes \in 0 .. MaxCrashes /\ MaxCrashes \in Nat
  BY ClusterAssumption DEF VoteInv, TypeOK
<1>3. /\ crashes < MaxCrashes /\ crashes' = crashes + 1 /\ up' = up \ {i}
      /\ node' = [node EXCEPT ![i] = Wiped(i)] /\ app' = [app EXCEPT ![i] = <<>>]
  BY DEF CrashServer
<1>4. <<>> \in Seq(Entry)
  BY EmptySeq
<1>5. crashes' \in 0 .. MaxCrashes
  BY <1>2, <1>3
<1>6. \A j \in Server : node[j].id = j /\ node[j].out = {}
  BY DEF VoteInv, HardStateSaved
<1> QED
  BY <1>1, <1>2, <1>3, <1>4, <1>5, <1>6

LEMMA CrashStep ==
  ASSUME VoteInv, NEW i \in Server, CrashServer(i),
         UNCHANGED <<durable, net, leaders, committed>>
  PROVE  VoteInv' /\ DurableVotesKept
<1>1. TypeOK'
  BY CrashKeeps DEF VoteInv, TypeOK
<1>2. HardStateSaved'
  BY CrashKeeps DEF VoteInv, HardStateSaved
<1>3. DurableVotesKept
  BY DEF DurableVotesKept, VoteInv, TypeOK, Durable
<1>4. GrantedVotesDurable'
  BY <1>1, <1>3, GrantsKept
<1> QED
  BY <1>1, <1>2, <1>3, <1>4 DEF VoteInv

LEMMA RestartStep ==
  ASSUME VoteInv, NEW i \in Server, Restart(i)
  PROVE  VoteInv' /\ DurableVotesKept
<1>1. durable[i] \in Durable /\ durable[i].snap.data \in Seq(Entry)
  BY SnapshotFields DEF VoteInv, TypeOK, Durable
<1> DEFINE q == RestartNode(i, durable[i])
<1>2. q \in Node /\ q.id = i /\ q.out = {} /\ HardStateOf(durable[i], q)
  BY <1>1, RestartNodeType
<1>3. /\ up' = up \cup {i} /\ node' = [node EXCEPT ![i] = q]
      /\ app' = [app EXCEPT ![i] = durable[i].snap.data]
      /\ UNCHANGED <<durable, net, crashes, leaders, committed>>
  BY DEF Restart
<1> HIDE DEF q
<1>4. TypeOK'
  BY <1>1, <1>2, <1>3 DEF VoteInv, TypeOK
<1>5. HardStateSaved'
  <2>1. node \in [Server -> Node]
    BY DEF VoteInv, TypeOK
  <2> QED
    BY <1>2, <1>3, <2>1 DEF VoteInv, HardStateSaved
<1>6. DurableVotesKept
  BY <1>3 DEF DurableVotesKept, VoteInv, TypeOK, Durable
<1>7. GrantedVotesDurable'
  BY <1>3, <1>4, <1>6, GrantsKept
<1> QED
  BY <1>4, <1>5, <1>6, <1>7 DEF VoteInv

-----------------------------------------------------------------------------
(* HandleOutput *)

\* The stores a step of server i may leave: the one it had, or one that holds
\* the node's new hard state.  Either way the vote it had cast stands.
LEMMA StoreStep ==
  ASSUME VoteInv, NEW i \in up, NEW n, Follows(node[i], n),
         NEW d \in Durable, HardStateOf(d, n), durable' = [durable EXCEPT ![i] = d]
  PROVE  DurableVotesKept
<1>1. /\ HardStateOf(durable[i], node[i]) /\ i \in Server
      /\ \A j \in Server : durable[j].term \in Nat
      /\ durable \in [Server -> Durable]
  BY DEF VoteInv, HardStateSaved, TypeOK, Durable
<1>2. /\ durable[i].term <= d.term
      /\ durable[i].term = d.term /\ durable[i].votedFor # None
           => durable[i].votedFor = d.votedFor
  BY <1>1 DEF Follows, HardStateOf
<1> QED
  BY <1>1, <1>2 DEF DurableVotesKept

LEMMA ReleaseStep ==
  ASSUME VoteInv, NEW i \in up, NEW n, Follows(node[i], n),
         NEW d \in Durable, HardStateOf(d, n), Release(i, n, d)
  PROVE  /\ DurableVotesKept
         /\ durable' \in [Server -> Durable] /\ net' \in SUBSET Message
         /\ committed' \in SUBSET CommitRecord
         /\ durable' = [durable EXCEPT ![i] = d]
         /\ \A m \in net' : m \in net \/ ~Granted(m) \/ VoteOnDisk(m, durable'[m.from])
<1>1. /\ i \in Server /\ n \in Node /\ node[i].out = {} /\ node[i].id = i
      /\ durable \in [Server -> Durable] /\ net \in SUBSET Message /\ TypeOK
  BY DEF VoteInv, HardStateSaved, TypeOK, Follows
<1>2. /\ net' = net \cup Carried(n.out) /\ committed' = RecordCommitted(n)
      /\ durable' = [durable EXCEPT ![i] = d]
  BY DEF Release
<1>3. DurableVotesKept
  BY <1>2, StoreStep
<1>4. Carried(n.out) \in SUBSET n.out /\ n.out \in SUBSET Message
  BY <1>1, NodeFields DEF Carried
<1>5. \A m \in n.out : Granted(m) => m.from = i /\ VoteOnDisk(m, d)
  BY <1>1 DEF Follows, StandsBy, VoteOnDisk, HardStateOf
<1>6. committed' \in SUBSET CommitRecord
  BY <1>1, <1>2, RecordsType
<1>7. durable' \in [Server -> Durable] /\ durable'[i] = d
  BY <1>1, <1>2
<1> QED
  BY <1>1, <1>2, <1>3, <1>4, <1>5, <1>6, <1>7

\* A completed step leaves i with a node q that stepped from n without
\* touching its hard state.
LEMMA ReleasedNode ==
  ASSUME VoteInv, NEW i \in up, NEW n, Follows(node[i], n),
         NEW d \in Durable, HardStateOf(d, n), Release(i, n, d),
         NEW q \in Node, q.id = n.id, q.out = {}, HardStateOf(d, q),
         NEW a \in Seq(Entry),
         node' = [node EXCEPT ![i] = q], app' = [app EXCEPT ![i] = a],
         leaders' = RecordLeader(n), UNCHANGED <<up, crashes>>
  PROVE  VoteInv' /\ DurableVotesKept
<1>1. /\ DurableVotesKept
      /\ durable' \in [Server -> Durable] /\ net' \in SUBSET Message
      /\ committed' \in SUBSET CommitRecord
      /\ durable' = [durable EXCEPT ![i] = d]
      /\ \A m \in net' : m \in net \/ ~Granted(m) \/ VoteOnDisk(m, durable'[m.from])
  BY ReleaseStep
<1>2. /\ n \in Node /\ i \in Server /\ node[i].id = i /\ n.id = node[i].id
      /\ node \in [Server -> Node] /\ app \in [Server -> Seq(Entry)]
      /\ durable \in [Server -> Durable] /\ TypeOK
  BY DEF Follows, VoteInv, HardStateSaved, TypeOK
<1>3. leaders' \in SUBSET Leadership
  BY <1>2, RecordsType
<1>4. TypeOK'
  BY <1>1, <1>2, <1>3 DEF TypeOK
<1>5. HardStateSaved'
  BY <1>1, <1>2 DEF VoteInv, HardStateSaved
<1>6. GrantedVotesDurable'
  BY <1>1, <1>4, GrantsKept
<1> QED
  BY <1>1, <1>4, <1>5, <1>6 DEF VoteInv

\* The same when the server crashes at the fsync of the snapshot.
LEMMA ReleasedThenCrashed ==
  ASSUME VoteInv, NEW i \in up, NEW n, Follows(node[i], n),
         NEW d \in Durable, HardStateOf(d, n), Release(i, n, d),
         CrashServer(i), UNCHANGED leaders
  PROVE  VoteInv' /\ DurableVotesKept
<1>1. /\ DurableVotesKept
      /\ durable' \in [Server -> Durable] /\ net' \in SUBSET Message
      /\ committed' \in SUBSET CommitRecord
      /\ durable' = [durable EXCEPT ![i] = d]
      /\ \A m \in net' : m \in net \/ ~Granted(m) \/ VoteOnDisk(m, durable'[m.from])
  BY ReleaseStep
<1>2. i \in Server /\ durable \in [Server -> Durable] /\ leaders \in SUBSET Leadership
  BY DEF VoteInv, TypeOK
<1>3. TypeOK'
  BY <1>1, <1>2, CrashKeeps DEF TypeOK
<1>4. HardStateSaved'
  <2>1. \A j \in up' : j \in Server /\ durable'[j] = durable[j]
    BY <1>1, <1>2, CrashKeeps
  <2> QED
    BY <1>2, <2>1, CrashKeeps DEF VoteInv, HardStateSaved
<1>5. GrantedVotesDurable'
  BY <1>1, <1>3, GrantsKept
<1> QED
  BY <1>1, <1>3, <1>4, <1>5 DEF VoteInv

LEMMA HandleOutputStep ==
  ASSUME VoteInv, NEW i \in up, NEW n, Follows(node[i], n), HandleOutput(i, n)
  PROVE  VoteInv' /\ DurableVotesKept
<1> DEFINE p == PersistOf(n)
           d == ApplyPersist(durable[i], p)
           m == Synced(n, durable[i])
           a == AppAfter(app[i], n)
           s == CreateSnapshot(m, m.lastApplied, a)
           e == ApplyPersist(d, PersistOf(s))
           q == Synced(s, d)
<1>1. /\ n \in Node /\ i \in Server /\ durable[i] \in Durable /\ app[i] \in Seq(Entry)
      /\ HardStateOf(durable[i], node[i])
  BY DEF Follows, VoteInv, HardStateSaved, TypeOK
<1>2. d \in Durable /\ HardStateOf(d, n)
  <2>1. n.hsDirty \/ HardStateOf(durable[i], n)
    BY <1>1 DEF Follows, HardStateOf
  <2> QED
    BY <1>1, <2>1, HardStatePersisted
<1>3. m \in Node /\ m.id = n.id /\ m.out = {} /\ HardStateOf(d, m)
  BY <1>1, <1>2, SyncedType DEF HardStateOf
<1>4. a \in Seq(Entry)
  BY <1>1, AppAfterType
<1>5. CASE FsyncCrash(i, n)
  BY <1>1, <1>5, CrashStep DEF FsyncCrash
<1>6. CASE /\ Release(i, n, d) /\ node' = [node EXCEPT ![i] = m]
           /\ app' = [app EXCEPT ![i] = a] /\ leaders' = RecordLeader(n)
           /\ UNCHANGED <<up, crashes>>
  <2> HIDE DEF d, m, a
  <2> QED
    BY <1>2, <1>3, <1>4, <1>6, ReleasedNode
<1>7. CASE /\ Release(i, n, e) /\ node' = [node EXCEPT ![i] = q]
           /\ app' = [app EXCEPT ![i] = a] /\ leaders' = RecordLeader(n)
           /\ UNCHANGED <<up, crashes>>
  <2>1. Quiet(m, s) /\ s \in Node
    <3>1. m.lastApplied \in Nat
      BY <1>3, NodeFields
    <3> QED
      BY <1>3, <1>4, <3>1, CreateSnapshotQuiet DEF Quiet
  <2>2. s.id = n.id /\ s.term = n.term /\ s.votedFor = n.votedFor /\ HardStateOf(d, s)
    BY <1>1, <1>2, <2>1, SyncedType DEF Quiet, HardStateOf
  <2>3. e \in Durable /\ HardStateOf(e, s)
    BY <1>2, <2>1, <2>2, HardStatePersisted
  <2>4. HardStateOf(e, n)
    BY <2>2, <2>3 DEF HardStateOf
  <2>5. q \in Node /\ q.id = n.id /\ q.out = {} /\ HardStateOf(e, q)
    BY <2>1, <2>2, <2>3, SyncedType DEF HardStateOf
  <2> HIDE DEF e, q, a
  <2> QED
    BY <1>4, <1>7, <2>3, <2>4, <2>5, ReleasedNode
<1>8. CASE Release(i, n, d) /\ CrashServer(i) /\ UNCHANGED leaders
  BY <1>2, <1>8, ReleasedThenCrashed
<1> QED
  BY <1>5, <1>6, <1>7, <1>8, Zenon DEF HandleOutput, Complete

-----------------------------------------------------------------------------
(* The events *)

LEMMA DeliverStep ==
  ASSUME VoteInv, NEW m \in net, Deliver(m)
  PROVE  VoteInv' /\ DurableVotesKept
<1>1. m \in Message /\ m.to \in up /\ node[m.to] \in Node
  BY MessageEnds DEF VoteInv, TypeOK, Deliver
<1>2. PICK fresh \in BOOLEAN :
        HandleOutput(m.to, Receive(node[m.to], m, fresh))
  BY DEF Deliver
<1> DEFINE n == Receive(node[m.to], m, fresh)
<1>4. Follows(node[m.to], n)
  BY <1>1, <1>2, ReceiveFollows
<1>5. HandleOutput(m.to, n)
  BY <1>2
<1> HIDE DEF n
<1> QED
  BY <1>1, <1>4, <1>5, HandleOutputStep

LEMMA NextStep ==
  ASSUME VoteInv, Next
  PROVE  VoteInv' /\ DurableVotesKept
<1> DEFINE Goal == VoteInv' /\ DurableVotesKept
<1>0. \A i \in up : node[i] \in Node
  BY DEF VoteInv, TypeOK
<1>1. ASSUME NEW i \in Server, ElectionTimeout(i) PROVE Goal
  <2> DEFINE n == Campaign(node[i], PreVote, FALSE)
  <2>1. i \in up /\ HandleOutput(i, n)
    BY <1>1 DEF ElectionTimeout
  <2>2. Follows(node[i], n)
    BY <1>0, <2>1, CampaignFollows, ParamsAssumption
  <2> HIDE DEF n
  <2> QED
    BY <2>1, <2>2, HandleOutputStep
<1>2. ASSUME NEW i \in Server, NEW due \in SUBSET LeaderTicks, LeaderTick(i, due) PROVE Goal
  <2> DEFINE t == "transfer" \in due
             u == "quorum" \in due
             h == "heartbeat" \in due
             n == TickLeader(node[i], t, u, h)
  <2>0. t \in BOOLEAN /\ u \in BOOLEAN /\ h \in BOOLEAN
    OBVIOUS
  <2>1. i \in up /\ HandleOutput(i, n)
    BY <1>2 DEF LeaderTick
  <2> HIDE DEF t, u, h
  <2>2. Quiet(node[i], n)
    BY <1>0, <2>0, <2>1, TickLeaderQuiet
  <2>3. Follows(node[i], n)
    BY <1>0, <2>1, <2>2, QuietFollows
  <2> HIDE DEF n
  <2> QED
    BY <2>1, <2>3, HandleOutputStep
<1>3. ASSUME NEW i \in Server, NEW v \in Value, ClientPropose(i, v) PROVE Goal
  <2> DEFINE n == Propose(node[i], v)
  <2>1. i \in up /\ HandleOutput(i, n)
    BY <1>3 DEF ClientPropose
  <2>2. Follows(node[i], n)
    BY <1>0, <2>1, ProposeQuiet, QuietFollows
  <2> HIDE DEF n
  <2> QED
    BY <2>1, <2>2, HandleOutputStep
<1>4. ASSUME NEW i \in Server, NEW t \in TransferTargets, Transfer(i, t) PROVE Goal
  <2> DEFINE n == TransferLeadership(node[i], t)
  <2>1. i \in up /\ HandleOutput(i, n)
    BY <1>4 DEF Transfer
  <2>2. Follows(node[i], n)
    BY <1>0, <2>1, TransferLeadershipQuiet, QuietFollows, ClusterAssumption
  <2> HIDE DEF n
  <2> QED
    BY <2>1, <2>2, HandleOutputStep
<1>5. ASSUME NEW c \in ConfChanges, ProposeConfChange(c) PROVE Goal
  <2> DEFINE n == IF c.type = "AddServer" THEN AddServer(node[c.at], c.id)
                  ELSE RemoveServer(node[c.at], c.id)
  <2>1. c.at \in up /\ HandleOutput(c.at, n)
    BY <1>5, Zenon DEF ProposeConfChange
  <2>2. c.id \in Server
    BY ClusterAssumption DEF ConfChange
  <2>3. Follows(node[c.at], n)
    BY <1>0, <2>1, <2>2, AddServerQuiet, RemoveServerQuiet, QuietFollows
  <2> HIDE DEF n
  <2> QED
    BY <2>1, <2>3, HandleOutputStep
<1>6. ASSUME NEW i \in Server, Crash(i) PROVE Goal
  BY <1>6, CrashStep DEF Crash
<1>7. ASSUME NEW i \in Server, Restart(i) PROVE Goal
  BY <1>7, RestartStep
<1>8. ASSUME NEW m \in net, Deliver(m) PROVE Goal
  BY <1>8, DeliverStep
<1> HIDE DEF Goal
<1>9. \/ \E i \in Server : ElectionTimeout(i) \/ Crash(i) \/ Restart(i)
      \/ \E i \in Server, due \in SUBSET LeaderTicks : LeaderTick(i, due)
      \/ \E i \in Server, v \in Value : ClientPropose(i, v)
      \/ \E i \in Server, t \in TransferTargets : Transfer(i, t)
      \/ \E c \in ConfChanges : ProposeConfChange(c)
      \/ \E m \in net : Deliver(m)
  BY DEF Next, ReceiveVote, ReceiveVoteResp, ReceiveApp, ReceiveAppResp, ReceiveSnap,
         ReceiveSnapResp, ReceiveTimeoutNow
<1>10. Goal
  BY <1>1, <1>2, <1>3, <1>4, <1>5, <1>6, <1>7, <1>8, <1>9
<1> QED
  BY <1>10 DEF Goal

LEMMA StutterStep ==
  ASSUME VoteInv, UNCHANGED vars
  PROVE  VoteInv' /\ DurableVotesKept
<1>1. UNCHANGED <<node, up, durable, app, net, crashes, leaders, committed>>
  BY DEF vars
<1>2. VoteInv'
  BY <1>1 DEF VoteInv, TypeOK, HardStateSaved, GrantedVotesDurable
<1>3. DurableVotesKept
  BY <1>1 DEF DurableVotesKept, VoteInv, TypeOK, Durable
<1> QED
  BY <1>2, <1>3

-----------------------------------------------------------------------------
(* The theorems *)

\* The invariant that carries the others holds in every behaviour: the events
\* of the simulator keep the hard state of every live node on its disk.
THEOREM VoteInvariant == Spec => []VoteInv
<1>1. VoteInv /\ [Next]_vars => VoteInv'
  BY NextStep, StutterStep
<1> QED
  BY InitVoteInv, <1>1, PTL DEF Spec

\* Nodes, stores, messages and records stay well formed: no method of a node
\* ever builds a malformed log, progress, message or Persist instruction,
\* whatever messages it gets and in whatever order.
THEOREM TypeCorrect == Spec => []TypeOK
<1>1. VoteInv => TypeOK
  BY DEF VoteInv
<1> QED
  BY VoteInvariant, <1>1, PTL

\* A vote that is granted is durable before it can be counted, and outlives
\* crashes of the server that granted it at any point of any step.
THEOREM GrantedVotesAreDurable == Spec => []GrantedVotesDurable
<1>1. VoteInv => GrantedVotesDurable
  BY DEF VoteInv
<1> QED
  BY VoteInvariant, <1>1, PTL

\* Terms on disk never go back and a vote cast in a term is never changed,
\* across steps, crashes and restarts.
THEOREM VotesNeverChange == Spec => VotesStand
<1>1. VoteInv /\ [Next]_vars => [DurableVotesKept]_vars
  BY NextStep
<1>2. [DurableVotesKept]_vars <=>
        [\A i \in Server :
           LET d == durable[i]  e == durable'[i]
           IN  /\ d.term <= e.term
               /\ d.term = e.term /\ d.votedFor # None => d.votedFor = e.votedFor]_vars
  BY DEF DurableVotesKept
<1> QED
  BY VoteInvariant, <1>1, <1>2, PTL DEF Spec, VotesStand

(***************************************************************************)
(* At most one leader per term, for any number of servers and any faults,  *)
(* as long as no membership change is proposed.                            *)
(*                                                                         *)
(* Without such proposals every configuration that a node, a message or a  *)
(* store holds is the initial one (Static).  A node counts a vote only     *)
(* from an answer that is in the network (Standing), such a vote is on the *)
(* disk of its voter (GrantedVotesDurable) and binds it for the term, so   *)
(* two quorums of one term share a voter that voted for both leaders.      *)
(***************************************************************************)

-----------------------------------------------------------------------------
(* Configurations that never change *)

\* A history of configurations that never changed.
Unchanged(h) == \E j \in Nat : h = {[index |-> j, cfg |-> InitialVoters]}

\* A snapshot of the initial configuration, if there is a snapshot.
OfInitial(s) == s = NoSnapshot \/ s.config = InitialVoters

\* No configuration entry among ents.
Plain(ents) == \A k \in 1 .. Len(ents) : ents[k].type # "Config"

\* A message that carries no configuration but the initial one.
Sound(m) ==
  /\ m.type = "App" => Plain(m.entries)
  /\ m.type = "Snap" => OfInitial(m.snapshot)

\* A node that knows no configuration but the initial one.
InitialOnly(n) ==
  /\ n.learner = None
  /\ Plain(n.log.entries)
  /\ Unchanged(n.confHistory)
  /\ OfInitial(n.snapshot)

\* The same of a node in the middle of a step that has granted no vote yet.
Static(n) ==
  /\ InitialOnly(n)
  /\ \A m \in n.out : Sound(m) /\ ~Granted(m)

StaticStore(d) == Plain(d.entries) /\ OfInitial(d.snap)

\* q results from n by steps that leave its hard state alone, and its
\* election too unless they make it a follower.
Steady(n, q) ==
  /\ Quiet(n, q) /\ Static(q)
  /\ q.state = "Follower" \/ (q.state = n.state /\ q.votes = n.votes)

LEMMA SteadySelf ==
  ASSUME NEW n \in Node, Static(n)
  PROVE  Steady(n, n)
BY QuietSelf DEF Steady

LEMMA SteadyTwice ==
  ASSUME NEW n, NEW p, NEW q, Steady(n, p), Steady(p, q)
  PROVE  Steady(n, q)
<1>1. Quiet(n, q)
  BY QuietTwice DEF Steady
<1> QED
  BY <1>1 DEF Steady

\* What a step must not touch to be steady.
LEMMA SteadyStep ==
  ASSUME NEW n \in Node, NEW q, Static(n), Quiet(n, q),
         q.learner = None, Plain(q.log.entries), Unchanged(q.confHistory),
         OfInitial(q.snapshot), \A m \in q.out : m \in n.out \/ Sound(m),
         q.state = "Follower" \/ (q.state = n.state /\ q.votes = n.votes)
  PROVE  Steady(n, q)
BY DEF Steady, Static, InitialOnly, Quiet

LEMMA SteadyStatic ==
  ASSUME NEW n, NEW q, Steady(n, q)
  PROVE  q \in Node /\ Static(q)
BY DEF Steady, Quiet

LEMMA UnchangedHistory ==
  ASSUME NEW h, Unchanged(h)
  PROVE  CfgOf(h) = InitialVoters /\ Newest(h) = h /\ Oldest(h) = h
<1>1. PICK j \in Nat : h = {[index |-> j, cfg |-> InitialVoters]}
  BY DEF Unchanged
<1> DEFINE r == [index |-> j, cfg |-> InitialVoters]
<1>2. h = {r} /\ r.index <= r.index /\ r.cfg = InitialVoters
  BY <1>1
<1> HIDE DEF r
<1>3. Newest(h) = {r} /\ Oldest(h) = {r}
  BY <1>2 DEF Newest, Oldest
<1>4. CfgOf(h) = UNION {q.cfg : q \in {r}}
  BY <1>3, Zenon DEF CfgOf
<1> QED
  BY <1>2, <1>3, <1>4

LEMMA StaticConfig ==
  ASSUME NEW n \in Node, InitialOnly(n)
  PROVE  Config(n) = InitialVoters
BY UnchangedHistory DEF Config, InitialOnly

LEMMA UnchangedHistories ==
  ASSUME NEW h, NEW i \in Int, Unchanged(h)
  PROVE  /\ Unchanged(TruncateConfigsFrom(h, i)) /\ Unchanged(PruneConfHistory(h, i))
         /\ ConfigAt(h, i) = InitialVoters
<1>1. PICK j \in Nat : h = {[index |-> j, cfg |-> InitialVoters]}
  BY DEF Unchanged
<1> DEFINE r == [index |-> j, cfg |-> InitialVoters]
<1>2. h = {r} /\ r.index = j
  BY <1>1
<1> HIDE DEF r
<1>3. ASSUME NEW k \in Int PROVE UpToOrOldest(h, k) = h
  <2>1. CASE j <= k
    BY <1>2, <2>1 DEF UpToOrOldest
  <2>2. CASE ~(j <= k)
    <3>1. UpToOrOldest(h, k) = Oldest(h)
      BY <1>2, <2>2 DEF UpToOrOldest
    <3> QED
      BY <3>1, UnchangedHistory
  <2> QED
    BY <2>1, <2>2
<1>4. TruncateConfigsFrom(h, i) = h /\ ConfigAt(h, i) = InitialVoters
  BY <1>3, UnchangedHistory DEF TruncateConfigsFrom, ConfigAt
<1>5. PruneConfHistory(h, i) = {q \in h : q.index > i} \cup h
  BY <1>3, UnchangedHistory DEF PruneConfHistory
<1>6. PruneConfHistory(h, i) = h
  BY <1>5
<1> QED
  BY <1>4, <1>6

LEMMA PlainPart ==
  ASSUME NEW s \in Seq(Entry), Plain(s), NEW a \in Nat \ {0}, NEW b \in Int, b <= Len(s)
  PROVE  Plain(SubSeq(s, a, b))
<1>1. \A i \in a .. b : i \in 1 .. Len(s)
  BY LenProperties
<1>2. \A i \in a .. b : s[i] \in Entry
  BY <1>1, ElementOfSeq, Zenon
<1> DEFINE u == SubSeq(s, a, b)
<1>3. /\ Len(u) = IF a <= b THEN b - a + 1 ELSE 0
      /\ \A i \in 1 .. b - a + 1 : u[i] = s[a + i - 1]
  BY <1>2, SubSeqProperties
<1> HIDE DEF u
<1>4. ASSUME NEW i \in 1 .. Len(u) PROVE u[i].type # "Config"
  <2>1. a + i - 1 \in 1 .. Len(s) /\ u[i] = s[a + i - 1]
    BY <1>1, <1>3
  <2> QED
    BY <2>1 DEF Plain
<1> QED
  BY <1>4 DEF Plain, u

LEMMA PlainConcat ==
  ASSUME NEW s \in Seq(Entry), NEW t \in Seq(Entry), Plain(s), Plain(t)
  PROVE  Plain(s \o t)
<1>1. /\ Len(s \o t) = Len(s) + Len(t)
      /\ \A i \in 1 .. Len(s) + Len(t) :
           (s \o t)[i] = IF i <= Len(s) THEN s[i] ELSE t[i - Len(s)]
      /\ Len(s) \in Nat /\ Len(t) \in Nat
  BY ConcatProperties, LenProperties
<1>2. ASSUME NEW i \in 1 .. Len(s) + Len(t)
      PROVE  (s \o t)[i].type # "Config"
  <2>1. CASE i <= Len(s)
    BY <1>1, <2>1 DEF Plain
  <2>2. CASE ~(i <= Len(s))
    BY <1>1, <2>2 DEF Plain
  <2> QED
    BY <2>1, <2>2
<1> QED
  BY <1>1, <1>2 DEF Plain

LEMMA PlainEmpty == Plain(<<>>)
BY DEF Plain

LEMMA PlainSlice ==
  ASSUME NEW l \in Log, Plain(l.entries), NEW lo \in Int, NEW hi \in Int, NEW max \in Nat
  PROVE  Plain(Slice(l, lo, hi, max))
<1> DEFINE end == Min({hi - 1, LastIndex(l)})
           cut == IF max > 0 THEN Min({end, lo + max - 1}) ELSE end
<1>1. end \in Int /\ end <= LastIndex(l)
  BY MinOfTwo, IndexType
<1>2. cut \in Int /\ cut <= LastIndex(l)
  BY <1>1, MinOfTwo, IndexType
<1>3. CASE lo < FirstIndex(l)
  BY <1>3, PlainEmpty DEF Slice
<1>4. CASE ~(lo < FirstIndex(l))
  <2>1. lo - l.snapIndex \in Nat \ {0} /\ cut - l.snapIndex \in Int
         /\ cut - l.snapIndex <= Len(l.entries)
    BY <1>2, <1>4, LogFields DEF FirstIndex, LastIndex
  <2>2. Plain(SubSeq(l.entries, lo - l.snapIndex, cut - l.snapIndex))
    BY <2>1, PlainPart, LogFields, Zenon
  <2> QED
    BY <1>4, <2>2 DEF Slice
<1> QED
  BY <1>3, <1>4

LEMMA PlainRecords ==
  ASSUME NEW ents, Plain(ents)
  PROVE  ConfigRecords(ents) = {}
BY DEF Plain, ConfigRecords

-----------------------------------------------------------------------------
(* Methods that leave the election alone *)

LEMMA SendSteady ==
  ASSUME NEW n \in Node, Static(n), NEW msgs \in SUBSET Message,
         \A m \in msgs : ~Granted(m), \A m \in msgs : Sound(m)
  PROVE  Steady(n, Send(n, msgs))
<1> DEFINE q == Send(n, msgs)
<1>1. Quiet(n, q)
  BY SendQuiet
<1>2. /\ q.learner = n.learner /\ q.log = n.log /\ q.confHistory = n.confHistory
      /\ q.snapshot = n.snapshot /\ q.state = n.state /\ q.votes = n.votes
      /\ q.out = n.out \cup msgs
  BY DEF Send, Node
<1> HIDE DEF q
<1>3. Steady(n, q)
  BY <1>1, <1>2, SteadyStep DEF Static, InitialOnly
<1> QED
  BY <1>3 DEF q

LEMMA AppsForSound ==
  ASSUME NEW n \in Node, Static(n), NEW to \in Server
  PROVE  \A m \in AppsFor(n, to) : Sound(m)
<1> DEFINE pr == n.prs[to]
           e == Slice(n.log, pr.next, LastIndex(n.log) + 1, MaxBatch)
<1>1. pr # NoProgress => Plain(e)
  <2>1. pr # NoProgress => pr.next \in Nat
    BY NodeFields, ProgressFields
  <2> QED
    BY <2>1, NodeFields, IndexType, PlainSlice, ParamsAssumption DEF Static, InitialOnly
<1> HIDE DEF e
<1>2. AppsFor(n, to) = {} \/
      (pr # NoProgress /\
       AppsFor(n, to) \in
         {{[type |-> "Snap", from |-> n.id, to |-> to, term |-> n.term,
            snapshot |-> n.snapshot]},
          {[type |-> "App", from |-> n.id, to |-> to, term |-> n.term,
            prevLogIndex |-> PrevIndex(pr), prevLogTerm |-> TermAt(n.log, PrevIndex(pr)),
            entries |-> e, commit |-> n.commitIndex]}})
  BY DEF AppsFor, e
<1> QED
  BY <1>1, <1>2 DEF Sound, Static, InitialOnly

LEMMA SendAppendsSteady ==
  ASSUME NEW n \in Node, Static(n), NEW targets \in SUBSET Server
  PROVE  Steady(n, SendAppends(n, targets))
<1> DEFINE o == UNION {AppsFor(n, to) : to \in targets}
           r == [s \in Server |->
                   IF s \in targets /\ NeedsSnapshot(n, s)
                   THEN [n.prs[s] EXCEPT !.pendingSnap = TRUE] ELSE n.prs[s]]
           x == n.panic \/ \E to \in targets : CannotSend(n, to)
           q == [n EXCEPT !.out = @ \cup o, !.prs = r, !.panic = x]
<1>1. \A m \in o : Sound(m)
  BY AppsForSound
<1>2. SendAppends(n, targets) = q
  BY Zenon DEF SendAppends
<1>3. Quiet(n, q)
  BY <1>2, SendAppendsQuiet
<1> HIDE DEF o, r, x
<1>4. /\ q.learner = n.learner /\ q.log = n.log /\ q.confHistory = n.confHistory
      /\ q.snapshot = n.snapshot /\ q.state = n.state /\ q.votes = n.votes
      /\ q.out = n.out \cup o
  BY DEF Node
<1> HIDE DEF q
<1> QED
  BY <1>1, <1>2, <1>3, <1>4, SteadyStep DEF Static, InitialOnly

LEMMA BroadcastSteady ==
  ASSUME NEW n \in Node, Static(n)
  PROVE  Steady(n, BroadcastAppend(n))
BY ReplicationTargetsType, SendAppendsSteady DEF BroadcastAppend

LEMMA ApplyCommittedSteady ==
  ASSUME NEW n \in Node, Static(n)
  PROVE  Steady(n, ApplyCommitted(n))
<1> DEFINE a == n.applied \o Slice(n.log, n.lastApplied + 1, n.commitIndex + 1, 0)
           q == [n EXCEPT !.applied = a, !.lastApplied = n.commitIndex]
<1>1. ApplyCommitted(n) = IF n.commitIndex <= n.lastApplied THEN n ELSE q
  BY Zenon DEF ApplyCommitted
<1>2. CASE n.commitIndex <= n.lastApplied
  BY <1>1, <1>2, SteadySelf
<1>3. CASE ~(n.commitIndex <= n.lastApplied)
  <2>1. ApplyCommitted(n) = q /\ Quiet(n, q)
    BY <1>1, <1>3, ApplyCommittedQuiet
  <2> HIDE DEF a
  <2>2. /\ q.learner = n.learner /\ q.log = n.log /\ q.confHistory = n.confHistory
        /\ q.snapshot = n.snapshot /\ q.state = n.state /\ q.votes = n.votes
        /\ q.out = n.out
    BY DEF Node
  <2> HIDE DEF q
  <2> QED
    BY <2>1, <2>2, SteadyStep DEF Static, InitialOnly
<1> QED
  BY <1>2, <1>3

\* A follower, of whatever term, has no election and nothing to learn.
LEMMA BecomeFollowerStatic ==
  ASSUME NEW n \in Node, Static(n), NEW term \in Nat, NEW leader \in OptServer
  PROVE  /\ Static(BecomeFollower(n, term, leader))
         /\ BecomeFollower(n, term, leader).state = "Follower"
         /\ term <= n.term => Steady(n, BecomeFollower(n, term, leader))
<1> DEFINE q == BecomeFollower(n, term, leader)
<1>1. /\ q.learner = None /\ q.log = n.log /\ q.confHistory = n.confHistory
      /\ q.snapshot = n.snapshot /\ q.state = "Follower" /\ q.out = n.out
  BY DEF BecomeFollower, Node
<1>2. term <= n.term => Quiet(n, q)
  BY BecomeFollowerFollows
<1> HIDE DEF q
<1>3. Static(q)
  BY <1>1 DEF Static, InitialOnly
<1> QED
  BY <1>1, <1>2, <1>3 DEF q, Steady

LEMMA AfterCommitSteady ==
  ASSUME NEW n \in Node, Static(n)
  PROVE  Steady(n, AfterCommit(n))
<1>1. Steady(n, BecomeFollower(n, n.term, None))
  BY BecomeFollowerStatic, NodeFields DEF OptServer
<1> QED
  BY <1>1, SteadySelf DEF AfterCommit

LEMMA MaybeCommitSteady ==
  ASSUME NEW n \in Node, Static(n)
  PROVE  Steady(n, MaybeCommit(n))
<1> DEFINE k == QuorumMatch(n)
           b == [n EXCEPT !.commitIndex = k]
           c == AfterCommit(ApplyCommitted(b))
<1>1. CASE n.state = "Leader" /\ k \in n.commitIndex + 1 .. LastIndex(n.log)
             /\ CommittableAt(n, k)
  <2>1. k \in Nat
    BY <1>1, NodeFields, IndexType
  <2> HIDE DEF k
  <2>2. Quiet(n, b)
    BY <2>1 DEF Node, Quiet
  <2>3. /\ b.learner = n.learner /\ b.log = n.log /\ b.confHistory = n.confHistory
        /\ b.snapshot = n.snapshot /\ b.state = n.state /\ b.votes = n.votes
        /\ b.out = n.out
    BY DEF Node
  <2> HIDE DEF b
  <2>4. Steady(n, b)
    BY <2>2, <2>3, SteadyStep DEF Static, InitialOnly
  <2>5. Steady(b, ApplyCommitted(b))
    BY <2>4, SteadyStatic, ApplyCommittedSteady
  <2>6. Steady(ApplyCommitted(b), c)
    BY <2>5, SteadyStatic, AfterCommitSteady
  <2>7. Steady(n, c)
    BY <2>4, <2>5, <2>6, SteadyTwice, Zenon
  <2>8. Steady(c, BroadcastAppend(c))
    BY <2>7, SteadyStatic, BroadcastSteady
  <2>9. Steady(n, BroadcastAppend(c))
    BY <2>7, <2>8, SteadyTwice, Zenon
  <2>10. MaybeCommit(n) = IF c.state = "Leader" THEN BroadcastAppend(c) ELSE c
    BY <1>1, Zenon DEF MaybeCommit, b, k
  <2> QED
    BY <2>7, <2>9, <2>10, Zenon
<1>2. CASE ~(n.state = "Leader" /\ k \in n.commitIndex + 1 .. LastIndex(n.log)
               /\ CommittableAt(n, k))
  <2>1. MaybeCommit(n) = n
    BY <1>2, Zenon DEF MaybeCommit
  <2> QED
    BY <2>1, SteadySelf, Zenon
<1> QED
  BY <1>1, <1>2

LEMMA MaybeCommitThenBroadcastSteady ==
  ASSUME NEW n \in Node, Static(n)
  PROVE  Steady(n, MaybeCommitThenBroadcast(n))
<1> DEFINE c == MaybeCommit(n)
<1>1. Steady(n, c)
  BY MaybeCommitSteady
<1>2. Steady(c, BroadcastAppend(c))
  BY <1>1, SteadyStatic, BroadcastSteady
<1>3. Steady(n, BroadcastAppend(c))
  BY <1>1, <1>2, SteadyTwice, Zenon
<1> QED
  BY <1>1, <1>3, Zenon DEF MaybeCommitThenBroadcast

\* The leader appends commands and its no-op, never a configuration.
LEMMA AppendEntrySteady ==
  ASSUME NEW n \in Node, Static(n), NEW type, NEW data,
         \/ type = "Normal" /\ data \in Value
         \/ type = "Noop"   /\ data = None
  PROVE  Steady(n, AppendEntry(n, type, data))
<1> DEFINE e == [index |-> LastIndex(n.log) + 1, term |-> n.term, type |-> type,
                 data |-> data]
           fresh == IF type = "Config"
                    THEN {v \in data \ {n.id} : n.prs[v] = NoProgress} ELSE {}
           l == AppendLog(n.log, <<e>>)
           h == n.confHistory \cup ConfigRecords(<<e>>)
           r == [s \in Server |-> IF s \in fresh THEN NewProgress(e.index + 1)
                                  ELSE n.prs[s]]
           i == MarkAppended(n, e.index)
           q == [n EXCEPT !.log = l, !.appendedFrom = i, !.confHistory = h, !.prs = r]
<1>1. e \in Entry /\ e.type # "Config"
  BY NodeFields, IndexType DEF Entry
<1>2. AppendEntry(n, type, data) = q
  BY Zenon DEF AppendEntry
<1>3. Quiet(n, q)
  BY <1>2, AppendEntryQuiet
<1> HIDE DEF e
<1>4. <<e>> \in Seq(Entry) /\ Plain(<<e>>)
  BY <1>1 DEF Plain
<1>5. h = n.confHistory
  BY <1>4, PlainRecords
<1>6. Plain(l.entries)
  <2>1. Plain(n.log.entries \o <<e>>)
    BY <1>4, PlainConcat, NodeFields, LogFields DEF Static, InitialOnly
  <2>2. l.entries = n.log.entries \o <<e>>
    BY NodeFields DEF AppendLog, Log
  <2> QED
    BY <2>1, <2>2, Zenon
<1> HIDE DEF l, h, r, i
<1>7. /\ q.learner = n.learner /\ q.log = l /\ q.confHistory = h
      /\ q.snapshot = n.snapshot /\ q.state = n.state /\ q.votes = n.votes
      /\ q.out = n.out
  BY DEF Node
<1> HIDE DEF q
<1> QED
  BY <1>2, <1>3, <1>5, <1>6, <1>7, SteadyStep DEF Static, InitialOnly

LEMMA ProposeSteady ==
  ASSUME NEW n \in Node, Static(n), NEW v \in Value
  PROVE  Steady(n, Propose(n, v))
<1> DEFINE a == AppendEntry(n, "Normal", v)
<1>1. Steady(n, a)
  BY AppendEntrySteady
<1>2. Steady(a, MaybeCommitThenBroadcast(a))
  BY <1>1, SteadyStatic, MaybeCommitThenBroadcastSteady
<1>3. Steady(n, MaybeCommitThenBroadcast(a))
  BY <1>1, <1>2, SteadyTwice, Zenon
<1> QED
  BY <1>3, SteadySelf, Zenon DEF Propose

LEMMA AppReplySteady ==
  ASSUME NEW n \in Node, Static(n), NEW m \in Message, NEW success \in BOOLEAN,
         NEW match \in Nat, NEW ci \in Nat, NEW ct \in Nat
  PROVE  Steady(n, AppReply(n, m, success, match, ci, ct))
<1> DEFINE r == [type |-> "AppResp", from |-> n.id, to |-> m.from, term |-> n.term,
                 success |-> success, matchIndex |-> match,
                 conflictIndex |-> ci, conflictTerm |-> ct]
<1>1. r \in Message /\ ~Granted(r) /\ Sound(r)
  BY NodeFields, MessageEnds DEF AppResp, Message, Granted, Sound
<1>2. AppReply(n, m, success, match, ci, ct) = Send(n, {r})
  BY Zenon DEF AppReply
<1> HIDE DEF r
<1> QED
  BY <1>1, <1>2, SendSteady

\* A follower that adopts plain entries has a plain log, and its history of
\* configurations only shrinks.
LEMMA AcceptEntriesSteady ==
  ASSUME NEW n \in Node, Static(n), NEW ents \in Seq(Entry), Plain(ents)
  PROVE  Steady(n, AcceptEntries(n, ents))
<1> DEFINE differs  == {k \in 1 .. Len(ents) : ~SameAt(n.log, ents[k].index, ents[k].term)}
           k        == Min(differs)
           at       == ents[k].index
           new      == SubSeq(ents, k, Len(ents))
           conflict == HasTerm(n.log, at)
           base     == IF conflict THEN TruncateFrom(n.log, at) ELSE n.log
           confs    == IF conflict THEN TruncateConfigsFrom(n.confHistory, at)
                       ELSE n.confHistory
           l        == AppendLog(base, new)
           h        == confs \cup ConfigRecords(new)
           i        == MarkAppended(n, at)
           x        == \/ n.panic
                       \/ conflict /\ at <= n.commitIndex
                       \/ at # LastIndex(base) + 1
           q        == [n EXCEPT !.log = l, !.confHistory = h, !.appendedFrom = i,
                                 !.panic = x]
<1>1. CASE differs = {}
  <2>1. AcceptEntries(n, ents) = n
    BY <1>1, Zenon DEF AcceptEntries
  <2> QED
    BY <2>1, SteadySelf
<1>2. CASE differs # {}
  <2>1. k \in 1 .. Len(ents)
    <3>1. differs \in SUBSET Nat
      BY LenProperties
    <3>2. k \in differs
      BY <1>2, <3>1, MinOfNat, Zenon
    <3> QED
      BY <3>2
  <2> HIDE DEF k
  <2>2. ents[k] \in Entry /\ Len(ents) \in Nat
    BY <2>1, ElementOfSeq, LenProperties
  <2>3. at \in Nat
    BY <2>2, EntryFields
  <2>4. new \in Seq(Entry) /\ Plain(new)
    BY <2>1, <2>2, PartType, PlainPart
  <2>5. base \in Log /\ Plain(base.entries)
    <3>1. conflict => at <= LastIndex(n.log) + 1
      BY <2>3, NodeFields, LogFields, IndexType DEF HasTerm
    <3>2. conflict => TruncateFrom(n.log, at) \in Log
      BY <2>3, <3>1, NodeFields, TruncateFromType
    <3>3. conflict => Plain(SubSeq(n.log.entries, 1, at - n.log.snapIndex - 1))
      BY <2>3, <3>1, NodeFields, LogFields, PlainPart, SMTT(30) DEF LastIndex, Static, InitialOnly
    <3>4. TruncateFrom(n.log, at).entries = SubSeq(n.log.entries, 1, at - n.log.snapIndex - 1)
      BY NodeFields DEF TruncateFrom, Log
    <3> QED
      BY <3>2, <3>3, <3>4, NodeFields DEF Static, InitialOnly
  <2>6. Unchanged(confs)
    <3>1. Unchanged(n.confHistory) /\ at \in Int
      BY <2>3 DEF Static, InitialOnly
    <3>2. Unchanged(TruncateConfigsFrom(n.confHistory, at))
      BY <3>1, UnchangedHistories
    <3> QED
      BY <3>1, <3>2
  <2>7. AcceptEntries(n, ents) = q
    BY <1>2, Zenon DEF AcceptEntries, k
  <2>8. Quiet(n, q)
    BY <2>7, AcceptEntriesQuiet
  <2> HIDE DEF at, new, base, confs, conflict
  <2>9. h = confs
    BY <2>4, PlainRecords
  <2>10. Plain(l.entries)
    <3>1. Plain(base.entries \o new)
      BY <2>4, <2>5, PlainConcat, LogFields
    <3>2. l.entries = base.entries \o new
      BY <2>5 DEF AppendLog, Log
    <3> QED
      BY <3>1, <3>2, Zenon
  <2> HIDE DEF l, h, i, x
  <2>11. /\ q.learner = n.learner /\ q.log = l /\ q.confHistory = h
         /\ q.snapshot = n.snapshot /\ q.state = n.state /\ q.votes = n.votes
         /\ q.out = n.out
    BY DEF Node
  <2> HIDE DEF q
  <2> QED
    BY <2>6, <2>7, <2>8, <2>9, <2>10, <2>11, SteadyStep DEF Static, InitialOnly
<1> QED
  BY <1>1, <1>2

LEMMA AdvanceCommitSteady ==
  ASSUME NEW n \in Node, Static(n), NEW commit \in Nat, NEW lastNew \in Nat
  PROVE  Steady(n, AdvanceCommit(n, commit, lastNew))
<1> DEFINE c == Min({commit, lastNew})
           b == [n EXCEPT !.commitIndex = c]
<1>1. c \in Nat
  BY MinOfTwo
<1>2. AdvanceCommit(n, commit, lastNew) = IF c > n.commitIndex THEN ApplyCommitted(b) ELSE n
  BY Zenon DEF AdvanceCommit
<1> HIDE DEF c
<1>3. Quiet(n, b)
  BY <1>1 DEF Node, Quiet
<1>4. /\ b.learner = n.learner /\ b.log = n.log /\ b.confHistory = n.confHistory
      /\ b.snapshot = n.snapshot /\ b.state = n.state /\ b.votes = n.votes
      /\ b.out = n.out
  BY DEF Node
<1> HIDE DEF b
<1>5. Steady(n, b)
  BY <1>3, <1>4, SteadyStep DEF Static, InitialOnly
<1>6. Steady(b, ApplyCommitted(b))
  BY <1>5, SteadyStatic, ApplyCommittedSteady
<1>7. Steady(n, ApplyCommitted(b))
  BY <1>5, <1>6, SteadyTwice, Zenon
<1> QED
  BY <1>2, <1>7, SteadySelf, Zenon

LEMMA RejectAppSteady ==
  ASSUME NEW n \in Node, Static(n), NEW m \in Message, NEW prev \in Nat
  PROVE  Steady(n, RejectApp(n, m, prev))
<1>1. TermAt(n.log, prev) \in Nat
  BY NodeFields, TermAtType
<1>2. FirstIndexOfTerm(n.log, prev, TermAt(n.log, prev)) \in Nat
  BY NodeFields, FirstIndexOfTermType
<1>3. LastIndex(n.log) + 1 \in Nat
  BY NodeFields, IndexType
<1> QED
  BY <1>1, <1>2, <1>3, AppReplySteady DEF RejectApp

LEMMA HandleAppAsFollowerSteady ==
  ASSUME NEW n \in Node, Static(n), NEW m \in App, Sound(m)
  PROVE  Steady(n, HandleAppAsFollower(n, m))
<1> DEFINE covered == m.prevLogIndex < n.log.snapIndex
           skip == IF covered THEN n.log.snapIndex - m.prevLogIndex ELSE 0
           ents == SubSeq(m.entries, skip + 1, Len(m.entries))
           prev == m.prevLogIndex + skip
           lastNew == prev + Len(ents)
           a == AcceptEntries(n, ents)
           c == AdvanceCommit(a, m.commit, lastNew)
<1>1. /\ m \in Message /\ m.prevLogIndex \in Nat /\ m.entries \in Seq(Entry)
      /\ m.commit \in Nat /\ Plain(m.entries)
  BY DEF App, Message, Sound
<1>2. n.log.snapIndex \in Nat
  BY NodeFields, LogFields
<1>3. skip \in Nat /\ prev \in Nat /\ Len(m.entries) \in Nat
  BY <1>1, <1>2, LenProperties
<1>4. ents \in Seq(Entry) /\ Plain(ents)
  BY <1>1, <1>3, PartType, PlainPart
<1>5. HandleAppAsFollower(n, m) =
        IF covered /\ Len(m.entries) <= skip
        THEN AppReply(n, m, TRUE, n.log.snapIndex, 0, 0)
        ELSE IF ~SameAt(n.log, prev, m.prevLogTerm) THEN RejectApp(n, m, prev)
        ELSE AppReply(c, m, TRUE, lastNew, 0, 0)
  BY Zenon DEF HandleAppAsFollower
<1> HIDE DEF skip, prev, covered, ents
<1>6. lastNew \in Nat
  BY <1>3, <1>4, LenProperties
<1>7. Steady(n, a) /\ a \in Node /\ Static(a)
  BY <1>4, AcceptEntriesSteady, SteadyStatic
<1> HIDE DEF a, lastNew
<1>8. Steady(a, c) /\ c \in Node /\ Static(c)
  BY <1>1, <1>6, <1>7, AdvanceCommitSteady, SteadyStatic
<1> HIDE DEF c
<1>9. Steady(c, AppReply(c, m, TRUE, lastNew, 0, 0))
  BY <1>1, <1>6, <1>8, AppReplySteady
<1>10. Steady(n, AppReply(c, m, TRUE, lastNew, 0, 0))
  BY <1>7, <1>8, <1>9, SteadyTwice, Zenon
<1>11. Steady(n, AppReply(n, m, TRUE, n.log.snapIndex, 0, 0))
  BY <1>1, <1>2, AppReplySteady
<1>12. Steady(n, RejectApp(n, m, prev))
  BY <1>1, <1>3, RejectAppSteady
<1> QED
  BY <1>5, <1>10, <1>11, <1>12

LEMMA FollowerOfStatic ==
  ASSUME NEW n \in Node, Static(n), NEW m \in Message
  PROVE  /\ FollowerOf(n, m) \in Node /\ Static(FollowerOf(n, m))
         /\ FollowerOf(n, m).state = "Follower"
<1>1. m.from \in OptServer /\ m.term \in Nat
  BY MessageEnds DEF OptServer
<1>2. FollowerOf(n, m) \in Node
  BY FollowerOfFollows DEF Follows
<1> DEFINE q == [n EXCEPT !.leaderID = m.from]
<1>3. /\ q.learner = n.learner /\ q.log = n.log /\ q.confHistory = n.confHistory
      /\ q.snapshot = n.snapshot /\ q.state = n.state /\ q.out = n.out
  BY DEF Node
<1> HIDE DEF q
<1>4. Static(q)
  BY <1>3 DEF Static, InitialOnly
<1> QED
  BY <1>1, <1>2, <1>3, <1>4, BecomeFollowerStatic, Zenon DEF FollowerOf, q

LEMMA HandleAppStatic ==
  ASSUME NEW n \in Node, Static(n), NEW m \in App, Sound(m)
  PROVE  /\ Static(HandleApp(n, m))
         /\ HandleApp(n, m) = n \/ HandleApp(n, m).state = "Follower"
<1> DEFINE f == FollowerOf(n, m)
           q == HandleAppAsFollower(f, m)
<1>1. f \in Node /\ Static(f) /\ f.state = "Follower"
  BY FollowerOfStatic DEF Message
<1> HIDE DEF f
<1>2. Steady(f, q)
  BY <1>1, HandleAppAsFollowerSteady
<1>3. Static(q) /\ q.state = "Follower"
  BY <1>1, <1>2 DEF Steady
<1> QED
  BY <1>3, Zenon DEF HandleApp, f

LEMMA AckSteady ==
  ASSUME NEW n \in Node, Static(n), NEW from \in Server, NEW match \in Nat
  PROVE  Steady(n, Ack(n, from, match))
<1> DEFINE p == [next |-> Max({Max({match, n.prs[from].match}) + 1, n.prs[from].next}),
                 match |-> Max({match, n.prs[from].match}),
                 recentActive |-> TRUE, pendingSnap |-> FALSE]
           q == [n EXCEPT !.prs[from] = p]
<1>1. Ack(n, from, match) = q
  BY Zenon DEF Ack
<1>2. Quiet(n, q)
  BY <1>1, AckQuiet
<1> HIDE DEF p
<1>3. /\ q.learner = n.learner /\ q.log = n.log /\ q.confHistory = n.confHistory
      /\ q.snapshot = n.snapshot /\ q.state = n.state /\ q.votes = n.votes
      /\ q.out = n.out
  BY DEF Node
<1> HIDE DEF q
<1> QED
  BY <1>1, <1>2, <1>3, SteadyStep DEF Static, InitialOnly

\* There is no learner to promote.
LEMMA MaybePromoteLearnerSteady ==
  ASSUME NEW n \in Node, Static(n), NEW from \in Server
  PROVE  Steady(n, MaybePromoteLearner(n, from))
<1>1. n.learner # from
  BY ServerAssumption DEF Static, InitialOnly
<1>2. MaybePromoteLearner(n, from) = n
  BY <1>1, Zenon DEF MaybePromoteLearner
<1> QED
  BY <1>2, SteadySelf, Zenon

LEMMA SendTimeoutNowSteady ==
  ASSUME NEW n \in Node, Static(n), NEW to \in Server
  PROVE  Steady(n, SendTimeoutNow(n, to))
<1> DEFINE r == [type |-> "TimeoutNow", from |-> n.id, to |-> to, term |-> n.term]
<1>1. r \in Message /\ ~Granted(r) /\ Sound(r)
  BY NodeFields DEF TimeoutNow, Message, Granted, Sound
<1>2. SendTimeoutNow(n, to) = Send(n, {r})
  BY Zenon DEF SendTimeoutNow
<1> HIDE DEF r
<1> QED
  BY <1>1, <1>2, SendSteady

LEMMA AfterAckSteady ==
  ASSUME NEW n \in Node, Static(n), NEW from \in Server, NEW match \in Nat,
         NEW isApp \in BOOLEAN
  PROVE  Steady(n, AfterAck(n, from, match, isApp))
<1> DEFINE k == Ack(n, from, match)
           a == MaybeCommit(k)
           b == IF isApp /\ a.transferee = from /\ CaughtUp(a, from)
                THEN SendTimeoutNow(a, from) ELSE a
           c == MaybePromoteLearner(b, from)
           d == SendAppends(c, {from})
<1>1. AfterAck(n, from, match, isApp) =
        IF a.state # "Leader" THEN a
        ELSE IF c.prs[from].next <= LastIndex(c.log) THEN d ELSE c
  BY Zenon DEF AfterAck
<1>2. Steady(n, k)
  BY AckSteady
<1> HIDE DEF k
<1>3. Steady(k, a)
  BY <1>2, MaybeCommitSteady, SteadyStatic
<1> HIDE DEF a
<1>4. Steady(a, b)
  BY <1>3, SendTimeoutNowSteady, SteadySelf, SteadyStatic
<1> HIDE DEF b
<1>5. Steady(b, c)
  BY <1>4, MaybePromoteLearnerSteady, SteadyStatic
<1> HIDE DEF c
<1>6. Steady(c, d)
  BY <1>5, SendAppendsSteady, SteadyStatic
<1> HIDE DEF d
<1>7. Steady(n, a) /\ Steady(n, c) /\ Steady(n, d)
  BY <1>2, <1>3, <1>4, <1>5, <1>6, SteadyTwice, Zenon
<1> QED
  BY <1>1, <1>7

LEMMA HandleAppRespSteady ==
  ASSUME NEW n \in Node, Static(n), NEW m \in AppResp
  PROVE  Steady(n, HandleAppResp(n, m))
<1> DEFINE k == NextAfterReject(n, m)
           r == [n.prs EXCEPT ![m.from].recentActive = TRUE, ![m.from].next = k]
           b == [n EXCEPT !.prs = r]
           d == SendAppends(b, {m.from})
<1>1. m.from \in Server /\ m.matchIndex \in Nat /\ m.success \in BOOLEAN
  BY DEF AppResp
<1>2. Steady(n, AfterAck(n, m.from, m.matchIndex, TRUE))
  BY <1>1, AfterAckSteady
<1>3. ASSUME ~IgnoresAck(n, m), ~m.success
      PROVE  Steady(n, HandleAppResp(n, m))
  <2>1. k \in Nat \ {0} /\ n.prs[m.from] \in Progress /\ n.prs[m.from] # NoProgress
    BY <1>1, <1>3, NodeFields, NextAfterRejectType DEF IgnoresAck
  <2> HIDE DEF k
  <2>2. r \in [Server -> Progress]
    <3> DEFINE p == [n.prs[m.from] EXCEPT !.recentActive = TRUE, !.next = k]
    <3>1. n.prs[m.from] \in [next : Nat \ {0}, match : Nat, recentActive : BOOLEAN,
                             pendingSnap : BOOLEAN]
      BY <2>1 DEF Progress
    <3>2. p \in Progress
      BY <2>1, <3>1 DEF Progress
    <3>3. r = [n.prs EXCEPT ![m.from] = p]
      BY <1>1, NodeFields
    <3> HIDE DEF p, r
    <3> QED
      BY <3>2, <3>3, NodeFields
  <2>3. HandleAppResp(n, m) =
          SendAppends([n EXCEPT !.prs[m.from].recentActive = TRUE,
                                !.prs[m.from].next = k], {m.from})
    BY <1>3, Zenon DEF HandleAppResp, k
  <2>4. [n EXCEPT !.prs[m.from].recentActive = TRUE, !.prs[m.from].next = k] = b
    BY <1>1, NodeFields DEF Node
  <2> HIDE DEF r
  <2>5. Quiet(n, b)
    BY <2>2 DEF Node, Quiet
  <2>6. /\ b.learner = n.learner /\ b.log = n.log /\ b.confHistory = n.confHistory
        /\ b.snapshot = n.snapshot /\ b.state = n.state /\ b.votes = n.votes
        /\ b.out = n.out
    BY DEF Node
  <2> HIDE DEF b
  <2>7. Steady(n, b)
    BY <2>5, <2>6, SteadyStep DEF Static, InitialOnly
  <2>8. Steady(b, d)
    BY <1>1, <2>7, SendAppendsSteady, SteadyStatic
  <2> QED
    BY <2>3, <2>4, <2>7, <2>8, SteadyTwice, Zenon
<1> QED
  BY <1>2, <1>3, SteadySelf, Zenon DEF HandleAppResp

LEMMA HandleSnapRespSteady ==
  ASSUME NEW n \in Node, Static(n), NEW m \in SnapResp
  PROVE  Steady(n, HandleSnapResp(n, m))
<1>1. m.from \in Server /\ m.matchIndex \in Nat
  BY DEF SnapResp
<1>2. Steady(n, AfterAck(n, m.from, m.matchIndex, FALSE))
  BY <1>1, AfterAckSteady
<1> QED
  BY <1>2, SteadySelf, Zenon DEF HandleSnapResp

\* A snapshot takes its configuration from the history.
LEMMA CreateSnapshotSteady ==
  ASSUME NEW n \in Node, Static(n), NEW index \in Nat, NEW data \in Seq(Entry)
  PROVE  Steady(n, CreateSnapshot(n, index, data))
<1> DEFINE t == TermAt(n.log, index)
           l == Compact(n.log, index, t)
           h == PruneConfHistory(n.confHistory, index)
           s == [index |-> index, term |-> t,
                 config |-> ConfigAt(n.confHistory, index), data |-> data]
           x == n.panic \/ index > n.lastApplied \/ ~HasTerm(n.log, index)
           q == [n EXCEPT !.log = l, !.snapshot = s, !.confHistory = h,
                          !.snapDirty = "keep", !.panic = x]
<1>1. CreateSnapshot(n, index, data) = IF index <= n.log.snapIndex THEN n ELSE q
  BY Zenon DEF CreateSnapshot
<1>2. CASE index <= n.log.snapIndex
  BY <1>1, <1>2, SteadySelf
<1>3. CASE ~(index <= n.log.snapIndex)
  <2>1. CreateSnapshot(n, index, data) = q /\ Quiet(n, q)
    BY <1>1, <1>3, CreateSnapshotQuiet
  <2>2. Plain(l.entries)
    <3>1. Plain(SubSeq(n.log.entries, index - n.log.snapIndex + 1, Len(n.log.entries)))
      BY <1>3, PlainPart, NodeFields, LogFields DEF Static, InitialOnly
    <3> QED
      BY <1>3, <3>1 DEF Compact
  <2>3. Unchanged(h) /\ OfInitial(s)
    BY UnchangedHistories DEF Static, InitialOnly, OfInitial
  <2> HIDE DEF l, h, s, x
  <2>4. /\ q.learner = n.learner /\ q.log = l /\ q.confHistory = h
        /\ q.snapshot = s /\ q.state = n.state /\ q.votes = n.votes
        /\ q.out = n.out
    BY DEF Node
  <2> HIDE DEF q
  <2> QED
    BY <2>1, <2>2, <2>3, <2>4, SteadyStep DEF Static, InitialOnly
<1> QED
  BY <1>2, <1>3

LEMMA SnapReplySteady ==
  ASSUME NEW n \in Node, Static(n), NEW m \in Message, NEW match \in Nat
  PROVE  Steady(n, SnapReply(n, m, match))
<1> DEFINE r == [type |-> "SnapResp", from |-> n.id, to |-> m.from, term |-> n.term,
                 matchIndex |-> match]
<1>1. r \in Message /\ ~Granted(r) /\ Sound(r)
  BY NodeFields, MessageEnds DEF SnapResp, Message, Granted, Sound
<1>2. SnapReply(n, m, match) = Send(n, {r})
  BY Zenon DEF SnapReply
<1> HIDE DEF r
<1> QED
  BY <1>1, <1>2, SendSteady

LEMMA InstallKeepingSuffixSteady ==
  ASSUME NEW n \in Node, Static(n), NEW s \in Snapshot, OfInitial(s)
  PROVE  Steady(n, InstallKeepingSuffix(n, s))
<1> DEFINE b == [n EXCEPT !.commitIndex = s.index]
           a == ApplyCommitted(b)
           l == Compact(a.log, s.index, s.term)
           h == PruneConfHistory(a.confHistory, s.index)
           q == [a EXCEPT !.log = l, !.snapshot = s, !.confHistory = h, !.snapDirty = "keep"]
<1>1. InstallKeepingSuffix(n, s) = q
  BY Zenon DEF InstallKeepingSuffix
<1>2. Steady(n, b)
  <2>1. Quiet(n, b)
    BY SnapshotFields DEF Node, Quiet
  <2>2. /\ b.learner = n.learner /\ b.log = n.log /\ b.confHistory = n.confHistory
        /\ b.snapshot = n.snapshot /\ b.state = n.state /\ b.votes = n.votes
        /\ b.out = n.out
    BY DEF Node
  <2> HIDE DEF b
  <2> QED
    BY <2>1, <2>2, SteadyStep DEF Static, InitialOnly
<1> HIDE DEF b
<1>3. Steady(b, a) /\ a \in Node /\ Static(a)
  BY <1>2, ApplyCommittedSteady, SteadyStatic
<1> HIDE DEF a
<1>4. l \in Log /\ h \in SUBSET ConfRecord
  BY <1>3, NodeFields, SnapshotFields, CompactType, ConfHistoryTypes
<1>5. Plain(l.entries)
  <2>1. CASE s.index <= a.log.snapIndex
    BY <1>3, <2>1 DEF Compact, Static, InitialOnly
  <2>2. CASE ~(s.index <= a.log.snapIndex)
    <3>1. Plain(SubSeq(a.log.entries, s.index - a.log.snapIndex + 1, Len(a.log.entries)))
      BY <1>3, <2>2, PlainPart, NodeFields, LogFields, SnapshotFields DEF Static, InitialOnly
    <3> QED
      BY <2>2, <3>1 DEF Compact
  <2> QED
    BY <2>1, <2>2
<1>6. Unchanged(h)
  BY <1>3, SnapshotFields, UnchangedHistories DEF Static, InitialOnly
<1> HIDE DEF l, h
<1>7. Quiet(a, q)
  BY <1>3, <1>4 DEF Node, Quiet
<1>8. /\ q.learner = a.learner /\ q.log = l /\ q.confHistory = h
      /\ q.snapshot = s /\ q.state = a.state /\ q.votes = a.votes /\ q.out = a.out
  BY <1>3 DEF Node
<1> HIDE DEF q
<1>9. Steady(a, q)
  BY <1>3, <1>5, <1>6, <1>7, <1>8, SteadyStep DEF Static, InitialOnly
<1> QED
  BY <1>1, <1>2, <1>3, <1>9, SteadyTwice, Zenon

LEMMA InstallReplacingSteady ==
  ASSUME NEW n \in Node, Static(n), NEW s \in Snapshot, s.config = InitialVoters
  PROVE  Steady(n, InstallReplacing(n, s))
<1> DEFINE l == ResetLog(s.index, s.term)
           h == InitConfHistory(s.index, s.config)
           i == s.index
           q == [n EXCEPT !.log = l, !.commitIndex = i, !.lastApplied = i, !.snapshot = s,
                          !.confHistory = h, !.snapDirty = "replace"]
<1>1. InstallReplacing(n, s) = q
  BY Zenon DEF InstallReplacing
<1>2. Quiet(n, q)
  BY <1>1, InstallReplacingQuiet
<1>3. Plain(l.entries) /\ Unchanged(h)
  BY PlainEmpty, SnapshotFields DEF ResetLog, InitConfHistory, Unchanged
<1> HIDE DEF l, h, i
<1>4. /\ q.learner = n.learner /\ q.log = l /\ q.confHistory = h
      /\ q.snapshot = s /\ q.state = n.state /\ q.votes = n.votes /\ q.out = n.out
  BY DEF Node
<1> HIDE DEF q
<1> QED
  BY <1>1, <1>2, <1>3, <1>4, SteadyStep DEF Static, InitialOnly, OfInitial

LEMMA HandleSnapStatic ==
  ASSUME NEW n \in Node, Static(n), NEW m \in Snap, Sound(m)
  PROVE  Static(HandleSnap(n, m)) /\ HandleSnap(n, m).state = "Follower"
<1> DEFINE f == FollowerOf(n, m)
           s == m.snapshot
           k == InstallKeepingSuffix(f, s)
           r == InstallReplacing(f, s)
           q == HandleSnap(n, m)
<1>1. m \in Message /\ s \in Snapshot /\ OfInitial(s)
  BY DEF Message, Snap, Sound
<1>2. f \in Node /\ Static(f) /\ f.state = "Follower"
  BY <1>1, FollowerOfStatic
<1>3. \/ q = SnapReply(f, m, f.commitIndex)
      \/ q = SnapReply(k, m, s.index)
      \/ q = SnapReply(r, m, s.index) /\ ~(s.index <= f.commitIndex)
  BY Zenon DEF HandleSnap
<1> HIDE DEF f, s, q
<1>4. Steady(f, SnapReply(f, m, f.commitIndex))
  BY <1>1, <1>2, NodeFields, SnapReplySteady
<1>5. Steady(f, k) /\ k \in Node /\ Static(k)
  BY <1>1, <1>2, InstallKeepingSuffixSteady, SteadyStatic
<1>6. Steady(k, SnapReply(k, m, s.index))
  BY <1>1, <1>5, SnapshotFields, SnapReplySteady
<1>7. ASSUME ~(s.index <= f.commitIndex) PROVE Steady(f, SnapReply(r, m, s.index))
  <2>1. s # NoSnapshot
    BY <1>2, <1>7, NodeFields DEF NoSnapshot
  <2>2. Steady(f, r) /\ r \in Node /\ Static(r)
    BY <1>1, <1>2, <2>1, InstallReplacingSteady, SteadyStatic DEF OfInitial
  <2> HIDE DEF r
  <2>3. Steady(r, SnapReply(r, m, s.index))
    BY <1>1, <2>2, SnapshotFields, SnapReplySteady
  <2> QED
    BY <2>2, <2>3, SteadyTwice
<1> HIDE DEF k, r
<1>9. Steady(f, q)
  BY <1>3, <1>4, <1>5, <1>6, <1>7, SteadyTwice
<1>8. Static(q) /\ q.state = "Follower"
  BY <1>2, <1>9 DEF Steady
<1> QED
  BY <1>8 DEF q

LEMMA TransferLeadershipSteady ==
  ASSUME NEW n \in Node, Static(n), NEW target \in Server
  PROVE  Steady(n, TransferLeadership(n, target))
<1> DEFINE t == [n EXCEPT !.transferee = target]
           q == TransferLeadership(n, target)
<1>1. q \in {n, SendTimeoutNow(t, target), SendAppends(t, {target})}
  BY Zenon DEF TransferLeadership
<1>2. Quiet(n, t)
  BY DEF Node, Quiet, OptServer
<1>3. /\ t.learner = n.learner /\ t.log = n.log /\ t.confHistory = n.confHistory
      /\ t.snapshot = n.snapshot /\ t.state = n.state /\ t.votes = n.votes
      /\ t.out = n.out
  BY DEF Node
<1> HIDE DEF t, q
<1>4. Steady(n, t) /\ t \in Node /\ Static(t)
  BY <1>2, <1>3, SteadyStep, SteadyStatic DEF Static, InitialOnly
<1>5. Steady(t, SendTimeoutNow(t, target)) /\ Steady(t, SendAppends(t, {target}))
  BY <1>4, SendTimeoutNowSteady, SendAppendsSteady
<1>6. Steady(n, q)
  BY <1>1, <1>4, <1>5, SteadyTwice, SteadySelf
<1> QED
  BY <1>6 DEF q

LEMMA TickLeaderSteady ==
  ASSUME NEW n \in Node, Static(n), NEW transferDue \in BOOLEAN, NEW quorumDue \in BOOLEAN,
         NEW heartbeatDue \in BOOLEAN
  PROVE  Steady(n, TickLeader(n, transferDue, quorumDue, heartbeatDue))
<1> DEFINE t == [n EXCEPT !.transferee = None]
           a == AfterTransferTick(n, transferDue)
           r == [s \in Server |->
                   IF s \in ReplicationTargets(a) /\ a.prs[s] # NoProgress
                   THEN NewPeriod(a.prs[s]) ELSE a.prs[s]]
           u == [a EXCEPT !.prs = r]
           b == IF quorumDue THEN u ELSE a
           f == BecomeFollower(a, a.term, None)
           q == TickLeader(n, transferDue, quorumDue, heartbeatDue)
<1>1. q \in {f, BroadcastAppend(b), b}
  BY Zenon DEF TickLeader
<1>2. Steady(n, a)
  <2>1. Quiet(n, t)
    BY DEF Node, Quiet, OptServer
  <2>2. /\ t.learner = n.learner /\ t.log = n.log /\ t.confHistory = n.confHistory
        /\ t.snapshot = n.snapshot /\ t.state = n.state /\ t.votes = n.votes
        /\ t.out = n.out
    BY DEF Node
  <2>3. a = IF transferDue THEN t ELSE n
    BY Zenon DEF AfterTransferTick
  <2> HIDE DEF t, a
  <2>4. Steady(n, t)
    BY <2>1, <2>2, SteadyStep DEF Static, InitialOnly
  <2> QED
    BY <2>3, <2>4, SteadySelf
<1> HIDE DEF a, q
<1>3. a \in Node /\ Static(a)
  BY <1>2, SteadyStatic
<1>4. r \in [Server -> Progress]
  <2>1. \A s \in Server : a.prs[s] \in Progress
    BY <1>3, NodeFields
  <2>2. ASSUME NEW s \in Server, a.prs[s] # NoProgress
        PROVE  NewPeriod(a.prs[s]) \in Progress
    <3>1. a.prs[s] \in [next : Nat \ {0}, match : Nat, recentActive : BOOLEAN,
                        pendingSnap : BOOLEAN]
      BY <2>1, <2>2 DEF Progress
    <3> QED
      BY <3>1 DEF NewPeriod, Progress
  <2> QED
    BY <2>1, <2>2
<1> HIDE DEF r
<1>5. Steady(a, u)
  <2>1. Quiet(a, u)
    BY <1>3, <1>4 DEF Node, Quiet
  <2>2. /\ u.learner = a.learner /\ u.log = a.log /\ u.confHistory = a.confHistory
        /\ u.snapshot = a.snapshot /\ u.state = a.state /\ u.votes = a.votes
        /\ u.out = a.out
    BY <1>3 DEF Node
  <2> HIDE DEF u
  <2> QED
    BY <1>3, <2>1, <2>2, SteadyStep DEF Static, InitialOnly
<1>6. Steady(a, b) /\ b \in Node /\ Static(b)
  BY <1>3, <1>5, SteadySelf, SteadyStatic
<1> HIDE DEF b
<1>7. Steady(b, BroadcastAppend(b))
  BY <1>6, BroadcastSteady
<1>8. Steady(a, f)
  BY <1>3, BecomeFollowerStatic, NodeFields DEF OptServer
<1> HIDE DEF f
<1>9. Steady(n, q)
  BY <1>1, <1>2, <1>6, <1>7, <1>8, SteadyTwice
<1> QED
  BY <1>9 DEF q

LEMMA HandlePreVoteSteady ==
  ASSUME NEW n \in Node, Static(n), NEW m \in VoteReq, NEW fresh \in BOOLEAN
  PROVE  Steady(n, HandlePreVote(n, m, fresh))
<1> DEFINE granted == /\ m.term > n.term
                      /\ LogUpToDate(n, m.lastLogIndex, m.lastLogTerm)
                      /\ ~Sticky(n, m, fresh)
           term == IF granted THEN m.term ELSE n.term
           reply == VoteReply(n, m, term, TRUE, granted)
<1>1. granted \in BOOLEAN /\ term \in Nat /\ m \in Message
  BY NodeFields DEF VoteReq, Message
<1>2. HandlePreVote(n, m, fresh) = Send(n, reply)
  BY Zenon DEF HandlePreVote
<1> HIDE DEF granted, term
<1>3. reply \in SUBSET Message /\ \A r \in reply : ~Granted(r)
  BY <1>1, VoteReplyType
<1>4. \A r \in reply : Sound(r)
  BY DEF VoteReply, Sound
<1> QED
  BY <1>2, <1>3, <1>4, SendSteady

LEMMA RefusalSteady ==
  ASSUME NEW n \in Node, Static(n), NEW m \in Message, NEW pre \in BOOLEAN
  PROVE  Steady(n, Send(n, VoteReply(n, m, n.term, pre, FALSE)))
<1> DEFINE reply == VoteReply(n, m, n.term, pre, FALSE)
<1>1. reply \in SUBSET Message /\ \A r \in reply : ~Granted(r)
  BY NodeFields, VoteReplyType
<1>2. \A r \in reply : Sound(r)
  BY DEF VoteReply, Sound
<1> QED
  BY <1>1, <1>2, SendSteady

LEMMA StaleReplySteady ==
  ASSUME NEW n \in Node, Static(n), NEW m \in Message
  PROVE  Steady(n, StaleReply(n, m))
<1>1. CASE m.type \in {"App", "Snap"}
  <2>1. LastIndex(n.log) + 1 \in Nat
    BY NodeFields, IndexType
  <2>2. StaleReply(n, m) = AppReply(n, m, FALSE, 0, LastIndex(n.log) + 1, 0)
    BY <1>1 DEF StaleReply
  <2> QED
    BY <2>1, <2>2, AppReplySteady
<1>2. CASE m.type = "Vote"
  <2>1. m.preVote \in BOOLEAN
    BY <1>2, MessageOfType DEF VoteReq
  <2>2. StaleReply(n, m) = Send(n, VoteReply(n, m, n.term, m.preVote, FALSE))
    BY <1>2 DEF StaleReply
  <2> QED
    BY <2>1, <2>2, RefusalSteady
<1>3. CASE m.type \notin {"App", "Snap", "Vote"}
  <2>1. StaleReply(n, m) = n
    BY <1>3 DEF StaleReply
  <2> QED
    BY <2>1, SteadySelf
<1> QED
  BY <1>1, <1>2, <1>3

-----------------------------------------------------------------------------
(* Elections *)

\* Among the messages M is v's vote for c in term t.
Voted(M, v, t, c) == \E m \in M : Granted(m) /\ m.from = v /\ m.term = t /\ m.to = c

\* A quorum made of c itself and of servers whose votes are in M.
Elected(M, c, t) ==
  \E Q \in SUBSET InitialVoters :
    /\ Cardinality(Q) >= Quorum(InitialVoters)
    /\ \A v \in Q : v = c \/ Voted(M, v, t, c)

\* What n takes itself for is backed by its own vote and by the messages M.
Standing(n, M) ==
  /\ n.state \in {"Candidate", "Leader"} => n.votedFor = n.id
  /\ n.state = "Candidate" =>
       \A v \in Server : n.votes[v] = "yes" => v = n.id \/ Voted(M, v, n.term, n.id)
  /\ n.state = "Leader" => Elected(M, n.id, n.term)

Fit(n, M) == n \in Node /\ Static(n) /\ Standing(n, M)

\* m is the vote that n has cast in its term.
CastBy(n, m) == m.from = n.id /\ m.term = n.term /\ m.to = n.votedFor

\* A node at the end of a step.
Done(n, M) ==
  /\ n \in Node /\ InitialOnly(n) /\ Standing(n, M)
  /\ \A m \in n.out : Sound(m) /\ (Granted(m) => CastBy(n, m))

LEMMA FitDone ==
  ASSUME NEW M, NEW n, Fit(n, M)
  PROVE  Done(n, M)
BY DEF Fit, Done, Static

LEMMA SteadyFit ==
  ASSUME NEW M, NEW n, NEW q, Fit(n, M), Steady(n, q)
  PROVE  Fit(q, M)
<1>1. /\ q \in Node /\ Static(q) /\ q.id = n.id /\ q.term = n.term
      /\ q.votedFor = n.votedFor
      /\ q.state = "Follower" \/ (q.state = n.state /\ q.votes = n.votes)
  BY DEF Steady, Quiet
<1>2. Standing(n, M)
  BY DEF Fit
<1>3. CASE q.state = "Follower"
  BY <1>1, <1>3 DEF Fit, Standing
<1>4. CASE q.state = n.state /\ q.votes = n.votes
  <2>1. Standing(q, M)
    BY <1>1, <1>2, <1>4, Zenon DEF Standing
  <2> QED
    BY <1>1, <2>1 DEF Fit
<1> QED
  BY <1>1, <1>3, <1>4

LEMMA FollowerFit ==
  ASSUME NEW M, NEW q \in Node, Static(q), q.state \in {"Follower", "PreCandidate"}
  PROVE  Fit(q, M)
BY DEF Fit, Standing

\* Votes and elections stay what they are when more messages are sent.
LEMMA FitLater ==
  ASSUME NEW M, NEW N, M \subseteq N, NEW n, Fit(n, M)
  PROVE  Fit(n, N)
<1>1. \A v, t, c : Voted(M, v, t, c) => Voted(N, v, t, c)
  BY DEF Voted
<1>2. \A c, t : Elected(M, c, t) => Elected(N, c, t)
  BY <1>1 DEF Elected
<1> QED
  BY <1>1, <1>2 DEF Fit, Standing

\* A node that has counted enough votes has a quorum of the initial voters.
LEMMA CountWins ==
  ASSUME NEW M, NEW n \in Node, Static(n), VotesReach(n, "yes"),
         \A v \in Server : n.votes[v] = "yes" => v = n.id \/ Voted(M, v, n.term, n.id)
  PROVE  Elected(M, n.id, n.term)
<1> DEFINE Q == {v \in Config(n) : n.votes[v] = "yes"}
<1>1. Cardinality(Q) >= Quorum(Config(n))
  BY Zenon DEF VotesReach
<1>2. Config(n) = InitialVoters
  BY StaticConfig DEF Static
<1>3. Q \in SUBSET InitialVoters
  BY <1>2
<1>4. \A v \in Q : v = n.id \/ Voted(M, v, n.term, n.id)
  BY <1>2, VotersAssumption
<1> HIDE DEF Q
<1> QED
  BY <1>1, <1>2, <1>3, <1>4 DEF Elected

LEMMA BecomeLeaderFit ==
  ASSUME NEW M, NEW n \in Node, Static(n), n.votedFor = n.id, Elected(M, n.id, n.term)
  PROVE  Fit(BecomeLeader(n), M)
<1> DEFINE r == [s \in Server |->
                   IF s \in Config(n) \ {n.id} THEN NewProgress(LastIndex(n.log) + 1)
                   ELSE NoProgress]
           lead == [n EXCEPT !.state = "Leader", !.leaderID = n.id, !.votes = NoVotes,
                             !.transferee = None, !.prs = r]
           a == AppendEntry(lead, "Noop", None)
           c == MaybeCommit(a)
<1>1. r \in [Server -> Progress]
  BY NodeFields, IndexType, NewProgressType DEF Progress
<1>2. NoVotes \in [Server -> {"none", "yes", "no"}] /\ n.id \in OptServer
      /\ None \in OptServer /\ "Leader" \in States
  BY NodeFields DEF NoVotes, OptServer, States
<1>3. BecomeLeader(n) = BroadcastAppend(c)
  BY Zenon DEF BecomeLeader
<1> HIDE DEF r
<1>4. lead \in Node
  BY <1>1, <1>2 DEF Node
<1>5. /\ lead.learner = n.learner /\ lead.log = n.log /\ lead.confHistory = n.confHistory
      /\ lead.snapshot = n.snapshot /\ lead.state = "Leader" /\ lead.out = n.out
      /\ lead.id = n.id /\ lead.term = n.term /\ lead.votedFor = n.votedFor
  BY DEF Node
<1> HIDE DEF lead
<1>6. Static(lead)
  BY <1>5 DEF Static, InitialOnly
<1>7. Fit(lead, M)
  BY <1>4, <1>5, <1>6 DEF Fit, Standing
<1>8. Steady(lead, a)
  BY <1>4, <1>6, AppendEntrySteady
<1> HIDE DEF a
<1>9. Steady(a, c)
  BY <1>8, MaybeCommitSteady, SteadyStatic
<1> HIDE DEF c
<1>10. Steady(c, BroadcastAppend(c))
  BY <1>9, BroadcastSteady, SteadyStatic
<1>11. Steady(lead, BroadcastAppend(c))
  BY <1>8, <1>9, <1>10, SteadyTwice, Zenon
<1> QED
  BY <1>3, <1>7, <1>11, SteadyFit

LEMMA RequestVotesSteady ==
  ASSUME NEW n \in Node, Static(n), NEW term \in Nat, NEW pre \in BOOLEAN,
         NEW force \in BOOLEAN
  PROVE  Steady(n, RequestVotes(n, term, pre, force))
<1> DEFINE V(v) == [type |-> "Vote", from |-> n.id, to |-> v, term |-> term,
                    preVote |-> pre, force |-> force,
                    lastLogIndex |-> LastIndex(n.log), lastLogTerm |-> LastTerm(n.log)]
           msgs == {V(v) : v \in Config(n) \ {n.id}}
<1>1. LastIndex(n.log) \in Nat /\ LastTerm(n.log) \in Nat
  BY NodeFields, IndexType, TermAtType DEF LastTerm
<1>2. \A v \in Server : V(v) \in VoteReq /\ ~Granted(V(v)) /\ Sound(V(v))
  BY <1>1, NodeFields DEF VoteReq, Granted, Sound
<1>3. msgs \in SUBSET Message
  BY <1>2, ReplicationTargetsType DEF Message
<1>4. \A m \in msgs : ~Granted(m) /\ Sound(m)
  BY <1>2, ReplicationTargetsType
<1> QED
  BY <1>3, <1>4, SendSteady DEF RequestVotes

\* A candidate starts with its own vote only.
LEMMA ElectFit ==
  ASSUME NEW M, NEW n \in Node, Static(n), NEW force \in BOOLEAN
  PROVE  Fit(Elect(n, force), M)
<1> DEFINE c == BecomeCandidate(n)
<1>1. c \in Node
  BY BecomeCandidateFollows DEF Follows
<1>2. /\ c.learner = n.learner /\ c.log = n.log /\ c.confHistory = n.confHistory
      /\ c.snapshot = n.snapshot /\ c.state = "Candidate" /\ c.out = n.out
      /\ c.id = n.id /\ c.votedFor = n.id /\ c.votes = OwnVote(n)
  BY DEF BecomeCandidate, Node
<1>3. \A v \in Server : OwnVote(n)[v] = "yes" => v = n.id
  BY DEF OwnVote, NoVotes
<1> HIDE DEF c
<1>4. Static(c)
  BY <1>2 DEF Static, InitialOnly
<1>5. Fit(c, M)
  BY <1>1, <1>2, <1>3, <1>4 DEF Fit, Standing
<1>6. CASE VotesReach(c, "yes")
  <2>1. Elected(M, c.id, c.term)
    BY <1>1, <1>2, <1>3, <1>4, <1>6, CountWins
  <2>2. Fit(BecomeLeader(c), M)
    BY <1>1, <1>2, <1>4, <2>1, BecomeLeaderFit
  <2> QED
    BY <1>6, <2>2, Zenon DEF Elect, c
<1>7. CASE ~VotesReach(c, "yes")
  <2>1. Steady(c, RequestVotes(c, c.term, FALSE, force))
    BY <1>1, <1>4, RequestVotesSteady, NodeFields
  <2>2. Fit(RequestVotes(c, c.term, FALSE, force), M)
    BY <1>5, <2>1, SteadyFit
  <2> QED
    BY <1>7, <2>2, Zenon DEF Elect, c
<1> QED
  BY <1>6, <1>7

LEMMA PreElectFit ==
  ASSUME NEW M, NEW n \in Node, Static(n), NEW force \in BOOLEAN
  PROVE  Fit(PreElect(n, force), M)
<1> DEFINE c == BecomePreCandidate(n)
<1>1. c \in Node
  BY BecomePreCandidateQuiet DEF Quiet
<1>2. /\ c.learner = n.learner /\ c.log = n.log /\ c.confHistory = n.confHistory
      /\ c.snapshot = n.snapshot /\ c.state = "PreCandidate" /\ c.out = n.out
  BY DEF BecomePreCandidate, Node
<1>3. PreElect(n, force) = IF VotesReach(c, "yes") THEN Elect(c, force)
                           ELSE RequestVotes(c, c.term + 1, TRUE, force)
  BY Zenon DEF PreElect
<1> HIDE DEF c
<1>4. Static(c)
  BY <1>2 DEF Static, InitialOnly
<1>5. Fit(c, M)
  BY <1>1, <1>2, <1>4, FollowerFit
<1>6. Steady(c, RequestVotes(c, c.term + 1, TRUE, force))
  <2>1. c.term + 1 \in Nat
    BY <1>1, NodeFields
  <2> QED
    BY <1>1, <1>4, <2>1, RequestVotesSteady
<1>7. Fit(RequestVotes(c, c.term + 1, TRUE, force), M)
  BY <1>5, <1>6, SteadyFit
<1>8. Fit(Elect(c, force), M)
  BY <1>1, <1>4, ElectFit
<1> QED
  BY <1>3, <1>7, <1>8, Zenon

LEMMA CampaignFit ==
  ASSUME NEW M, NEW n, Fit(n, M), NEW pre \in BOOLEAN, NEW force \in BOOLEAN
  PROVE  Fit(Campaign(n, pre, force), M)
BY ElectFit, PreElectFit, Zenon DEF Campaign, Fit

\* A candidate or a leader has voted for itself and votes for nobody else.
LEMMA HandleRealVoteDone ==
  ASSUME NEW M, NEW n, Fit(n, M), NEW m \in VoteReq
  PROVE  Done(HandleRealVote(n, m), M)
<1> DEFINE granted == CanVote(n, m) /\ LogUpToDate(n, m.lastLogIndex, m.lastLogTerm)
           reply   == VoteReply(n, m, n.term, FALSE, granted)
           p       == [n EXCEPT !.votedFor = m.from, !.hsDirty = TRUE]
           q       == Send(p, reply)
<1>1. n \in Node /\ Static(n) /\ Standing(n, M) /\ m \in Message
  BY DEF Fit, Message, VoteReq
<1> DEFINE h == HandleRealVote(n, m)
<1>0. h \in Node
  BY <1>1, HandleRealVoteFollows DEF Follows
<1>2. CASE granted
  <2>1. h = q
    BY <1>2, Zenon DEF HandleRealVote
  <2>2. q \in Node
    BY <1>0, <2>1, Zenon
  <2>3. \A r \in reply : Sound(r) /\ r.from = n.id /\ r.term = n.term /\ r.to = m.from
    BY DEF VoteReply, Sound
  <2>4. n.votedFor # None => m.from = n.votedFor
    BY <1>2 DEF CanVote
  <2> HIDE DEF reply
  <2>5. /\ q.learner = n.learner /\ q.log = n.log /\ q.confHistory = n.confHistory
        /\ q.snapshot = n.snapshot /\ q.state = n.state /\ q.votes = n.votes
        /\ q.out = n.out \cup reply /\ q.votedFor = m.from /\ q.id = n.id
        /\ q.term = n.term
    BY <1>1 DEF Send, Node
  <2> HIDE DEF q
  <2>6. InitialOnly(q)
    BY <1>1, <2>5 DEF Static, InitialOnly
  <2>7. n.state \in {"Candidate", "Leader"} => q.votedFor = q.id
    BY <1>1, <2>4, <2>5, NodeFields, ServerAssumption DEF Standing
  <2>8. Standing(q, M)
    BY <1>1, <2>5, <2>7 DEF Standing
  <2>9. \A r \in q.out : Sound(r) /\ (Granted(r) => CastBy(q, r))
    BY <1>1, <2>3, <2>5 DEF Static, CastBy
  <2> QED
    BY <2>1, <2>2, <2>6, <2>8, <2>9 DEF Done
<1>3. CASE ~granted
  <2>1. HandleRealVote(n, m) = Send(n, VoteReply(n, m, n.term, FALSE, FALSE))
    BY <1>3 DEF HandleRealVote
  <2>2. Steady(n, HandleRealVote(n, m))
    BY <1>1, <2>1, RefusalSteady
  <2> QED
    BY <2>2, SteadyFit, FitDone
<1> QED
  BY <1>2, <1>3

LEMMA HandleVoteDone ==
  ASSUME NEW M, NEW n, Fit(n, M), NEW m \in VoteReq, NEW fresh \in BOOLEAN
  PROVE  Done(HandleVote(n, m, fresh), M)
<1>1. Fit(HandlePreVote(n, m, fresh), M)
  BY HandlePreVoteSteady, SteadyFit DEF Fit
<1> QED
  BY <1>1, HandleRealVoteDone, FitDone, Zenon DEF HandleVote

LEMMA CountedStatic ==
  ASSUME NEW n \in Node, Static(n), NEW m \in VoteResp
  PROVE  /\ Counted(n, m) \in Node /\ Static(Counted(n, m))
         /\ Counted(n, m).id = n.id /\ Counted(n, m).term = n.term
         /\ Counted(n, m).votedFor = n.votedFor /\ Counted(n, m).state = n.state
         /\ \A v \in Server : Counted(n, m).votes[v] = "yes" =>
              n.votes[v] = "yes" \/ (v = m.from /\ m.granted)
<1> DEFINE a == IF m.granted THEN "yes" ELSE "no"
           w == [n.votes EXCEPT ![m.from] = a]
           q == [n EXCEPT !.votes = w]
<1>1. Counted(n, m) = q
  BY DEF Counted, Node
<1>2. q \in Node
  BY <1>1, CountedQuiet DEF Quiet
<1>3. \A v \in Server : w[v] = "yes" => n.votes[v] = "yes" \/ (v = m.from /\ m.granted)
  BY NodeFields
<1> HIDE DEF w
<1>4. /\ q.learner = n.learner /\ q.log = n.log /\ q.confHistory = n.confHistory
      /\ q.snapshot = n.snapshot /\ q.state = n.state /\ q.votes = w
      /\ q.out = n.out /\ q.votedFor = n.votedFor /\ q.id = n.id /\ q.term = n.term
  BY DEF Node
<1> HIDE DEF q
<1>5. Static(q)
  BY <1>4 DEF Static, InitialOnly
<1> QED
  BY <1>1, <1>2, <1>3, <1>4, <1>5

LEMMA LostFit ==
  ASSUME NEW M, NEW c \in Node, Static(c)
  PROVE  Fit(BecomeFollower(c, c.term, None), M)
<1>1. BecomeFollower(c, c.term, None) \in Node
  BY BecomeFollowerFollows, NodeFields DEF Follows, OptServer
<1> QED
  BY <1>1, BecomeFollowerStatic, NodeFields, FollowerFit DEF OptServer

\* Answers to a pre-vote only lead to an election; those to a vote are
\* counted if they are of the candidate's term, and are then votes in M.
LEMMA HandleVoteRespFit ==
  ASSUME NEW M, NEW n, Fit(n, M), NEW m \in VoteResp, m \in M, m.to = n.id
  PROVE  Fit(HandleVoteResp(n, m), M)
<1> DEFINE c == Counted(n, m)
<1>0. n \in Node /\ Static(n) /\ Standing(n, M)
  BY DEF Fit
<1>1. /\ c \in Node /\ Static(c) /\ c.id = n.id /\ c.term = n.term
      /\ c.votedFor = n.votedFor /\ c.state = n.state
      /\ \A v \in Server : c.votes[v] = "yes" =>
           n.votes[v] = "yes" \/ (v = m.from /\ m.granted)
  BY <1>0, CountedStatic
<1>2. Fit(BecomeFollower(c, c.term, None), M)
  BY <1>1, LostFit
<1>3. CASE n.state = "PreCandidate" /\ m.preVote
  <2>1. Fit(c, M)
    BY <1>1, <1>3, FollowerFit
  <2>2. Fit(Campaign(c, FALSE, FALSE), M)
    BY <2>1, CampaignFit
  <2>3. Fit(HandlePreVoteResp(n, m), M)
    BY <1>2, <2>1, <2>2, Zenon DEF HandlePreVoteResp
  <2> QED
    BY <1>3, <2>3, Zenon DEF HandleVoteResp
<1>4. CASE n.state = "Candidate" /\ ~m.preVote /\ m.term = n.term
  <2>1. \A v \in Server : c.votes[v] = "yes" => v = c.id \/ Voted(M, v, c.term, c.id)
    <3>1. m.granted => Voted(M, m.from, n.term, n.id)
      BY <1>4 DEF Voted, Granted, VoteResp
    <3>2. \A v \in Server : n.votes[v] = "yes" => v = n.id \/ Voted(M, v, n.term, n.id)
      BY <1>0, <1>4 DEF Standing
    <3> QED
      BY <1>1, <3>1, <3>2
  <2>2. c.votedFor = c.id
    BY <1>0, <1>1, <1>4 DEF Standing
  <2>3. Fit(c, M)
    BY <1>1, <1>4, <2>1, <2>2 DEF Fit, Standing
  <2>4. VotesReach(c, "yes") => Fit(BecomeLeader(c), M)
    BY <1>1, <2>1, <2>2, CountWins, BecomeLeaderFit
  <2>5. Fit(HandleRealVoteResp(n, m), M)
    BY <1>2, <2>3, <2>4, Zenon DEF HandleRealVoteResp
  <2>6. HandleVoteResp(n, m) = HandleRealVoteResp(n, m)
    BY <1>4 DEF HandleVoteResp
  <2> QED
    BY <2>5, <2>6, Zenon
<1>5. CASE /\ ~(n.state = "PreCandidate" /\ m.preVote)
           /\ ~(n.state = "Candidate" /\ ~m.preVote /\ m.term = n.term)
  BY <1>5, Zenon DEF HandleVoteResp
<1> QED
  BY <1>3, <1>4, <1>5

LEMMA AtMessageTermFit ==
  ASSUME NEW M, NEW n, Fit(n, M), NEW m \in Message
  PROVE  Fit(AtMessageTerm(n, m), M)
<1> DEFINE leader == IF m.type \in {"App", "Snap"} THEN m.from ELSE None
           q == BecomeFollower(n, m.term, leader)
<1>1. leader \in OptServer /\ m.term \in Nat
  BY MessageEnds DEF OptServer
<1>2. AtMessageTerm(n, m) = n \/ AtMessageTerm(n, m) = q
  BY Zenon DEF AtMessageTerm
<1> HIDE DEF leader
<1>3. q \in Node /\ Static(q) /\ q.state = "Follower"
  BY <1>1, BecomeFollowerFollows, BecomeFollowerStatic DEF Follows, Fit
<1>4. Fit(q, M)
  BY <1>3, FollowerFit
<1> QED
  BY <1>2, <1>4, Zenon

\* Whatever message a node receives, what it then takes itself for is backed
\* by the messages sent so far.
LEMMA ReceiveDone ==
  ASSUME NEW M, NEW n, Fit(n, M), NEW m \in Message, m \in M, Sound(m), m.to = n.id,
         NEW fresh \in BOOLEAN
  PROVE  Done(Receive(n, m, fresh), M)
<1> DEFINE a == AtMessageTerm(n, m)
           q == Receive(n, m, fresh)
           S == Send(n, VoteReply(n, m, n.term, FALSE, FALSE))
<1>1. Fit(a, M) /\ a \in Node /\ Static(a) /\ a.id = n.id
  <2>1. n \in Node
    BY DEF Fit
  <2>2. a.id = n.id
    BY <2>1, AtMessageTermFollows DEF Follows
  <2> QED
    BY <2>2, AtMessageTermFit DEF Fit
<1>2. Fit(StaleReply(n, m), M)
  BY StaleReplySteady, SteadyFit DEF Fit
<1>3. Fit(S, M)
  BY RefusalSteady, SteadyFit DEF Fit
<1>4. m.type = "Vote" => Done(HandleVote(a, m, fresh), M)
  BY <1>1, MessageOfType, HandleVoteDone
<1>5. m.type = "VoteResp" => Fit(HandleVoteResp(a, m), M)
  BY <1>1, MessageOfType, HandleVoteRespFit
<1>6. m.type = "App" => Fit(HandleApp(a, m), M)
  <2>1. SUFFICES ASSUME m \in App PROVE Fit(HandleApp(a, m), M)
    BY MessageOfType
  <2>2. HandleApp(a, m) \in Node
    BY <1>1, <2>1, HandleAppFollows DEF Follows
  <2> QED
    BY <1>1, <2>1, <2>2, HandleAppStatic, FollowerFit
<1>7. m.type = "AppResp" => Fit(HandleAppResp(a, m), M)
  BY <1>1, MessageOfType, HandleAppRespSteady, SteadyFit
<1>8. m.type = "Snap" => Fit(HandleSnap(a, m), M)
  <2>1. SUFFICES ASSUME m \in Snap PROVE Fit(HandleSnap(a, m), M)
    BY MessageOfType
  <2>2. HandleSnap(a, m) \in Node
    BY <1>1, <2>1, HandleSnapFollows DEF Follows
  <2> QED
    BY <1>1, <2>1, <2>2, HandleSnapStatic, FollowerFit
<1>9. m.type = "SnapResp" => Fit(HandleSnapResp(a, m), M)
  BY <1>1, MessageOfType, HandleSnapRespSteady, SteadyFit
<1>10. m.type = "TimeoutNow" => Fit(HandleTimeoutNow(a, m), M)
  BY <1>1, CampaignFit, Zenon DEF HandleTimeoutNow
<1> HIDE DEF a, S
<1>11. CASE m.term < n.term
  BY <1>2, <1>11, FitDone DEF Receive
<1>12. CASE ~(m.term < n.term) /\ StickyVote(n, m, fresh)
  BY <1>3, <1>12, FitDone DEF Receive, S
<1>13. CASE ~(m.term < n.term) /\ ~StickyVote(n, m, fresh)
  <2>1. q = CASE m.type = "Vote"       -> HandleVote(a, m, fresh)
              [] m.type = "VoteResp"   -> HandleVoteResp(a, m)
              [] m.type = "App"        -> HandleApp(a, m)
              [] m.type = "AppResp"    -> HandleAppResp(a, m)
              [] m.type = "Snap"       -> HandleSnap(a, m)
              [] m.type = "SnapResp"   -> HandleSnapResp(a, m)
              [] m.type = "TimeoutNow" -> HandleTimeoutNow(a, m)
    BY <1>13, Zenon DEF Receive, a
  <2> HIDE DEF q
  <2>2. Done(q, M)
    BY <2>1, FitDone, <1>4, <1>5, <1>6, <1>7, <1>8, <1>9, <1>10, MessageOfType
  <2> QED
    BY <2>2 DEF q
<1> QED
  BY <1>11, <1>12, <1>13

-----------------------------------------------------------------------------
(* The stores and the end of a step *)

LEMMA StaticPersist ==
  ASSUME NEW n \in Node, InitialOnly(n), NEW d \in Durable, StaticStore(d)
  PROVE  StaticStore(ApplyPersist(d, PersistOf(n)))
<1> DEFINE p == PersistOf(n)
           e == IF n.appendedFrom = 0 THEN <<>>
                ELSE Slice(n.log, n.appendedFrom, LastIndex(n.log) + 1, 0)
           s == CASE p.snap = "none"    -> d.entries
                  [] p.snap = "keep"    -> After(d.entries, p.snapshot.index)
                  [] p.snap = "replace" -> <<>>
           kept == KeptEntries(d, p)
<1>1. p \in Persist /\ d.entries \in Seq(Entry) /\ Plain(d.entries)
  BY PersistOfType DEF Durable, StaticStore
<1>2. Plain(e)
  BY NodeFields, IndexType, PlainSlice, PlainEmpty DEF InitialOnly
<1>3. p.entries = e /\ p.snapshot = n.snapshot
  BY Zenon DEF PersistOf
<1> HIDE DEF e
<1>4. \A t \in Seq(Entry) : \A i : Plain(t) => Plain(UpTo(t, i)) /\ Plain(After(t, i))
  <2>1. SUFFICES ASSUME NEW t \in Seq(Entry), NEW i, Plain(t)
                 PROVE  Plain(UpTo(t, i)) /\ Plain(After(t, i))
    OBVIOUS
  <2> DEFINE c == CountUpTo(t, i)
  <2>2. c \in 0 .. Len(t) /\ Len(t) \in Nat
    BY CountUpToType, LenProperties
  <2>3. c \in Int /\ c <= Len(t) /\ c + 1 \in Nat \ {0} /\ 1 \in Nat \ {0}
    BY <2>2
  <2> HIDE DEF c
  <2>4. Plain(SubSeq(t, 1, c)) /\ Plain(SubSeq(t, c + 1, Len(t)))
    BY <2>1, <2>2, <2>3, PlainPart
  <2> QED
    BY <2>4 DEF UpTo, After, c
<1>5. s \in Seq(Entry) /\ Plain(s)
  <2>1. p.snap \in {"none", "keep", "replace"}
    BY <1>1 DEF Persist
  <2>2. /\ After(d.entries, p.snapshot.index) \in Seq(Entry)
        /\ Plain(After(d.entries, p.snapshot.index))
    BY <1>1, <1>4, AfterType
  <2> HIDE DEF p
  <2> QED
    BY <1>1, <2>1, <2>2, EmptySeq, PlainEmpty
<1>6. kept = s \/ kept = UpTo(s, p.entries[1].index - 1)
  BY Zenon DEF KeptEntries
<1> HIDE DEF s
<1>7. kept \in Seq(Entry) /\ Plain(kept)
  BY <1>4, <1>5, <1>6, UpToType
<1>8. /\ ApplyPersist(d, p).entries = kept \o p.entries
      /\ ApplyPersist(d, p).snap \in {d.snap, n.snapshot}
  BY <1>3 DEF ApplyPersist
<1>9. p.entries \in Seq(Entry)
  BY <1>1 DEF Persist
<1> HIDE DEF kept, p
<1> QED
  BY <1>2, <1>3, <1>7, <1>8, <1>9, PlainConcat DEF StaticStore, InitialOnly, p

LEMMA SyncedFit ==
  ASSUME NEW M, NEW n, Done(n, M), NEW d
  PROVE  Fit(Synced(n, d), M)
<1> DEFINE m == Settled(n)
           x == m.panic \/ Discontinuous(d, PersistOf(n))
           q == [m EXCEPT !.panic = x]
<1>1. n \in Node /\ InitialOnly(n) /\ Standing(n, M)
  BY DEF Done
<1>2. Synced(n, d) \in Node
  BY <1>1, SyncedType
<1>3. /\ m.learner = n.learner /\ m.log = n.log /\ m.confHistory = n.confHistory
      /\ m.snapshot = n.snapshot /\ m.state = n.state /\ m.votes = n.votes
      /\ m.out = {} /\ m.votedFor = n.votedFor /\ m.id = n.id /\ m.term = n.term
      /\ m \in Node
  BY <1>1, EmptySeq DEF Settled, Node
<1>4. Synced(n, d) = q
  BY Zenon DEF Synced
<1> HIDE DEF m, x
<1>5. /\ q.learner = n.learner /\ q.log = n.log /\ q.confHistory = n.confHistory
      /\ q.snapshot = n.snapshot /\ q.state = n.state /\ q.votes = n.votes
      /\ q.out = {} /\ q.votedFor = n.votedFor /\ q.id = n.id /\ q.term = n.term
  BY <1>3 DEF Node
<1> HIDE DEF q
<1>6. Static(q) /\ Standing(q, M)
  BY <1>1, <1>5 DEF Static, InitialOnly, Standing
<1> QED
  BY <1>2, <1>4, <1>6 DEF Fit

LEMMA RestartFit ==
  ASSUME NEW M, NEW i \in Server, NEW d \in Durable, StaticStore(d)
  PROVE  Fit(RestartNode(i, d), M)
<1> DEFINE cfg == IF d.snap = NoSnapshot THEN InitialVoters ELSE d.snap.config
           l == ResetLog(d.snap.index, d.snap.term)
           h == InitConfHistory(d.snap.index, cfg) \cup ConfigRecords(d.entries)
           q == RestartNode(i, d)
<1>1. q \in Node /\ q.out = {}
  BY RestartNodeType
<1>2. /\ q.learner = None /\ q.log = AppendLog(l, d.entries) /\ q.confHistory = h
      /\ q.snapshot = d.snap /\ q.state = "Follower"
  BY DEF RestartNode
<1>3. q.log.entries = <<>> \o d.entries
  BY <1>2 DEF AppendLog, ResetLog
<1>4. d.entries \in Seq(Entry) /\ Plain(d.entries) /\ OfInitial(d.snap)
  BY DEF Durable, StaticStore
<1>5. Plain(q.log.entries)
  BY <1>3, <1>4, PlainEmpty, PlainConcat, EmptySeq
<1>6. Unchanged(h)
  <2>1. h = {[index |-> d.snap.index, cfg |-> cfg]} /\ d.snap.index \in Nat
    BY <1>4, PlainRecords, SnapshotFields DEF InitConfHistory, Durable
  <2>2. cfg = InitialVoters
    BY <1>4 DEF OfInitial
  <2> QED
    BY <2>1, <2>2 DEF Unchanged
<1> HIDE DEF q, h
<1>7. Static(q)
  BY <1>1, <1>2, <1>4, <1>5, <1>6 DEF Static, InitialOnly
<1> QED
  BY <1>1, <1>2, <1>7, FollowerFit DEF q

LEMMA NewStoreStatic == StaticStore(NewDurable)
BY PlainEmpty DEF StaticStore, NewDurable, OfInitial

-----------------------------------------------------------------------------
(* The inductive invariant *)

\* v's vote for c in term t: one that c may count, or c's own for the term
\* it has led.
Cast(v, t, c) == Voted(net, v, t, c) \/ (v = c /\ [term |-> t, id |-> c] \in leaders)

\* A server with the store d gives no vote to anyone but c in term t any more.
Binds(d, t, c) == d.term > t \/ (d.term = t /\ d.votedFor = c)

AllStatic ==
  /\ \A i \in Server : Fit(node[i], net) /\ StaticStore(durable[i])
  /\ \A m \in net : Sound(m)

VotesBind ==
  \A v \in Server, t \in Nat, c \in Server : Cast(v, t, c) => Binds(durable[v], t, c)

OneVote ==
  \A v \in Server, t \in Nat, c \in Server, e \in Server :
    Cast(v, t, c) /\ Cast(v, t, e) => c = e

LeadersElected == \A l \in leaders : Elected(net, l.id, l.term)

VotesCast == VotesBind /\ OneVote /\ LeadersElected

ElectionInv == VoteInv /\ AllStatic /\ VotesCast

\* What a step of server i must do for the votes of the cluster to stay
\* valid: a vote it sends, or gives itself by leading, is the one it stores.
VotesOf(i) ==
  /\ net \subseteq net' /\ leaders \subseteq leaders'
  /\ \A m \in net' : m \in net \/ ~Granted(m) \/
       (m.from = i /\ m.term = durable'[i].term /\ m.to = durable'[i].votedFor)
  /\ \A l \in leaders' : l \in leaders \/
       (/\ l.id = i /\ l.term = durable'[i].term /\ l.id = durable'[i].votedFor
        /\ Elected(net', l.id, l.term))

LEMMA VotesCastKept ==
  ASSUME VoteInv, TypeOK', DurableVotesKept, VotesCast, NEW i \in Server, VotesOf(i)
  PROVE  VotesCast'
<1>1. \A v \in Server : durable[v].term \in Nat /\ durable'[v].term \in Nat
  BY DEF VoteInv, TypeOK, Durable
<1>2. \A v \in Server : durable[v].term <= durable'[v].term
  BY DEF DurableVotesKept
<1>3. ASSUME NEW v \in Server, NEW t \in Nat, NEW c \in Server, Cast(v, t, c)'
      PROVE  Cast(v, t, c) \/ (durable'[v].term = t /\ durable'[v].votedFor = c)
  <2>1. CASE Voted(net', v, t, c)
    <3>1. PICK m \in net' : Granted(m) /\ m.from = v /\ m.term = t /\ m.to = c
      BY <2>1 DEF Voted
    <3>2. m \in net => Voted(net, v, t, c)
      BY <3>1 DEF Voted
    <3> QED
      BY <3>1, <3>2 DEF VotesOf, Cast
  <2>2. CASE v = c /\ [term |-> t, id |-> c] \in leaders'
    BY <2>2 DEF VotesOf, Cast
  <2> QED
    BY <1>3, <2>1, <2>2 DEF Cast
<1>4. ASSUME NEW v \in Server, NEW t \in Nat, NEW c \in Server, Cast(v, t, c)
      PROVE  Binds(durable'[v], t, c)
  <2>1. Binds(durable[v], t, c) /\ c # None
    BY <1>4, ServerAssumption DEF VotesCast, VotesBind
  <2>2. durable[v].term = durable'[v].term /\ durable[v].votedFor # None
          => durable[v].votedFor = durable'[v].votedFor
    BY DEF DurableVotesKept
  <2> QED
    BY <1>1, <1>2, <2>1, <2>2 DEF Binds
<1>5. VotesBind'
  BY <1>3, <1>4 DEF VotesBind, Binds
<1>6. OneVote'
  <2>1. SUFFICES ASSUME NEW v \in Server, NEW t \in Nat, NEW c \in Server, NEW e \in Server,
                        Cast(v, t, c)', Cast(v, t, e)'
                 PROVE  c = e
    BY DEF OneVote
  <2>2. CASE Cast(v, t, c) /\ Cast(v, t, e)
    BY <2>2 DEF VotesCast, OneVote
  <2>3. CASE ~(Cast(v, t, c) /\ Cast(v, t, e))
    <3>1. durable'[v].term = t
      BY <1>3, <2>1, <2>3
    <3>2. durable'[v].votedFor = c /\ durable'[v].votedFor = e
      BY <1>1, <1>3, <1>4, <2>1, <3>1 DEF Binds
    <3> QED
      BY <3>2
  <2> QED
    BY <2>2, <2>3
<1>7. LeadersElected'
  <2>1. \A v, t, c : Voted(net, v, t, c) => Voted(net', v, t, c)
    BY DEF Voted, VotesOf
  <2>2. \A c, t : Elected(net, c, t) => Elected(net', c, t)
    BY <2>1 DEF Elected
  <2> QED
    BY <2>2 DEF LeadersElected, VotesOf, VotesCast
<1> QED
  BY <1>5, <1>6, <1>7 DEF VotesCast

\* Two leaders of one term would share a voter that voted for both.
LEMMA OneLeader == ElectionInv => ElectionSafety
<1> SUFFICES ASSUME ElectionInv, NEW a \in leaders, NEW b \in leaders, a.term = b.term
             PROVE  a.id = b.id
  BY DEF ElectionSafety
<1>1. /\ a.id \in Server /\ b.id \in Server /\ a.term \in Nat
      /\ a = [term |-> a.term, id |-> a.id] /\ b = [term |-> a.term, id |-> b.id]
  BY DEF ElectionInv, VoteInv, TypeOK, Leadership
<1>2. PICK P \in SUBSET InitialVoters :
        /\ Cardinality(P) >= Quorum(InitialVoters)
        /\ \A v \in P : v = a.id \/ Voted(net, v, a.term, a.id)
  BY DEF ElectionInv, VotesCast, LeadersElected, Elected
<1>3. PICK Q \in SUBSET InitialVoters :
        /\ Cardinality(Q) >= Quorum(InitialVoters)
        /\ \A v \in Q : v = b.id \/ Voted(net, v, a.term, b.id)
  BY DEF ElectionInv, VotesCast, LeadersElected, Elected
<1>4. P \cap Q # {}
  <2>1. /\ IsFiniteSet(InitialVoters) /\ Cardinality(InitialVoters) \in Nat
        /\ Quorum(InitialVoters) \in Nat
        /\ 2 * Quorum(InitialVoters) > Cardinality(InitialVoters)
    BY InitialQuorum
  <2>2. Cardinality(P) \in Nat /\ Cardinality(Q) \in Nat
    BY <2>1, FS_Subset, FS_CardinalityType
  <2>3. Cardinality(P) + Cardinality(Q) > Cardinality(InitialVoters)
    BY <1>2, <1>3, <2>1, <2>2
  <2> QED
    BY <2>1, <2>3, FS_MajoritiesIntersect
<1>5. PICK v : v \in P /\ v \in Q
  BY <1>4
<1>6. v \in Server /\ Cast(v, a.term, a.id) /\ Cast(v, a.term, b.id)
  BY <1>1, <1>2, <1>3, <1>5, VotersAssumption DEF Cast
<1> QED
  BY <1>1, <1>6 DEF ElectionInv, VotesCast, OneVote

LEMMA InitElectionInv == Init => ElectionInv
<1> SUFFICES ASSUME Init PROVE ElectionInv
  OBVIOUS
<1>1. VoteInv
  BY InitVoteInv
<1>2. AllStatic
  BY NewDurableType, NewStoreStatic, RestartFit DEF Init, AllStatic
<1>3. VotesCast
  BY DEF Init, VotesCast, VotesBind, OneVote, LeadersElected, Cast, Voted
<1> QED
  BY <1>1, <1>2, <1>3 DEF ElectionInv

-----------------------------------------------------------------------------
(* Steps *)

\* A step of server i that leaves the node q and the store d.
LEMMA StepStatic ==
  ASSUME AllStatic, TypeOK, NEW i \in Server, NEW d, StaticStore(d),
         NEW q, Fit(q, net'), net \subseteq net',
         \A m \in net' : m \in net \/ Sound(m),
         node' = [node EXCEPT ![i] = q],
         durable' = durable \/ durable' = [durable EXCEPT ![i] = d]
  PROVE  AllStatic'
<1>1. node \in [Server -> Node] /\ durable \in [Server -> Durable]
  BY DEF TypeOK
<1>2. \A j \in Server : Fit(node[j], net')
  BY FitLater DEF AllStatic
<1>3. \A j \in Server : Fit(node'[j], net')
  BY <1>1, <1>2
<1>4. \A j \in Server : StaticStore(durable'[j])
  BY <1>1 DEF AllStatic
<1> QED
  BY <1>3, <1>4 DEF AllStatic

LEMMA CrashElection ==
  ASSUME ElectionInv, NEW i \in Server, CrashServer(i),
         UNCHANGED <<durable, net, leaders, committed>>
  PROVE  ElectionInv'
<1>1. VoteInv' /\ DurableVotesKept
  BY CrashStep DEF ElectionInv
<1>2. Fit(Wiped(i), net')
  BY NewDurableType, NewStoreStatic, RestartFit DEF Wiped
<1>3. AllStatic'
  <2>1. node' = [node EXCEPT ![i] = Wiped(i)]
    BY DEF CrashServer
  <2> HIDE DEF CrashServer
  <2> QED
    BY <1>2, <2>1, NewStoreStatic, StepStatic DEF ElectionInv, VoteInv
<1>4. VotesCast'
  <2>1. VotesOf(i)
    BY DEF VotesOf
  <2> QED
    BY <1>1, <2>1, VotesCastKept DEF ElectionInv, VoteInv
<1> QED
  BY <1>1, <1>3, <1>4 DEF ElectionInv

LEMMA RestartElection ==
  ASSUME ElectionInv, NEW i \in Server, Restart(i)
  PROVE  ElectionInv'
<1>1. VoteInv' /\ DurableVotesKept
  BY RestartStep DEF ElectionInv
<1> DEFINE q == RestartNode(i, durable[i])
<1>2. Fit(q, net)
  BY RestartFit DEF ElectionInv, AllStatic, VoteInv, TypeOK
<1>3. /\ node' = [node EXCEPT ![i] = q]
      /\ UNCHANGED <<durable, net, leaders>>
  BY DEF Restart
<1> HIDE DEF q
<1>4. AllStatic'
  BY <1>2, <1>3, NewStoreStatic, StepStatic DEF ElectionInv, VoteInv
<1>5. VotesCast'
  <2>1. VotesOf(i)
    BY <1>3 DEF VotesOf
  <2> QED
    BY <1>1, <2>1, VotesCastKept DEF ElectionInv, VoteInv
<1> QED
  BY <1>1, <1>4, <1>5 DEF ElectionInv

\* The votes in the output of a finished step are the one on the disk.
LEMMA ReleaseVotes ==
  ASSUME ElectionInv, NEW i \in up, NEW n, Follows(node[i], n), Done(n, net),
         NEW d \in Durable, HardStateOf(d, n), Release(i, n, d),
         leaders' \in {leaders, RecordLeader(n)}
  PROVE  /\ VotesOf(i) /\ net \subseteq net'
         /\ \A m \in net' : m \in net \/ Sound(m)
<1>1. /\ i \in Server /\ n \in Node /\ node[i].id = i /\ n.id = i
      /\ durable \in [Server -> Durable]
  BY DEF ElectionInv, VoteInv, HardStateSaved, TypeOK, Follows
<1>2. net' = net \cup Carried(n.out) /\ durable' = [durable EXCEPT ![i] = d]
  BY DEF Release
<1>3. durable'[i] = d
  BY <1>1, <1>2
<1>4. Carried(n.out) \subseteq n.out
  BY DEF Carried
<1>5. \A m \in n.out : Sound(m) /\ (Granted(m) => CastBy(n, m))
  BY DEF Done
<1>6. net \subseteq net' /\ \A m \in net' : m \in net \/ Sound(m)
  BY <1>2, <1>4, <1>5
<1>7. \A m \in net' : m \in net \/ ~Granted(m) \/
        (m.from = i /\ m.term = durable'[i].term /\ m.to = durable'[i].votedFor)
  BY <1>1, <1>2, <1>3, <1>4, <1>5 DEF CastBy, HardStateOf
<1>8. \A l \in leaders' : l \in leaders \/
        (/\ l.id = i /\ l.term = durable'[i].term /\ l.id = durable'[i].votedFor
         /\ Elected(net', l.id, l.term))
  <2>1. SUFFICES ASSUME NEW l \in leaders', l \notin leaders
                 PROVE  /\ l.id = i /\ l.term = durable'[i].term
                        /\ l.id = durable'[i].votedFor /\ Elected(net', l.id, l.term)
    OBVIOUS
  <2>2. n.state = "Leader" /\ l = [term |-> n.term, id |-> n.id]
    BY <2>1 DEF RecordLeader
  <2>3. n.votedFor = n.id /\ Elected(net, n.id, n.term)
    BY <2>2 DEF Done, Standing
  <2>4. Elected(net', n.id, n.term)
    <3>1. \A v, t, c : Voted(net, v, t, c) => Voted(net', v, t, c)
      BY <1>6 DEF Voted
    <3> QED
      BY <2>3, <3>1 DEF Elected
  <2> QED
    BY <1>1, <1>3, <2>2, <2>3, <2>4 DEF HardStateOf
<1>9. leaders \subseteq leaders'
  BY DEF RecordLeader
<1> QED
  BY <1>6, <1>7, <1>8, <1>9 DEF VotesOf

\* A completed step of server i that leaves the node q and the store d.
LEMMA ReleasedElection ==
  ASSUME ElectionInv, VoteInv', DurableVotesKept,
         NEW i \in up, NEW n, Follows(node[i], n), Done(n, net),
         NEW d \in Durable, HardStateOf(d, n), StaticStore(d), Release(i, n, d),
         NEW q, Fit(q, net), node' = [node EXCEPT ![i] = q],
         leaders' \in {leaders, RecordLeader(n)}
  PROVE  ElectionInv'
<1>1. /\ VotesOf(i) /\ net \subseteq net'
      /\ \A m \in net' : m \in net \/ Sound(m)
  BY ReleaseVotes
<1>2. i \in Server /\ TypeOK /\ AllStatic /\ VotesCast /\ VoteInv /\ TypeOK'
  BY DEF ElectionInv, VoteInv, TypeOK
<1>3. durable' = [durable EXCEPT ![i] = d]
  BY DEF Release
<1>4. Fit(q, net')
  BY <1>1, FitLater
<1>5. AllStatic'
  BY <1>1, <1>2, <1>3, <1>4, StepStatic
<1>6. VotesCast'
  BY <1>1, <1>2, VotesCastKept
<1> QED
  BY <1>5, <1>6 DEF ElectionInv

LEMMA HandleOutputElection ==
  ASSUME ElectionInv, NEW i \in up, NEW n, Follows(node[i], n), Done(n, net),
         HandleOutput(i, n)
  PROVE  ElectionInv'
<1> DEFINE p == PersistOf(n)
           d == ApplyPersist(durable[i], p)
           m == Synced(n, durable[i])
           a == AppAfter(app[i], n)
           s == CreateSnapshot(m, m.lastApplied, a)
           e == ApplyPersist(d, PersistOf(s))
           q == Synced(s, d)
<1>1. /\ n \in Node /\ i \in Server /\ durable[i] \in Durable /\ app[i] \in Seq(Entry)
      /\ HardStateOf(durable[i], node[i]) /\ StaticStore(durable[i])
  BY DEF Follows, ElectionInv, VoteInv, HardStateSaved, TypeOK, AllStatic
<1>2. VoteInv' /\ DurableVotesKept
  BY HandleOutputStep DEF ElectionInv
<1>3. d \in Durable /\ HardStateOf(d, n)
  <2>1. n.hsDirty \/ HardStateOf(durable[i], n)
    BY <1>1 DEF Follows, HardStateOf
  <2> QED
    BY <1>1, <2>1, HardStatePersisted
<1>4. StaticStore(d)
  BY <1>1, StaticPersist DEF Done
<1>5. /\ Fit(m, net) /\ m \in Node /\ m.term = n.term /\ m.votedFor = n.votedFor
      /\ m.lastApplied \in Nat /\ a \in Seq(Entry)
  <2>1. m \in Node /\ m.term = n.term /\ m.votedFor = n.votedFor
    BY <1>1, SyncedType
  <2> QED
    BY <1>1, <2>1, SyncedFit, AppAfterType, NodeFields
<1>6. CASE FsyncCrash(i, n)
  BY <1>1, <1>6, CrashElection DEF FsyncCrash
<1>7. CASE Release(i, n, d) /\ node' = [node EXCEPT ![i] = m] /\ leaders' = RecordLeader(n)
  <2> HIDE DEF d, m
  <2> QED
    BY <1>2, <1>3, <1>4, <1>5, <1>7, ReleasedElection
<1>8. CASE Release(i, n, e) /\ node' = [node EXCEPT ![i] = q] /\ leaders' = RecordLeader(n)
  <2>1. Steady(m, s)
    BY <1>5, CreateSnapshotSteady DEF Fit
  <2>2. Fit(s, net) /\ s \in Node /\ s.term = n.term /\ s.votedFor = n.votedFor
    BY <1>5, <2>1, SteadyFit DEF Steady, Quiet
  <2> HIDE DEF s
  <2>3. HardStateOf(d, s)
    BY <1>3, <2>2 DEF HardStateOf
  <2> HIDE DEF d
  <2>4. e \in Durable /\ HardStateOf(e, s)
    BY <1>3, <2>2, <2>3, HardStatePersisted
  <2>5. HardStateOf(e, n)
    BY <2>2, <2>4 DEF HardStateOf
  <2>6. StaticStore(e) /\ Fit(q, net)
    BY <1>3, <1>4, <2>2, StaticPersist, SyncedFit, FitDone DEF Done
  <2> HIDE DEF e, q
  <2> QED
    BY <1>2, <1>8, <2>4, <2>5, <2>6, ReleasedElection
<1>9. CASE Release(i, n, d) /\ CrashServer(i) /\ UNCHANGED leaders
  <2>1. Fit(Wiped(i), net)
    BY <1>1, NewDurableType, NewStoreStatic, RestartFit DEF Wiped
  <2>2. node' = [node EXCEPT ![i] = Wiped(i)]
    BY <1>9 DEF CrashServer
  <2> HIDE DEF d
  <2> QED
    BY <1>2, <1>3, <1>4, <1>9, <2>1, <2>2, ReleasedElection
<1> QED
  BY <1>6, <1>7, <1>8, <1>9, Zenon DEF HandleOutput, Complete

-----------------------------------------------------------------------------
(* The events *)

LEMMA UpFit ==
  ASSUME ElectionInv, NEW i \in up
  PROVE  Fit(node[i], net) /\ node[i] \in Node /\ Static(node[i])
BY DEF ElectionInv, VoteInv, TypeOK, AllStatic, Fit

LEMMA SteadyOutput ==
  ASSUME ElectionInv, NEW i \in up, NEW n, Steady(node[i], n), HandleOutput(i, n)
  PROVE  ElectionInv'
<1>1. Follows(node[i], n)
  BY UpFit, QuietFollows DEF Steady
<1>2. Done(n, net)
  BY UpFit, SteadyFit, FitDone
<1> QED
  BY <1>1, <1>2, HandleOutputElection

LEMMA DeliverElection ==
  ASSUME ElectionInv, NEW m \in net, Deliver(m)
  PROVE  ElectionInv'
<1>1. m \in Message /\ m.to \in up /\ m.to \in Server /\ Sound(m) /\ node[m.to].id = m.to
  BY MessageEnds DEF ElectionInv, VoteInv, HardStateSaved, TypeOK, AllStatic, Deliver
<1>2. PICK fresh \in BOOLEAN :
        HandleOutput(m.to, Receive(node[m.to], m, fresh))
  BY DEF Deliver
<1>3. Fit(node[m.to], net) /\ node[m.to] \in Node
  BY <1>1, UpFit
<1> DEFINE n == Receive(node[m.to], m, fresh)
<1>4. Follows(node[m.to], n) /\ Done(n, net)
  BY <1>1, <1>3, ReceiveFollows, ReceiveDone
<1>5. HandleOutput(m.to, n)
  BY <1>2
<1> HIDE DEF n
<1> QED
  BY <1>1, <1>4, <1>5, HandleOutputElection

LEMMA NextElection ==
  ASSUME ConfChanges = {}, ElectionInv, Next
  PROVE  ElectionInv'
<1>1. ASSUME NEW i \in Server, ElectionTimeout(i) PROVE ElectionInv'
  <2> DEFINE n == Campaign(node[i], PreVote, FALSE)
  <2>1. i \in up /\ HandleOutput(i, n)
    BY <1>1 DEF ElectionTimeout
  <2>2. Follows(node[i], n) /\ Done(n, net)
    BY <2>1, UpFit, CampaignFollows, CampaignFit, FitDone, ParamsAssumption
  <2> HIDE DEF n
  <2> QED
    BY <2>1, <2>2, HandleOutputElection
<1>2. ASSUME NEW i \in Server, NEW due \in SUBSET LeaderTicks, LeaderTick(i, due)
      PROVE  ElectionInv'
  <2> DEFINE t == "transfer" \in due
             u == "quorum" \in due
             h == "heartbeat" \in due
             n == TickLeader(node[i], t, u, h)
  <2>0. t \in BOOLEAN /\ u \in BOOLEAN /\ h \in BOOLEAN
    OBVIOUS
  <2>1. i \in up /\ HandleOutput(i, n)
    BY <1>2 DEF LeaderTick
  <2> HIDE DEF t, u, h
  <2>2. Steady(node[i], n)
    BY <2>0, <2>1, UpFit, TickLeaderSteady
  <2> HIDE DEF n
  <2> QED
    BY <2>1, <2>2, SteadyOutput
<1>3. ASSUME NEW i \in Server, NEW v \in Value, ClientPropose(i, v) PROVE ElectionInv'
  <2>1. i \in up /\ HandleOutput(i, Propose(node[i], v))
    BY <1>3 DEF ClientPropose
  <2> QED
    BY <2>1, UpFit, ProposeSteady, SteadyOutput
<1>4. ASSUME NEW i \in Server, NEW t \in TransferTargets, Transfer(i, t) PROVE ElectionInv'
  <2>1. i \in up /\ HandleOutput(i, TransferLeadership(node[i], t)) /\ t \in Server
    BY <1>4, ClusterAssumption DEF Transfer
  <2> QED
    BY <2>1, UpFit, TransferLeadershipSteady, SteadyOutput
<1>5. ASSUME NEW i \in Server, Crash(i) PROVE ElectionInv'
  BY <1>5, CrashElection DEF Crash
<1>6. ASSUME NEW i \in Server, Restart(i) PROVE ElectionInv'
  BY <1>6, RestartElection
<1>7. ASSUME NEW m \in net, Deliver(m) PROVE ElectionInv'
  BY <1>7, DeliverElection
<1>8. \/ \E i \in Server : ElectionTimeout(i) \/ Crash(i) \/ Restart(i)
      \/ \E i \in Server, due \in SUBSET LeaderTicks : LeaderTick(i, due)
      \/ \E i \in Server, v \in Value : ClientPropose(i, v)
      \/ \E i \in Server, t \in TransferTargets : Transfer(i, t)
      \/ \E m \in net : Deliver(m)
  BY DEF Next, ReceiveVote, ReceiveVoteResp, ReceiveApp, ReceiveAppResp, ReceiveSnap,
         ReceiveSnapResp, ReceiveTimeoutNow
<1> QED
  BY <1>1, <1>2, <1>3, <1>4, <1>5, <1>6, <1>7, <1>8

LEMMA StutterElection ==
  ASSUME ElectionInv, UNCHANGED vars
  PROVE  ElectionInv'
<1>1. VoteInv'
  BY StutterStep DEF ElectionInv
<1>2. UNCHANGED <<node, durable, net, leaders>>
  BY DEF vars
<1>3. AllStatic' /\ VotesCast'
  BY <1>2 DEF ElectionInv, AllStatic, VotesCast, VotesBind, OneVote, LeadersElected, Cast
<1> QED
  BY <1>1, <1>3 DEF ElectionInv

-----------------------------------------------------------------------------
(* The theorem *)

LEMMA FixedMembersInv ==
  ASSUME ConfChanges = {}
  PROVE  Spec => []ElectionInv
<1>1. ElectionInv /\ [Next]_vars => ElectionInv'
  BY NextElection, StutterElection
<1> QED
  BY InitElectionInv, <1>1, PTL DEF Spec

\* Without membership changes a term has at most one leader: across crashes
\* at any point of a step, restarts, lost, duplicated and reordered messages,
\* pre-votes, forced elections and transfers.  The hypothesis is needed: a
\* leader may start a change before it has committed an entry of its term,
\* and the quorums of the configurations then in use need not meet.
THEOREM FixedMembersElectionSafety ==
  ASSUME ConfChanges = {}
  PROVE  Spec => []ElectionSafety
BY FixedMembersInv, OneLeader, PTL

-----------------------------------------------------------------------------
(***************************************************************************)
(* What a crash cannot take: between two events the store of a live server *)
(* holds its log and its snapshot, entry by entry, so that a restart gives *)
(* them back; and the configurations that newNode reads back from them are *)
(* the ones the node had.                                                  *)
(*                                                                         *)
(* The log is stored by index: entry k of a log lies at snapIndex + k      *)
(* (WellLogged), which every append, truncation, compaction and message    *)
(* keeps.  During a step the store still has the old log; Tracks relates   *)
(* it to the node's new one through the marks that the Persist of the step *)
(* will be built from.                                                     *)
(***************************************************************************)

-----------------------------------------------------------------------------
(* Logs that are stored by index *)

\* The entries follow the index base without a gap.
WellLogged(base, ents) == \A k \in 1 .. Len(ents) : ents[k].index = base + k

LEMMA WellLoggedPart ==
  ASSUME NEW base \in Int, NEW s \in Seq(Entry), WellLogged(base, s),
         NEW a \in Nat \ {0}, NEW b \in Int, b <= Len(s)
  PROVE  /\ SubSeq(s, a, b) \in Seq(Entry)
         /\ Len(SubSeq(s, a, b)) = IF a <= b THEN b - a + 1 ELSE 0
         /\ \A i \in 1 .. Len(SubSeq(s, a, b)) : SubSeq(s, a, b)[i] = s[a + i - 1]
         /\ WellLogged(base + a - 1, SubSeq(s, a, b))
<1>1. Len(s) \in Nat
  BY LenProperties
<1>2. \A i \in a .. b : i \in 1 .. Len(s)
  BY <1>1
<1>3. \A i \in a .. b : s[i] \in Entry
  BY <1>2, ElementOfSeq, Zenon
<1> DEFINE u == SubSeq(s, a, b)
<1>4. /\ u \in Seq(Entry) /\ Len(u) = IF a <= b THEN b - a + 1 ELSE 0
      /\ \A i \in 1 .. b - a + 1 : u[i] = s[a + i - 1]
  BY <1>3, SubSeqProperties
<1> HIDE DEF u
<1>5. \A i \in 1 .. Len(u) : u[i] = s[a + i - 1] /\ a + i - 1 \in 1 .. Len(s)
  BY <1>1, <1>4
<1>6. ASSUME NEW i \in 1 .. Len(u)
      PROVE  u[i].index = base + a - 1 + i
  <2>1. u[i] = s[a + i - 1] /\ a + i - 1 \in 1 .. Len(s)
    BY <1>5
  <2>2. s[a + i - 1].index = base + (a + i - 1)
    BY <2>1 DEF WellLogged
  <2> QED
    BY <2>1, <2>2
<1> QED
  BY <1>4, <1>5, <1>6 DEF u, WellLogged

LEMMA WellLoggedConcat ==
  ASSUME NEW base \in Int, NEW s \in Seq(Entry), NEW t \in Seq(Entry),
         WellLogged(base, s), WellLogged(base + Len(s), t)
  PROVE  WellLogged(base, s \o t)
<1>1. /\ Len(s \o t) = Len(s) + Len(t) /\ Len(s) \in Nat /\ Len(t) \in Nat
      /\ \A i \in 1 .. Len(s) + Len(t) :
           (s \o t)[i] = IF i <= Len(s) THEN s[i] ELSE t[i - Len(s)]
  BY ConcatProperties, LenProperties
<1>2. ASSUME NEW i \in 1 .. Len(s) + Len(t)
      PROVE  (s \o t)[i].index = base + i
  <2>1. CASE i <= Len(s)
    BY <1>1, <2>1 DEF WellLogged
  <2>2. CASE ~(i <= Len(s))
    <3>1. i - Len(s) \in 1 .. Len(t) /\ (s \o t)[i] = t[i - Len(s)]
      BY <1>1, <2>2
    <3>2. t[i - Len(s)].index = (base + Len(s)) + (i - Len(s))
      BY <3>1 DEF WellLogged
    <3> QED
      BY <1>1, <3>1, <3>2
  <2> QED
    BY <2>1, <2>2
<1> QED
  BY <1>1, <1>2 DEF WellLogged

LEMMA WellLoggedEmpty == \A base : WellLogged(base, <<>>)
BY DEF WellLogged

\* The number of entries that UpTo keeps and After drops.
LEMMA CountBelow ==
  ASSUME NEW base \in Int, NEW s \in Seq(Entry), WellLogged(base, s),
         NEW i \in Int, i >= base
  PROVE  CountUpTo(s, i) = IF i - base <= Len(s) THEN i - base ELSE Len(s)
<1> DEFINE c == IF i - base <= Len(s) THEN i - base ELSE Len(s)
<1>1. Len(s) \in Nat
  BY LenProperties
<1>2. c \in Nat
  BY <1>1
<1>3. {k \in 1 .. Len(s) : s[k].index <= i} = {k \in 1 .. Len(s) : base + k <= i}
  BY DEF WellLogged
<1>4. {k \in 1 .. Len(s) : base + k <= i} = 1 .. c
  BY <1>1
<1> HIDE DEF c
<1>5. Cardinality(1 .. c) = c
  BY <1>2, FS_Interval
<1> QED
  BY <1>3, <1>4, <1>5 DEF CountUpTo, c

LEMMA UpToAfter ==
  ASSUME NEW base \in Int, NEW s \in Seq(Entry), WellLogged(base, s),
         NEW i \in Int, i >= base
  PROVE  /\ i - base <= Len(s) => UpTo(s, i) = SubSeq(s, 1, i - base)
         /\ After(s, i) = SubSeq(s, i - base + 1, Len(s))
<1>1. Len(s) \in Nat
  BY LenProperties
<1>2. CASE i - base <= Len(s)
  BY <1>2, CountBelow DEF UpTo, After
<1>3. CASE ~(i - base <= Len(s))
  <2>1. CountUpTo(s, i) = Len(s)
    BY <1>3, CountBelow
  <2>2. SubSeq(s, Len(s) + 1, Len(s)) = <<>>
    BY <1>1, SubSeqEmpty
  <2>3. SubSeq(s, i - base + 1, Len(s)) = <<>>
    BY <1>1, <1>3, SubSeqEmpty
  <2> QED
    BY <1>3, <2>1, <2>2, <2>3 DEF After
<1> QED
  BY <1>2, <1>3

LEMMA PartFields ==
  ASSUME NEW s \in Seq(Entry), NEW a \in Nat \ {0}, NEW b \in Int, b <= Len(s)
  PROVE  /\ SubSeq(s, a, b) \in Seq(Entry)
         /\ Len(SubSeq(s, a, b)) = IF a <= b THEN b - a + 1 ELSE 0
         /\ \A i \in 1 .. Len(SubSeq(s, a, b)) : SubSeq(s, a, b)[i] = s[a + i - 1]
<1>1. Len(s) \in Nat
  BY LenProperties
<1>2. \A i \in a .. b : i \in 1 .. Len(s)
  BY <1>1
<1>3. \A i \in a .. b : s[i] \in Entry
  BY <1>2, ElementOfSeq, Zenon
<1> DEFINE u == SubSeq(s, a, b)
<1>4. /\ u \in Seq(Entry) /\ Len(u) = IF a <= b THEN b - a + 1 ELSE 0
      /\ \A i \in 1 .. b - a + 1 : u[i] = s[a + i - 1]
  BY <1>3, SubSeqProperties
<1> HIDE DEF u
<1>5. \A i \in 1 .. Len(u) : u[i] = s[a + i - 1]
  BY <1>1, <1>4
<1> QED
  BY <1>4, <1>5 DEF u

\* A log is the part before j of any log that agrees there, and its own rest.
LEMMA TailReplaced ==
  ASSUME NEW e \in Seq(Entry), NEW o \in Seq(Entry), NEW j \in 1 .. Len(e) + 1,
         j - 1 <= Len(o), \A k \in 1 .. j - 1 : o[k] = e[k]
  PROVE  SubSeq(o, 1, j - 1) \o SubSeq(e, j, Len(e)) = e
<1> DEFINE old == SubSeq(o, 1, j - 1)
           new == SubSeq(e, j, Len(e))
<1>0. Len(e) \in Nat /\ j \in Nat \ {0} /\ j - 1 \in Nat /\ 1 \in Nat \ {0}
  BY LenProperties
<1>1. /\ old \in Seq(Entry) /\ Len(old) = IF 1 <= j - 1 THEN (j - 1) - 1 + 1 ELSE 0
      /\ \A i \in 1 .. Len(old) : old[i] = o[1 + i - 1]
  BY <1>0, PartFields
<1>2. /\ new \in Seq(Entry) /\ Len(new) = IF j <= Len(e) THEN Len(e) - j + 1 ELSE 0
      /\ \A i \in 1 .. Len(new) : new[i] = e[j + i - 1]
  BY <1>0, PartFields
<1> HIDE DEF old, new
<1>3. Len(old) = j - 1 /\ Len(new) = Len(e) - j + 1
  BY <1>0, <1>1, <1>2
<1>4. /\ old \o new \in Seq(Entry) /\ Len(old \o new) = Len(old) + Len(new)
      /\ \A i \in 1 .. Len(old) + Len(new) :
           (old \o new)[i] = IF i <= Len(old) THEN old[i] ELSE new[i - Len(old)]
  BY <1>1, <1>2, ConcatProperties
<1>5. Len(old) + Len(new) = Len(e)
  BY <1>0, <1>3
<1>6. ASSUME NEW i \in 1 .. Len(e)
      PROVE  (old \o new)[i] = e[i]
  <2>1. CASE i <= Len(old)
    <3>1. i \in 1 .. Len(old) /\ 1 + i - 1 = i /\ i \in 1 .. j - 1
      BY <1>0, <1>3, <2>1
    <3> QED
      BY <1>1, <1>4, <1>5, <2>1, <3>1
  <2>2. CASE ~(i <= Len(old))
    <3>1. i - Len(old) \in 1 .. Len(new) /\ j + (i - Len(old)) - 1 = i
      BY <1>0, <1>3, <2>2
    <3>2. (old \o new)[i] = new[i - Len(old)]
      BY <1>4, <1>5, <2>2
    <3> QED
      BY <1>2, <3>1, <3>2
  <2> QED
    BY <2>1, <2>2
<1> QED
  BY <1>4, <1>5, <1>6, SeqEqual DEF old, new

\* The slices that are sent and persisted run to the end of the log, or to
\* the limit of a message.
LEMMA SliceToEnd ==
  ASSUME NEW l \in Log, NEW lo \in Int, lo >= FirstIndex(l), NEW max \in Nat
  PROVE  \E c \in Int :
           /\ c <= Len(l.entries) /\ (max = 0 => c = Len(l.entries))
           /\ Slice(l, lo, LastIndex(l) + 1, max) = SubSeq(l.entries, lo - l.snapIndex, c)
<1> DEFINE z == LastIndex(l)
           end == Min({(z + 1) - 1, z})
           cut == IF max > 0 THEN Min({end, lo + max - 1}) ELSE end
<1>1. /\ l.snapIndex \in Nat /\ Len(l.entries) \in Nat /\ z \in Int
      /\ z = l.snapIndex + Len(l.entries)
  BY LogFields DEF LastIndex
<1> HIDE DEF z
<1>2. end = z
  <2>1. (z + 1) - 1 = z /\ z <= z
    BY <1>1
  <2> QED
    BY <1>1, <2>1, MinOfTwo
<1>3. cut \in Int /\ cut <= z /\ (max = 0 => cut = z)
  <2> HIDE DEF end
  <2>1. end \in Int /\ lo + max - 1 \in Int
    BY <1>1, <1>2
  <2>2. Min({end, lo + max - 1}) \in Int /\ Min({end, lo + max - 1}) <= z
    BY <1>2, <2>1, MinOfTwo
  <2> QED
    BY <1>1, <1>2, <2>2
<1>4. Slice(l, lo, LastIndex(l) + 1, max) = SubSeq(l.entries, lo - l.snapIndex, cut - l.snapIndex)
  <2>1. FirstIndex(l) \in Int
    BY <1>1 DEF FirstIndex
  <2>2. ~(lo < FirstIndex(l))
    BY <2>1
  <2> QED
    BY <2>2, Zenon DEF Slice, z
<1> HIDE DEF cut
<1>5. /\ cut - l.snapIndex \in Int /\ cut - l.snapIndex <= Len(l.entries)
      /\ max = 0 => cut - l.snapIndex = Len(l.entries)
  BY <1>1, <1>3
<1> QED
  BY <1>4, <1>5

-----------------------------------------------------------------------------
(* Configuration records of such logs *)

LEMMA RecordsConcat ==
  ASSUME NEW s \in Seq(Entry), NEW t \in Seq(Entry)
  PROVE  ConfigRecords(s \o t) = ConfigRecords(s) \cup ConfigRecords(t)
<1> DEFINE E(u) == {u[k] : k \in {j \in 1 .. Len(u) : u[j].type = "Config"}}
           f(u) == {[index |-> e.index, cfg |-> e.data] : e \in E(u)}
<1>1. /\ Len(s \o t) = Len(s) + Len(t) /\ Len(s) \in Nat /\ Len(t) \in Nat
      /\ \A i \in 1 .. Len(s) + Len(t) :
           (s \o t)[i] = IF i <= Len(s) THEN s[i] ELSE t[i - Len(s)]
  BY ConcatProperties, LenProperties
<1>2. E(s \o t) \subseteq E(s) \cup E(t)
  <2>1. SUFFICES ASSUME NEW i \in 1 .. Len(s) + Len(t), (s \o t)[i].type = "Config"
                 PROVE  (s \o t)[i] \in E(s) \cup E(t)
    BY <1>1
  <2>2. CASE i <= Len(s)
    BY <1>1, <2>1, <2>2
  <2>3. CASE ~(i <= Len(s))
    <3>1. i - Len(s) \in 1 .. Len(t) /\ (s \o t)[i] = t[i - Len(s)]
      BY <1>1, <2>3
    <3> QED
      BY <2>1, <3>1
  <2> QED
    BY <2>2, <2>3
<1>3. E(s) \subseteq E(s \o t)
  <2>1. SUFFICES ASSUME NEW i \in 1 .. Len(s), s[i].type = "Config"
                 PROVE  s[i] \in E(s \o t)
    OBVIOUS
  <2>2. i \in 1 .. Len(s \o t) /\ (s \o t)[i] = s[i]
    BY <1>1
  <2> QED
    BY <2>1, <2>2
<1>4. E(t) \subseteq E(s \o t)
  <2>1. SUFFICES ASSUME NEW i \in 1 .. Len(t), t[i].type = "Config"
                 PROVE  t[i] \in E(s \o t)
    OBVIOUS
  <2>2. i + Len(s) \in 1 .. Len(s \o t) /\ (s \o t)[i + Len(s)] = t[i]
    BY <1>1
  <2> QED
    BY <2>1, <2>2
<1>5. E(s \o t) = E(s) \cup E(t)
  BY <1>2, <1>3, <1>4
<1>6. \A u : ConfigRecords(u) = f(u)
  BY DEF ConfigRecords
<1> HIDE DEF E
<1> QED
  BY <1>5, <1>6

\* The records of a part of the log are those of its indexes.
LEMMA RecordsPart ==
  ASSUME NEW base \in Int, NEW s \in Seq(Entry), WellLogged(base, s),
         NEW a \in Nat \ {0}, NEW b \in Int, b <= Len(s)
  PROVE  ConfigRecords(SubSeq(s, a, b))
           = {r \in ConfigRecords(s) : base + a <= r.index /\ r.index <= base + b}
<1> DEFINE u == SubSeq(s, a, b)
           R(e) == [index |-> e.index, cfg |-> e.data]
<1>0. Len(s) \in Nat
  BY LenProperties
<1>1. /\ u \in Seq(Entry) /\ Len(u) = IF a <= b THEN b - a + 1 ELSE 0
      /\ \A i \in 1 .. Len(u) : u[i] = s[a + i - 1]
  BY WellLoggedPart
<1> HIDE DEF u
<1>2. \A r : r \in ConfigRecords(u) <=>
             \E i \in 1 .. Len(u) : u[i].type = "Config" /\ r = R(u[i])
  BY DEF ConfigRecords
<1>3. \A r : r \in ConfigRecords(s) <=>
             \E i \in 1 .. Len(s) : s[i].type = "Config" /\ r = R(s[i])
  BY DEF ConfigRecords
<1>4. ASSUME NEW r \in ConfigRecords(u)
      PROVE  r \in ConfigRecords(s) /\ base + a <= r.index /\ r.index <= base + b
  <2>1. PICK i \in 1 .. Len(u) : u[i].type = "Config" /\ r = R(u[i])
    BY <1>2, <1>4
  <2>2. u[i] = s[a + i - 1] /\ a + i - 1 \in 1 .. Len(s) /\ a + i - 1 <= b
    BY <1>0, <1>1
  <2>3. s[a + i - 1].index = base + (a + i - 1)
    BY <2>2 DEF WellLogged
  <2>4. r \in ConfigRecords(s)
    BY <1>3, <2>1, <2>2
  <2>5. r.index = base + (a + i - 1)
    BY <2>1, <2>2, <2>3
  <2> QED
    BY <2>2, <2>4, <2>5
<1>5. ASSUME NEW r \in ConfigRecords(s), base + a <= r.index, r.index <= base + b
      PROVE  r \in ConfigRecords(u)
  <2>1. PICK i \in 1 .. Len(s) : s[i].type = "Config" /\ r = R(s[i])
    BY <1>3, <1>5
  <2>2. r.index = base + i
    BY <2>1 DEF WellLogged
  <2>3. i - a + 1 \in 1 .. Len(u)
    BY <1>0, <1>1, <1>5, <2>2
  <2>4. u[i - a + 1] = s[a + (i - a + 1) - 1] /\ a + (i - a + 1) - 1 = i
    BY <1>1, <2>3
  <2> QED
    BY <1>2, <2>1, <2>3, <2>4
<1> QED
  BY <1>4, <1>5 DEF u

LEMMA RecordsAbove ==
  ASSUME NEW base \in Int, NEW s \in Seq(Entry), WellLogged(base, s)
  PROVE  /\ ConfigRecords(s) \in SUBSET ConfRecord
         /\ \A r \in ConfigRecords(s) : base < r.index /\ r.index <= base + Len(s)
         /\ \A r, q \in ConfigRecords(s) : r.index = q.index => r = q
<1> DEFINE R(e) == [index |-> e.index, cfg |-> e.data]
<1>1. \A r : r \in ConfigRecords(s) <=>
             \E i \in 1 .. Len(s) : s[i].type = "Config" /\ r = R(s[i])
  BY DEF ConfigRecords
<1>2. \A r \in ConfigRecords(s) : \E i \in 1 .. Len(s) : r = R(s[i]) /\ r.index = base + i
  BY <1>1 DEF WellLogged
<1>3. Len(s) \in Nat
  BY LenProperties
<1>4. ASSUME NEW r \in ConfigRecords(s), NEW q \in ConfigRecords(s), r.index = q.index
      PROVE  r = q
  <2>1. PICK i \in 1 .. Len(s) : r = R(s[i]) /\ r.index = base + i
    BY <1>2
  <2>2. PICK j \in 1 .. Len(s) : q = R(s[j]) /\ q.index = base + j
    BY <1>2
  <2>3. i = j
    BY <1>4, <2>1, <2>2
  <2> QED
    BY <2>1, <2>2, <2>3
<1>5. \A r \in ConfigRecords(s) : base < r.index /\ r.index <= base + Len(s)
  BY <1>2, <1>3
<1> QED
  BY <1>4, <1>5, ConfigRecordsType

-----------------------------------------------------------------------------
(* Configuration histories *)

\* The history of a node that never had a snapshot.
HistoryOf(ents) == InitConfHistory(0, InitialVoters) \cup ConfigRecords(ents)

LEMMA HistoryConcat ==
  ASSUME NEW s \in Seq(Entry), NEW t \in Seq(Entry)
  PROVE  HistoryOf(s \o t) = HistoryOf(s) \cup ConfigRecords(t)
BY RecordsConcat DEF HistoryOf

LEMMA HistoryUpTo ==
  ASSUME NEW s \in Seq(Entry), WellLogged(0, s), NEW i \in Nat, i <= Len(s)
  PROVE  UpToOrOldest(HistoryOf(s), i) = HistoryOf(SubSeq(s, 1, i))
<1> DEFINE h == HistoryOf(s)
           b == [index |-> 0, cfg |-> InitialVoters]
<1>1. ConfigRecords(SubSeq(s, 1, i))
        = {r \in ConfigRecords(s) : 0 + 1 <= r.index /\ r.index <= 0 + i}
  BY RecordsPart
<1>2. \A r \in ConfigRecords(s) : 0 < r.index /\ r.index \in Nat
  BY RecordsAbove DEF ConfRecord
<1>3. ConfigRecords(SubSeq(s, 1, i)) = {r \in ConfigRecords(s) : r.index <= i}
  BY <1>1, <1>2
<1>4. b \in h /\ b.index <= i /\ h = {b} \cup ConfigRecords(s)
  BY DEF HistoryOf, InitConfHistory
<1>5. UpToOrOldest(h, i) = {r \in h : r.index <= i}
  BY <1>4 DEF UpToOrOldest
<1>6. {r \in h : r.index <= i} = {b} \cup {r \in ConfigRecords(s) : r.index <= i}
  BY <1>4
<1> QED
  BY <1>3, <1>5, <1>6 DEF HistoryOf, InitConfHistory

-----------------------------------------------------------------------------
(* A node and its store in the middle of a step *)

\* An App message carries the entries that follow its prevLogIndex.
Linked(m) ==
  /\ m.type = "App" => WellLogged(m.prevLogIndex, m.entries)
  /\ m.type = "Snap" => SnapshotThreshold # 0

Shape(n) ==
  /\ WellLogged(n.log.snapIndex, n.log.entries)
  /\ n.log.snapIndex = n.snapshot.index /\ n.log.snapTerm = n.snapshot.term
  /\ n.log.snapIndex <= n.commitIndex /\ n.lastApplied <= n.commitIndex
  /\ \A m \in n.out : Linked(m)
  /\ SnapshotThreshold = 0 =>
       n.snapshot = NoSnapshot /\ n.confHistory = HistoryOf(n.log.entries)

\* The store holds n's snapshot, and n's log up to the first entry marked.
Appending(d, n) ==
  /\ n.snapDirty = "none" /\ d.snap = n.snapshot
  /\ \/ n.appendedFrom = 0 /\ d.entries = n.log.entries
     \/ /\ n.appendedFrom \in FirstIndex(n.log) .. LastIndex(n.log)
        /\ n.appendedFrom <= n.log.snapIndex + Len(d.entries) + 1
        /\ \A k \in 1 .. n.appendedFrom - n.log.snapIndex - 1 :
             d.entries[k] = n.log.entries[k]

\* n has a snapshot the store has not, and nothing appended.
Snapshotting(d, n) ==
  /\ n.appendedFrom = 0
  /\ \/ n.snapDirty = "keep" /\ n.log.entries = After(d.entries, n.snapshot.index)
     \/ n.snapDirty = "replace" /\ n.log.entries = <<>>

\* The store d is n's, entry by entry.
Saved(d, n) == d.entries = n.log.entries /\ d.snap = n.snapshot

StoredByIndex(d) == WellLogged(d.snap.index, d.entries)

\* The fsync of a step makes the store the node's, and never finds a gap.
LEMMA PersistSaves ==
  ASSUME NEW d \in Durable, StoredByIndex(d), NEW n \in Node, Shape(n),
         Appending(d, n) \/ Snapshotting(d, n)
  PROVE  /\ Saved(ApplyPersist(d, PersistOf(n)), n)
         /\ ~Discontinuous(d, PersistOf(n))
<1> DEFINE p == PersistOf(n)
           e == ApplyPersist(d, p)
           l == n.log
           f == n.appendedFrom
<1>1. /\ l \in Log /\ l.entries \in Seq(Entry) /\ l.snapIndex \in Nat /\ f \in Nat
      /\ Len(l.entries) \in Nat /\ d.entries \in Seq(Entry) /\ Len(d.entries) \in Nat
      /\ LastIndex(l) = l.snapIndex + Len(l.entries) /\ FirstIndex(l) = l.snapIndex + 1
  BY NodeFields, LogFields, LenProperties DEF Durable, LastIndex, FirstIndex
<1>2. /\ p.snap = n.snapDirty /\ p.snapshot = n.snapshot
      /\ p.entries = IF f = 0 THEN <<>> ELSE Slice(l, f, LastIndex(l) + 1, 0)
  BY DEF PersistOf
<1>3. /\ e.entries = KeptEntries(d, p) \o p.entries
      /\ e.snap = IF p.snap = "none" THEN d.snap ELSE p.snapshot
  BY DEF ApplyPersist
<1> HIDE DEF p, e
<1>4. CASE f = 0 /\ n.snapDirty = "none"
  <2>1. d.snap = n.snapshot /\ d.entries = l.entries
    BY <1>1, <1>4 DEF Appending, Snapshotting
  <2>2. KeptEntries(d, p) = d.entries
    BY <1>2, <1>4 DEF KeptEntries
  <2>3. e.entries = d.entries
    BY <1>1, <1>2, <1>3, <1>4, <2>2, ConcatEmptySeq
  <2> QED
    BY <1>2, <1>3, <1>4, <2>1, <2>3 DEF Saved, Discontinuous, e, p
<1>5. CASE f = 0 /\ n.snapDirty # "none"
  <2>1. l.entries \in {After(d.entries, n.snapshot.index), <<>>}
    BY <1>5 DEF Appending, Snapshotting
  <2>2. KeptEntries(d, p) = l.entries
    BY <1>2, <1>5 DEF KeptEntries, Appending, Snapshotting
  <2>3. e.entries = l.entries
    BY <1>1, <1>2, <1>3, <1>5, <2>2, ConcatEmptySeq
  <2> QED
    BY <1>2, <1>3, <1>5, <2>3 DEF Saved, Discontinuous, e, p
<1>6. CASE f # 0
  <2>1. /\ n.snapDirty = "none" /\ d.snap = n.snapshot
        /\ f \in FirstIndex(l) .. LastIndex(l)
        /\ f <= l.snapIndex + Len(d.entries) + 1
        /\ \A k \in 1 .. f - l.snapIndex - 1 : d.entries[k] = l.entries[k]
    BY <1>6 DEF Appending, Snapshotting
  <2>2. WellLogged(l.snapIndex, l.entries) /\ l.snapIndex = d.snap.index
    BY <2>1 DEF Shape
  <2> DEFINE j == f - l.snapIndex
  <2> HIDE DEF l, f
  <2>3. /\ j \in 1 .. Len(l.entries) + 1 /\ j \in 1 .. Len(l.entries) /\ j \in Nat \ {0}
        /\ j - 1 \in Nat /\ j - 1 <= Len(d.entries) /\ l.snapIndex + j = f
        /\ j - 1 = (f - 1) - d.snap.index /\ f - l.snapIndex - 1 = j - 1
    <3>1. /\ f >= l.snapIndex + 1 /\ f <= l.snapIndex + Len(l.entries)
          /\ f <= l.snapIndex + Len(d.entries) + 1
      BY <1>1, <2>1
    <3>2. l.snapIndex \in Int /\ f \in Int /\ Len(l.entries) \in Int /\ Len(d.entries) \in Int
      BY <1>1
    <3>3. /\ j \in Int /\ j >= 1 /\ j <= Len(l.entries) /\ j - 1 <= Len(d.entries)
          /\ l.snapIndex + j = f /\ f - l.snapIndex - 1 = j - 1
          /\ j - 1 = (f - 1) - l.snapIndex
      BY <3>1, <3>2, SMTT(30)
    <3> HIDE DEF j
    <3> QED
      BY <2>2, <3>2, <3>3
  <2>4. \A k \in 1 .. j - 1 : d.entries[k] = l.entries[k]
    BY <2>1, <2>3
  <2> DEFINE new == SubSeq(l.entries, j, Len(l.entries))
             old == SubSeq(d.entries, 1, j - 1)
  <2>5. p.entries = new
    <3>1. Slice(l, f, LastIndex(l) + 1, 0) = SubSeq(l.entries, j, Len(l.entries))
      <4>1. f \in Int /\ f >= FirstIndex(l) /\ 0 \in Nat
        BY <1>1, <2>1
      <4> QED
        BY <1>1, <4>1, SliceToEnd
    <3> QED
      BY <1>2, <1>6, <3>1
  <2> HIDE DEF j
  <2>6. new \in Seq(Entry) /\ Len(new) = Len(l.entries) - j + 1 /\ new[1] = l.entries[j]
    <3>1. /\ Len(new) = IF j <= Len(l.entries) THEN Len(l.entries) - j + 1 ELSE 0
          /\ \A i \in 1 .. Len(new) : new[i] = l.entries[j + i - 1]
          /\ new \in Seq(Entry)
      <4>1. Len(l.entries) \in Int /\ Len(l.entries) <= Len(l.entries)
        BY <1>1
      <4> QED
        BY <1>1, <2>3, <4>1, PartFields, SMTT(30)
    <3> HIDE DEF new
    <3>2. 1 \in 1 .. Len(new) /\ j + 1 - 1 = j
      BY <1>1, <2>3, <3>1, SMTT(30)
    <3> QED
      BY <1>1, <2>3, <3>1, <3>2
  <2>7. /\ old \in Seq(Entry) /\ Len(old) = j - 1
        /\ \A i \in 1 .. j - 1 : old[i] = d.entries[i]
    <3>1. /\ Len(old) = IF 1 <= j - 1 THEN (j - 1) - 1 + 1 ELSE 0
          /\ \A i \in 1 .. Len(old) : old[i] = d.entries[1 + i - 1]
          /\ old \in Seq(Entry)
      <4>1. j - 1 \in Int /\ 1 \in Nat \ {0}
        BY <2>3
      <4> QED
        BY <1>1, <2>3, <4>1, PartFields, SMTT(30)
    <3> HIDE DEF old
    <3>2. Len(old) = j - 1
      BY <2>3, <3>1
    <3>3. \A i \in 1 .. j - 1 : 1 + i - 1 = i
      BY <2>3
    <3> QED
      BY <3>1, <3>2, <3>3
  <2>8. old \o new = l.entries
    BY <1>1, <2>3, <2>4, TailReplaced
  <2> HIDE DEF new
  <2>9. new # <<>> /\ new[1].index = f
    <3>1. l.entries[j].index = f
      BY <2>2, <2>3 DEF WellLogged
    <3>2. Len(new) # 0
      BY <1>1, <2>3, <2>6
    <3> QED
      BY <2>6, <3>1, <3>2, EmptySeq
  <2>10. KeptEntries(d, p) = old
    <3>1. KeptEntries(d, p) = UpTo(d.entries, f - 1)
      BY <1>2, <2>1, <2>5, <2>9 DEF KeptEntries
    <3>2. /\ f - 1 \in Int /\ d.snap.index \in Int /\ f - 1 >= d.snap.index
          /\ (f - 1) - d.snap.index <= Len(d.entries)
      BY <1>1, <2>2, <2>3
    <3>3. UpTo(d.entries, f - 1) = SubSeq(d.entries, 1, (f - 1) - d.snap.index)
      BY <1>1, <3>2, UpToAfter DEF StoredByIndex
    <3> QED
      BY <2>3, <3>1, <3>3
  <2> HIDE DEF old
  <2>11. e.entries = l.entries /\ e.snap = d.snap
    BY <1>2, <1>3, <2>1, <2>5, <2>8, <2>10
  <2>12. (IF old # <<>> THEN old[Len(old)].index ELSE e.snap.index) = f - 1
    <3>1. CASE old # <<>>
      <4>1. j - 1 \in 1 .. j - 1 /\ j - 1 \in 1 .. Len(d.entries)
        BY <1>1, <2>3, <2>7, <3>1, EmptySeq
      <4>2. old[Len(old)] = d.entries[j - 1]
        BY <2>7, <4>1
      <4>3. d.entries[j - 1].index = d.snap.index + (j - 1)
        BY <4>1 DEF StoredByIndex, WellLogged
      <4> QED
        BY <1>1, <2>2, <2>3, <3>1, <4>2, <4>3
    <3>2. CASE old = <<>>
      <4>1. j - 1 = 0
        BY <2>7, <3>2, EmptySeq
      <4> QED
        BY <1>1, <2>2, <2>3, <2>11, <3>2, <4>1
    <3> QED
      BY <3>1, <3>2
  <2>13. ~Discontinuous(d, p)
    <3>1. (f - 1) + 1 = f
      BY <1>1
    <3> QED
      BY <2>5, <2>9, <2>10, <2>12, <3>1 DEF Discontinuous, e
  <2>14. l = n.log
    BY DEF l
  <2> QED
    BY <2>1, <2>11, <2>13, <2>14 DEF Saved, e, p
<1> QED
  BY <1>4, <1>5, <1>6 DEF e, p

-----------------------------------------------------------------------------
(* Methods that leave the log alone *)

\* A node in the middle of a step that has no new snapshot, and at its end.
Tracks(d, n) == n \in Node /\ Shape(n) /\ Appending(d, n)

Ready(d, n) == n \in Node /\ Shape(n) /\ (Appending(d, n) \/ Snapshotting(d, n))

\* q has n's log, snapshot, configurations and marks.
SameLog(n, q) ==
  /\ q.log = n.log /\ q.snapshot = n.snapshot /\ q.confHistory = n.confHistory
  /\ q.appendedFrom = n.appendedFrom /\ q.snapDirty = n.snapDirty

Untouched(n, q) ==
  /\ SameLog(n, q)
  /\ q.commitIndex = n.commitIndex /\ q.lastApplied = n.lastApplied /\ q.out = n.out

LEMMA TracksSameLog ==
  ASSUME NEW d, NEW n, Tracks(d, n), NEW q \in Node, SameLog(n, q),
         n.commitIndex <= q.commitIndex, q.lastApplied <= q.commitIndex,
         \A m \in q.out : m \in n.out \/ Linked(m)
  PROVE  Tracks(d, q)
<1>1. n \in Node /\ Shape(n) /\ Appending(d, n)
  BY DEF Tracks
<1>2. q.log.snapIndex <= q.commitIndex
  <2>1. n.log.snapIndex \in Nat /\ n.commitIndex \in Nat /\ q.commitIndex \in Nat
    BY <1>1, NodeFields, LogFields
  <2>2. n.log.snapIndex <= n.commitIndex /\ q.log.snapIndex = n.log.snapIndex
    BY <1>1 DEF Shape, SameLog
  <2> QED
    BY <2>1, <2>2
<1>3. \A m \in q.out : Linked(m)
  BY <1>1 DEF Shape
<1>4. Shape(q)
  BY <1>1, <1>2, <1>3 DEF Shape, SameLog
<1>5. Appending(d, q)
  BY <1>1 DEF Appending, SameLog
<1> QED
  BY <1>4, <1>5 DEF Tracks

LEMMA TracksUntouched ==
  ASSUME NEW d, NEW n, Tracks(d, n), NEW q \in Node, Untouched(n, q)
  PROVE  Tracks(d, q)
<1>1. n.commitIndex \in Nat /\ n.lastApplied <= n.commitIndex
  BY NodeFields DEF Tracks, Shape
<1> QED
  BY <1>1, TracksSameLog DEF Untouched

LEMMA TracksOut ==
  ASSUME NEW d, NEW n, Tracks(d, n), NEW q \in Node, SameLog(n, q),
         q.commitIndex = n.commitIndex, q.lastApplied = n.lastApplied,
         NEW msgs, q.out = n.out \cup msgs, \A m \in msgs : Linked(m)
  PROVE  Tracks(d, q)
<1>1. n.commitIndex \in Nat /\ n.lastApplied <= n.commitIndex
  BY NodeFields DEF Tracks, Shape
<1> QED
  BY <1>1, TracksSameLog

LEMMA SendTracks ==
  ASSUME NEW d, NEW n, Tracks(d, n), NEW msgs \in SUBSET Message,
         \A m \in msgs : Linked(m)
  PROVE  Tracks(d, Send(n, msgs))
<1> DEFINE q == Send(n, msgs)
<1>1. n \in Node
  BY DEF Tracks
<1>2. q \in Node
  BY <1>1 DEF Send, Node
<1>3. /\ SameLog(n, q) /\ q.commitIndex = n.commitIndex /\ q.lastApplied = n.lastApplied
      /\ q.out = n.out \cup msgs
  BY <1>1 DEF Send, Node, SameLog
<1> HIDE DEF q
<1>4. Tracks(d, q)
  BY <1>2, <1>3, TracksOut
<1> QED
  BY <1>4 DEF q

\* The entries of a message follow the entry it names; without snapshots
\* every log starts at its first entry and none is ever sent.
LEMMA AppsForLinked ==
  ASSUME NEW n \in Node, Shape(n), NEW to \in Server
  PROVE  \A m \in AppsFor(n, to) : Linked(m)
<1> DEFINE pr == n.prs[to]
           l == n.log
           e == Slice(l, pr.next, LastIndex(l) + 1, MaxBatch)
<1>1. /\ l \in Log /\ l.entries \in Seq(Entry) /\ l.snapIndex \in Nat
      /\ WellLogged(l.snapIndex, l.entries) /\ l.snapIndex = n.snapshot.index
      /\ pr \in Progress
  BY NodeFields, LogFields DEF Shape
<1>2. pr # NoProgress => pr.next \in Nat \ {0}
  BY <1>1, ProgressFields
<1>3. ASSUME pr # NoProgress, NeedsSnapshot(n, to)
      PROVE  SnapshotThreshold # 0
  <2>1. l.snapIndex # 0
    BY <1>1, <1>2, <1>3 DEF NeedsSnapshot
  <2> QED
    BY <1>1, <2>1 DEF Shape, NoSnapshot
<1>4. ASSUME pr # NoProgress, ~NeedsSnapshot(n, to)
      PROVE  WellLogged(PrevIndex(pr), e)
  <2>1. pr.next \in Int /\ pr.next > l.snapIndex
    BY <1>1, <1>2, <1>4 DEF NeedsSnapshot
  <2> HIDE DEF l
  <2>2. pr.next >= FirstIndex(l) /\ MaxBatch \in Nat
    BY <1>1, <2>1, ParamsAssumption DEF FirstIndex
  <2>3. PICK c \in Int :
          c <= Len(l.entries) /\ e = SubSeq(l.entries, pr.next - l.snapIndex, c)
    BY <1>1, <2>1, <2>2, SliceToEnd
  <2>4. /\ pr.next - l.snapIndex \in Nat \ {0} /\ l.snapIndex \in Int
        /\ l.snapIndex + (pr.next - l.snapIndex) - 1 = PrevIndex(pr)
    BY <1>1, <2>1 DEF PrevIndex
  <2>5. WellLogged(l.snapIndex + (pr.next - l.snapIndex) - 1,
                   SubSeq(l.entries, pr.next - l.snapIndex, c))
    BY <1>1, <2>3, <2>4, WellLoggedPart
  <2> QED
    BY <2>3, <2>4, <2>5
<1> HIDE DEF e
<1>5. AppsFor(n, to) = {} \/
      (/\ pr # NoProgress /\ NeedsSnapshot(n, to)
       /\ AppsFor(n, to) = {[type |-> "Snap", from |-> n.id, to |-> to, term |-> n.term,
                             snapshot |-> n.snapshot]}) \/
      (/\ pr # NoProgress /\ ~NeedsSnapshot(n, to)
       /\ AppsFor(n, to) =
            {[type |-> "App", from |-> n.id, to |-> to, term |-> n.term,
              prevLogIndex |-> PrevIndex(pr), prevLogTerm |-> TermAt(l, PrevIndex(pr)),
              entries |-> e, commit |-> n.commitIndex]})
  BY DEF AppsFor, e
<1> QED
  BY <1>3, <1>4, <1>5 DEF Linked

LEMMA SendAppendsTracks ==
  ASSUME NEW d, NEW n, Tracks(d, n), NEW targets \in SUBSET Server
  PROVE  Tracks(d, SendAppends(n, targets))
<1> DEFINE o == UNION {AppsFor(n, to) : to \in targets}
           r == [s \in Server |->
                   IF s \in targets /\ NeedsSnapshot(n, s)
                   THEN [n.prs[s] EXCEPT !.pendingSnap = TRUE] ELSE n.prs[s]]
           x == n.panic \/ \E to \in targets : CannotSend(n, to)
           q == [n EXCEPT !.out = @ \cup o, !.prs = r, !.panic = x]
<1>1. n \in Node /\ Shape(n)
  BY DEF Tracks
<1>2. \A m \in o : Linked(m)
  BY <1>1, AppsForLinked
<1>3. SendAppends(n, targets) = q
  BY Zenon DEF SendAppends
<1>4. q \in Node
  BY <1>1, <1>3, SendAppendsQuiet DEF Quiet
<1> HIDE DEF o, r, x
<1>5. /\ SameLog(n, q) /\ q.commitIndex = n.commitIndex /\ q.lastApplied = n.lastApplied
      /\ q.out = n.out \cup o
  BY <1>1 DEF Node, SameLog
<1> HIDE DEF q
<1> QED
  BY <1>2, <1>3, <1>4, <1>5, TracksOut

LEMMA BroadcastTracks ==
  ASSUME NEW d, NEW n, Tracks(d, n)
  PROVE  Tracks(d, BroadcastAppend(n))
BY ReplicationTargetsType, SendAppendsTracks DEF BroadcastAppend, Tracks

\* Committing up to k, not below what was committed.
LEMMA CommitTracks ==
  ASSUME NEW d, NEW n, Tracks(d, n), NEW k \in Nat, n.commitIndex <= k
  PROVE  Tracks(d, ApplyCommitted([n EXCEPT !.commitIndex = k]))
<1> DEFINE b == [n EXCEPT !.commitIndex = k]
           a == b.applied \o Slice(b.log, b.lastApplied + 1, b.commitIndex + 1, 0)
           q == [b EXCEPT !.applied = a, !.lastApplied = b.commitIndex]
<1>1. n \in Node /\ n.commitIndex \in Nat /\ n.lastApplied \in Nat
      /\ n.lastApplied <= n.commitIndex
  BY NodeFields DEF Tracks, Shape
<1>2. b \in Node
  BY <1>1 DEF Node
<1>3. /\ SameLog(n, b) /\ b.commitIndex = k /\ b.lastApplied = n.lastApplied
      /\ b.out = n.out
  BY <1>1 DEF Node, SameLog
<1>4. ApplyCommitted(b) = IF b.commitIndex <= b.lastApplied THEN b ELSE q
  BY Zenon DEF ApplyCommitted
<1>5. ApplyCommitted(b) \in Node
  BY <1>2, ApplyCommittedQuiet DEF Quiet
<1> HIDE DEF b, a
<1>6. SameLog(b, q) /\ q.commitIndex = k /\ q.lastApplied = k /\ q.out = b.out
  BY <1>2, <1>3 DEF Node, SameLog
<1> HIDE DEF q
<1>7. b.lastApplied <= b.commitIndex
  BY <1>1, <1>3
<1>8. Tracks(d, b)
  BY <1>2, <1>3, <1>7, TracksSameLog
<1>9. q \in Node => Tracks(d, q)
  BY <1>3, <1>6, <1>8, TracksSameLog
<1>10. Tracks(d, ApplyCommitted(b))
  BY <1>4, <1>5, <1>8, <1>9
<1> QED
  BY <1>10 DEF b

LEMMA BecomeFollowerTracks ==
  ASSUME NEW d, NEW n, Tracks(d, n), NEW term \in Nat, NEW leader \in OptServer
  PROVE  /\ Tracks(d, BecomeFollower(n, term, leader))
         /\ BecomeFollower(n, term, leader).appendedFrom = n.appendedFrom
<1> DEFINE q == BecomeFollower(n, term, leader)
<1>1. n \in Node
  BY DEF Tracks
<1>2. q \in Node
  BY <1>1, BecomeFollowerFollows DEF Follows
<1>3. Untouched(n, q)
  BY <1>1 DEF BecomeFollower, Node, SameLog, Untouched
<1> HIDE DEF q
<1>4. Tracks(d, q) /\ q.appendedFrom = n.appendedFrom
  BY <1>2, <1>3, TracksUntouched DEF Untouched, SameLog
<1> QED
  BY <1>4 DEF q

LEMMA AfterCommitTracks ==
  ASSUME NEW d, NEW n, Tracks(d, n)
  PROVE  Tracks(d, AfterCommit(n))
<1>1. Tracks(d, BecomeFollower(n, n.term, None))
  BY BecomeFollowerTracks, NodeFields DEF OptServer, Tracks
<1> QED
  BY <1>1, Zenon DEF AfterCommit

LEMMA MaybeCommitTracks ==
  ASSUME NEW d, NEW n, Tracks(d, n)
  PROVE  Tracks(d, MaybeCommit(n))
<1> DEFINE k == QuorumMatch(n)
           b == ApplyCommitted([n EXCEPT !.commitIndex = k])
           c == AfterCommit(b)
<1>1. CASE n.state = "Leader" /\ k \in n.commitIndex + 1 .. LastIndex(n.log)
             /\ CommittableAt(n, k)
  <2>1. n \in Node /\ k \in Nat /\ n.commitIndex <= k
    BY <1>1, NodeFields, IndexType DEF Tracks
  <2>2. MaybeCommit(n) = IF c.state = "Leader" THEN BroadcastAppend(c) ELSE c
    BY <1>1, Zenon DEF MaybeCommit
  <2> HIDE DEF k
  <2>3. Tracks(d, b)
    BY <2>1, CommitTracks
  <2> HIDE DEF b
  <2>4. Tracks(d, c)
    BY <2>3, AfterCommitTracks
  <2> HIDE DEF c
  <2>5. Tracks(d, BroadcastAppend(c))
    BY <2>4, BroadcastTracks
  <2> QED
    BY <2>2, <2>4, <2>5
<1>2. CASE ~(n.state = "Leader" /\ k \in n.commitIndex + 1 .. LastIndex(n.log)
               /\ CommittableAt(n, k))
  <2>1. MaybeCommit(n) = n
    BY <1>2, Zenon DEF MaybeCommit
  <2> QED
    BY <2>1
<1> QED
  BY <1>1, <1>2

LEMMA MaybeCommitThenBroadcastTracks ==
  ASSUME NEW d, NEW n, Tracks(d, n)
  PROVE  Tracks(d, MaybeCommitThenBroadcast(n))
BY MaybeCommitTracks, BroadcastTracks, Zenon DEF MaybeCommitThenBroadcast

-----------------------------------------------------------------------------
(* Methods that append *)

\* q is n with the entries from position j on replaced by new, and the first
\* entry that the store may lack marked.
Replaces(n, q, j, new) ==
  /\ q.log.entries = SubSeq(n.log.entries, 1, j - 1) \o new
  /\ q.log.snapIndex = n.log.snapIndex /\ q.log.snapTerm = n.log.snapTerm
  /\ \/ n.appendedFrom = 0 /\ q.appendedFrom = n.log.snapIndex + j
     \/ /\ n.appendedFrom # 0 /\ q.appendedFrom = n.appendedFrom
        /\ j = Len(n.log.entries) + 1
  /\ SnapshotThreshold = 0 =>
       q.confHistory = HistoryOf(SubSeq(n.log.entries, 1, j - 1)) \cup ConfigRecords(new)
  /\ q.snapshot = n.snapshot /\ q.snapDirty = n.snapDirty
  /\ q.commitIndex = n.commitIndex /\ q.lastApplied = n.lastApplied /\ q.out = n.out

LEMMA ReplaceTracks ==
  ASSUME NEW d \in Durable, NEW n, Tracks(d, n), NEW q \in Node,
         NEW j \in 1 .. Len(n.log.entries) + 1, NEW new \in Seq(Entry), new # <<>>,
         WellLogged(n.log.snapIndex + j - 1, new), Replaces(n, q, j, new)
  PROVE  Tracks(d, q)
<1> DEFINE ents == n.log.entries
           base == n.log.snapIndex
           kept == SubSeq(ents, 1, j - 1)
           f == n.appendedFrom
           g == q.appendedFrom
<1>1. /\ n \in Node /\ ents \in Seq(Entry) /\ base \in Nat /\ Len(ents) \in Nat
      /\ d.entries \in Seq(Entry) /\ Len(d.entries) \in Nat /\ f \in Nat
      /\ Len(new) \in Nat /\ Len(new) # 0 /\ g \in Nat
  <2>1. n \in Node
    BY DEF Tracks
  <2>2. n.log \in Log /\ f \in Nat /\ g \in Nat
    BY <2>1, NodeFields
  <2> QED
    BY <2>1, <2>2, LogFields, LenProperties, EmptySeq DEF Durable
<1>2. /\ WellLogged(base, ents) /\ n.log.snapIndex = n.snapshot.index
      /\ n.log.snapTerm = n.snapshot.term /\ n.log.snapIndex <= n.commitIndex
      /\ n.lastApplied <= n.commitIndex /\ \A m \in n.out : Linked(m)
      /\ SnapshotThreshold = 0 => n.snapshot = NoSnapshot
  BY DEF Tracks, Shape
<1>3. /\ n.snapDirty = "none" /\ d.snap = n.snapshot
      /\ \/ f = 0 /\ d.entries = ents
         \/ /\ f \in FirstIndex(n.log) .. LastIndex(n.log)
            /\ f <= base + Len(d.entries) + 1
            /\ \A k \in 1 .. f - base - 1 : d.entries[k] = ents[k]
  BY DEF Tracks, Appending
<1>4. FirstIndex(n.log) = base + 1 /\ LastIndex(n.log) = base + Len(ents)
  BY DEF FirstIndex, LastIndex
<1>5. FirstIndex(q.log) = base + 1 /\ LastIndex(q.log) = base + Len(q.log.entries)
  BY DEF FirstIndex, LastIndex, Replaces
<1> HIDE DEF ents, base, f, g
<1>6. j \in Nat \ {0} /\ j <= Len(ents) + 1 /\ j - 1 \in Int /\ j - 1 <= Len(ents)
  BY <1>1 DEF ents
<1>7. /\ kept \in Seq(Entry) /\ Len(kept) = IF 1 <= j - 1 THEN (j - 1) - 1 + 1 ELSE 0
      /\ \A i \in 1 .. Len(kept) : kept[i] = ents[1 + i - 1]
      /\ WellLogged(base + 1 - 1, kept)
  BY <1>1, <1>2, <1>6, WellLoggedPart
<1> HIDE DEF kept
<1>8. Len(kept) = j - 1 /\ WellLogged(base, kept) /\ base \in Int
  <2>1. base + 1 - 1 = base /\ Len(kept) = j - 1
    BY <1>1, <1>6, <1>7
  <2> QED
    BY <1>1, <1>7, <2>1
<1>9. WellLogged(base + Len(kept), new)
  <2>1. base + Len(kept) = base + j - 1
    BY <1>1, <1>6, <1>8
  <2> QED
    BY <2>1 DEF base
<1>10. q.log.entries = kept \o new /\ WellLogged(base, kept \o new)
  BY <1>7, <1>8, <1>9, WellLoggedConcat DEF kept, ents, Replaces
<1>11. /\ Len(kept \o new) = Len(kept) + Len(new)
       /\ \A i \in 1 .. Len(kept) + Len(new) :
            (kept \o new)[i] = IF i <= Len(kept) THEN kept[i] ELSE new[i - Len(kept)]
  BY <1>7, ConcatProperties
<1>12. \A i \in 1 .. j - 1 : (kept \o new)[i] = ents[i]
  <2>1. SUFFICES ASSUME NEW i \in 1 .. j - 1 PROVE (kept \o new)[i] = ents[i]
    OBVIOUS
  <2>2. i \in 1 .. Len(kept) + Len(new) /\ i <= Len(kept) /\ i \in 1 .. Len(kept) /\ 1 + i - 1 = i
    BY <1>1, <1>6, <1>8
  <2> QED
    BY <1>7, <1>11, <2>2
<1>13. Shape(q)
  <2>1. SnapshotThreshold = 0 => q.confHistory = HistoryOf(kept \o new)
    BY <1>7, HistoryConcat DEF kept, ents, Replaces
  <2> QED
    BY <1>2, <1>10, <2>1 DEF Shape, base, Replaces
<1>14. LastIndex(q.log) = base + (j - 1) + Len(new)
  BY <1>1, <1>5, <1>6, <1>8, <1>10, <1>11
<1>15. Appending(d, q)
  <2>1. CASE f = 0
    <3>1. g = base + j /\ d.entries = ents
      BY <1>1, <1>3, <1>4, <2>1 DEF f, g, base, Replaces
    <3>2. g \in FirstIndex(q.log) .. LastIndex(q.log) /\ g <= base + Len(d.entries) + 1
      BY <1>1, <1>5, <1>6, <1>14, <3>1, SMTT(30)
    <3>3. g - base - 1 = j - 1
      BY <1>1, <1>6, <3>1
    <3>4. \A k \in 1 .. g - base - 1 : d.entries[k] = q.log.entries[k]
      BY <1>10, <1>12, <3>1, <3>3
    <3> QED
      BY <1>3, <3>2, <3>4 DEF Appending, g, base, Replaces
  <2>2. CASE f # 0
    <3>0. g = f /\ j = Len(ents) + 1
      BY <2>2 DEF f, g, ents, Replaces
    <3>1. /\ g = f /\ j = Len(ents) + 1 /\ f >= base + 1 /\ f <= base + Len(ents)
          /\ f <= base + Len(d.entries) + 1
          /\ \A k \in 1 .. f - base - 1 : d.entries[k] = ents[k]
      BY <1>1, <1>3, <1>4, <2>2, <3>0
    <3>2. g \in FirstIndex(q.log) .. LastIndex(q.log)
      BY <1>1, <1>5, <1>6, <1>14, <3>1
    <3>3. \A k \in 1 .. f - base - 1 : k \in 1 .. j - 1
      BY <1>1, <1>6, <3>1
    <3>4. \A k \in 1 .. g - base - 1 : d.entries[k] = q.log.entries[k]
      BY <1>10, <1>12, <3>1, <3>3
    <3> QED
      BY <1>3, <3>1, <3>2, <3>4 DEF Appending, g, base, Replaces
  <2> QED
    BY <2>1, <2>2
<1> QED
  BY <1>13, <1>15 DEF Tracks

LEMMA AppendEntryTracks ==
  ASSUME NEW d \in Durable, NEW n, Tracks(d, n), NEW type, NEW data,
         \/ type = "Normal" /\ data \in Value
         \/ type = "Noop"   /\ data = None
         \/ type = "Config" /\ data \in SUBSET Server
  PROVE  Tracks(d, AppendEntry(n, type, data))
<1> DEFINE e == [index |-> LastIndex(n.log) + 1, term |-> n.term, type |-> type,
                 data |-> data]
           fresh == IF type = "Config"
                    THEN {v \in data \ {n.id} : n.prs[v] = NoProgress} ELSE {}
           l == AppendLog(n.log, <<e>>)
           h == n.confHistory \cup ConfigRecords(<<e>>)
           r == [s \in Server |-> IF s \in fresh THEN NewProgress(e.index + 1)
                                  ELSE n.prs[s]]
           i == MarkAppended(n, e.index)
           q == [n EXCEPT !.log = l, !.appendedFrom = i, !.confHistory = h, !.prs = r]
           j == Len(n.log.entries) + 1
<1>1. n \in Node /\ n.log \in Log /\ n.term \in Nat /\ LastIndex(n.log) \in Nat
  BY NodeFields, IndexType DEF Tracks
<1>2. e \in Entry
  BY <1>1 DEF Entry
<1>3. AppendEntry(n, type, data) = q
  BY Zenon DEF AppendEntry
<1>4. q \in Node
  BY <1>1, <1>3, AppendEntryQuiet DEF Quiet
<1>5. n.log.entries \in Seq(Entry) /\ n.log.snapIndex \in Nat /\ Len(n.log.entries) \in Nat
  BY <1>1, LogFields, LenProperties
<1>6. /\ j \in 1 .. Len(n.log.entries) + 1 /\ j - 1 = Len(n.log.entries)
      /\ e.index = n.log.snapIndex + j
  BY <1>5, SMTT(30) DEF LastIndex
<1>7. SubSeq(n.log.entries, 1, j - 1) = n.log.entries
  BY <1>5, <1>6, SubSeqFull
<1>8. i = IF n.appendedFrom = 0 THEN n.log.snapIndex + j ELSE n.appendedFrom
  <2>1. CASE n.appendedFrom = 0
    BY <1>6, <2>1 DEF MarkAppended
  <2>2. CASE n.appendedFrom # 0
    <3>1. n.appendedFrom \in Int /\ n.appendedFrom <= LastIndex(n.log)
      BY <1>1, <2>2, NodeFields DEF Tracks, Appending
    <3>2. ~(LastIndex(n.log) + 1 < n.appendedFrom)
      BY <1>1, <3>1
    <3> QED
      BY <2>2, <3>2 DEF MarkAppended
  <2> QED
    BY <2>1, <2>2
<1> HIDE DEF e
<1>9. /\ <<e>> \in Seq(Entry) /\ <<e>> # <<>> /\ Len(<<e>>) = 1 /\ <<e>>[1] = e
  BY <1>2
<1>10. WellLogged(n.log.snapIndex + j - 1, <<e>>)
  <2>1. n.log.snapIndex + j = (n.log.snapIndex + j - 1) + 1
    BY <1>5
  <2> QED
    BY <1>6, <1>9, <2>1 DEF WellLogged
<1>11. l.entries = n.log.entries \o <<e>> /\ l.snapIndex = n.log.snapIndex
         /\ l.snapTerm = n.log.snapTerm
  BY <1>1 DEF AppendLog, Log
<1>12. SnapshotThreshold = 0 => h = HistoryOf(n.log.entries) \cup ConfigRecords(<<e>>)
  BY DEF Tracks, Shape
<1> HIDE DEF l, h, r, i, j
<1>13. /\ q.log = l /\ q.appendedFrom = i /\ q.confHistory = h /\ q.snapshot = n.snapshot
       /\ q.snapDirty = n.snapDirty /\ q.commitIndex = n.commitIndex
       /\ q.lastApplied = n.lastApplied /\ q.out = n.out
  BY <1>1 DEF Node
<1> HIDE DEF q
<1>14. \/ n.appendedFrom = 0 /\ q.appendedFrom = n.log.snapIndex + j
       \/ /\ n.appendedFrom # 0 /\ q.appendedFrom = n.appendedFrom
          /\ j = Len(n.log.entries) + 1
  BY <1>8, <1>13 DEF j
<1>15. /\ q.log.entries = SubSeq(n.log.entries, 1, j - 1) \o <<e>>
       /\ q.log.snapIndex = n.log.snapIndex /\ q.log.snapTerm = n.log.snapTerm
       /\ SnapshotThreshold = 0 =>
            q.confHistory = HistoryOf(SubSeq(n.log.entries, 1, j - 1)) \cup ConfigRecords(<<e>>)
  BY <1>7, <1>11, <1>12, <1>13
<1>16. Replaces(n, q, j, <<e>>)
  BY <1>13, <1>14, <1>15 DEF Replaces
<1>17. Tracks(d, q)
  BY <1>4, <1>6, <1>9, <1>10, <1>16, ReplaceTracks
<1> QED
  BY <1>3, <1>17

LEMMA ProposeTracks ==
  ASSUME NEW d \in Durable, NEW n, Tracks(d, n), NEW v \in Value
  PROVE  Tracks(d, Propose(n, v))
<1>1. Tracks(d, AppendEntry(n, "Normal", v))
  BY AppendEntryTracks
<1> QED
  BY <1>1, MaybeCommitThenBroadcastTracks, Zenon DEF Propose

-----------------------------------------------------------------------------
(* Elections *)

LEMMA BecomeLeaderTracks ==
  ASSUME NEW d \in Durable, NEW n, Tracks(d, n)
  PROVE  Tracks(d, BecomeLeader(n))
<1> DEFINE r == [s \in Server |->
                   IF s \in Config(n) \ {n.id} THEN NewProgress(LastIndex(n.log) + 1)
                   ELSE NoProgress]
           lead == [n EXCEPT !.state = "Leader", !.leaderID = n.id, !.votes = NoVotes,
                             !.transferee = None, !.prs = r]
           a == AppendEntry(lead, "Noop", None)
           c == MaybeCommit(a)
<1>1. n \in Node
  BY DEF Tracks
<1>2. r \in [Server -> Progress]
  BY <1>1, NodeFields, IndexType, NewProgressType DEF Progress
<1>3. NoVotes \in [Server -> {"none", "yes", "no"}] /\ n.id \in OptServer
      /\ None \in OptServer /\ "Leader" \in States
  BY <1>1, NodeFields DEF NoVotes, OptServer, States
<1>4. BecomeLeader(n) = BroadcastAppend(c)
  BY Zenon DEF BecomeLeader
<1> HIDE DEF r
<1>5. lead \in Node
  BY <1>1, <1>2, <1>3 DEF Node
<1>6. Untouched(n, lead)
  BY <1>1 DEF Node, Untouched, SameLog
<1> HIDE DEF lead
<1>7. Tracks(d, lead)
  BY <1>5, <1>6, TracksUntouched
<1>8. Tracks(d, a)
  BY <1>7, AppendEntryTracks
<1> HIDE DEF a
<1>9. Tracks(d, c)
  BY <1>8, MaybeCommitTracks
<1> HIDE DEF c
<1> QED
  BY <1>4, <1>9, BroadcastTracks

LEMMA RequestVotesTracks ==
  ASSUME NEW d, NEW n, Tracks(d, n), NEW term \in Nat, NEW pre \in BOOLEAN,
         NEW force \in BOOLEAN
  PROVE  Tracks(d, RequestVotes(n, term, pre, force))
<1> DEFINE V(v) == [type |-> "Vote", from |-> n.id, to |-> v, term |-> term,
                    preVote |-> pre, force |-> force,
                    lastLogIndex |-> LastIndex(n.log), lastLogTerm |-> LastTerm(n.log)]
           msgs == {V(v) : v \in Config(n) \ {n.id}}
<1>0. n \in Node
  BY DEF Tracks
<1>1. LastIndex(n.log) \in Nat /\ LastTerm(n.log) \in Nat
  BY <1>0, NodeFields, IndexType, TermAtType DEF LastTerm
<1>2. \A v \in Server : V(v) \in VoteReq /\ Linked(V(v))
  BY <1>0, <1>1, NodeFields DEF VoteReq, Linked
<1>3. msgs \in SUBSET Message /\ \A m \in msgs : Linked(m)
  BY <1>0, <1>2, ReplicationTargetsType DEF Message
<1> QED
  BY <1>3, SendTracks DEF RequestVotes

LEMMA ElectTracks ==
  ASSUME NEW d \in Durable, NEW n, Tracks(d, n), NEW force \in BOOLEAN
  PROVE  Tracks(d, Elect(n, force))
<1> DEFINE c == BecomeCandidate(n)
<1>1. n \in Node
  BY DEF Tracks
<1>2. c \in Node
  BY <1>1, BecomeCandidateFollows DEF Follows
<1>3. Untouched(n, c)
  BY <1>1 DEF BecomeCandidate, Node, Untouched, SameLog
<1>4. Elect(n, force) = IF VotesReach(c, "yes") THEN BecomeLeader(c)
                        ELSE RequestVotes(c, c.term, FALSE, force)
  BY Zenon DEF Elect
<1> HIDE DEF c
<1>5. Tracks(d, c) /\ c.term \in Nat
  BY <1>2, <1>3, TracksUntouched, NodeFields
<1> QED
  BY <1>4, <1>5, BecomeLeaderTracks, RequestVotesTracks

LEMMA CampaignTracks ==
  ASSUME NEW d \in Durable, NEW n, Tracks(d, n), NEW pre \in BOOLEAN, NEW force \in BOOLEAN
  PROVE  Tracks(d, Campaign(n, pre, force))
<1> DEFINE c == BecomePreCandidate(n)
<1>1. n \in Node
  BY DEF Tracks
<1>2. c \in Node
  BY <1>1, BecomePreCandidateQuiet DEF Quiet
<1>3. Untouched(n, c)
  BY <1>1 DEF BecomePreCandidate, Node, Untouched, SameLog
<1>4. PreElect(n, force) = IF VotesReach(c, "yes") THEN Elect(c, force)
                           ELSE RequestVotes(c, c.term + 1, TRUE, force)
  BY Zenon DEF PreElect
<1> HIDE DEF c
<1>5. Tracks(d, c) /\ c.term + 1 \in Nat
  BY <1>2, <1>3, TracksUntouched, NodeFields
<1>6. Tracks(d, PreElect(n, force))
  BY <1>4, <1>5, ElectTracks, RequestVotesTracks
<1> QED
  BY <1>6, ElectTracks, Zenon DEF Campaign

\* Answers of all kinds but entries carry nothing of the log.
LEMMA VoteReplyLinked ==
  ASSUME NEW n, NEW m, NEW term, NEW pre, NEW granted
  PROVE  \A r \in VoteReply(n, m, term, pre, granted) : Linked(r)
BY DEF VoteReply, Linked

LEMMA RefusalTracks ==
  ASSUME NEW d, NEW n, Tracks(d, n), NEW m \in Message, NEW pre \in BOOLEAN
  PROVE  Tracks(d, Send(n, VoteReply(n, m, n.term, pre, FALSE)))
<1> DEFINE reply == VoteReply(n, m, n.term, pre, FALSE)
<1>1. reply \in SUBSET Message
  BY NodeFields, VoteReplyType DEF Tracks
<1>2. \A r \in reply : Linked(r)
  BY VoteReplyLinked
<1> HIDE DEF reply
<1>3. Tracks(d, Send(n, reply))
  BY <1>1, <1>2, SendTracks
<1> QED
  BY <1>3 DEF reply

LEMMA HandleVoteTracks ==
  ASSUME NEW d, NEW n, Tracks(d, n), NEW m \in VoteReq, NEW fresh \in BOOLEAN
  PROVE  Tracks(d, HandleVote(n, m, fresh))
<1>1. n \in Node /\ m \in Message /\ n.term \in Nat /\ m.term \in Nat /\ m.from \in OptServer
  BY NodeFields DEF Tracks, Message, VoteReq, OptServer
<1>2. Tracks(d, HandlePreVote(n, m, fresh))
  <2> DEFINE granted == /\ m.term > n.term
                        /\ LogUpToDate(n, m.lastLogIndex, m.lastLogTerm)
                        /\ ~Sticky(n, m, fresh)
             term == IF granted THEN m.term ELSE n.term
             reply == VoteReply(n, m, term, TRUE, granted)
  <2>1. granted \in BOOLEAN /\ term \in Nat
    BY <1>1
  <2>2. HandlePreVote(n, m, fresh) = Send(n, reply)
    BY Zenon DEF HandlePreVote
  <2> HIDE DEF granted, term
  <2>3. reply \in SUBSET Message /\ \A r \in reply : Linked(r)
    BY <1>1, <2>1, VoteReplyType, VoteReplyLinked
  <2> QED
    BY <2>2, <2>3, SendTracks
<1>3. Tracks(d, HandleRealVote(n, m))
  <2> DEFINE granted == CanVote(n, m) /\ LogUpToDate(n, m.lastLogIndex, m.lastLogTerm)
             reply   == VoteReply(n, m, n.term, FALSE, granted)
             p       == [n EXCEPT !.votedFor = m.from, !.hsDirty = TRUE]
  <2>1. granted \in BOOLEAN
    OBVIOUS
  <2>2. HandleRealVote(n, m) = IF granted THEN Send(p, reply) ELSE Send(n, reply)
    BY Zenon DEF HandleRealVote
  <2> HIDE DEF granted
  <2>3. reply \in SUBSET Message /\ \A r \in reply : Linked(r)
    BY <1>1, <2>1, VoteReplyType, VoteReplyLinked
  <2> HIDE DEF reply
  <2>4. p \in Node
    BY <1>1 DEF Node
  <2>5. Untouched(n, p)
    BY <1>1 DEF Node, Untouched, SameLog
  <2> HIDE DEF p
  <2>6. Tracks(d, p)
    BY <2>4, <2>5, TracksUntouched
  <2> QED
    BY <2>2, <2>3, <2>6, SendTracks
<1> QED
  BY <1>2, <1>3, Zenon DEF HandleVote

LEMMA HandleVoteRespTracks ==
  ASSUME NEW d \in Durable, NEW n, Tracks(d, n), NEW m \in VoteResp
  PROVE  Tracks(d, HandleVoteResp(n, m))
<1> DEFINE c == Counted(n, m)
<1>1. n \in Node
  BY DEF Tracks
<1>2. c \in Node
  BY <1>1, CountedQuiet DEF Quiet
<1>3. Untouched(n, c)
  BY <1>1 DEF Counted, Node, Untouched, SameLog
<1>4. HandleVoteResp(n, m) \in
        {n, c, Campaign(c, FALSE, FALSE), BecomeLeader(c), BecomeFollower(c, c.term, None)}
  BY Zenon DEF HandleVoteResp, HandlePreVoteResp, HandleRealVoteResp
<1> HIDE DEF c
<1>5. Tracks(d, c) /\ c.term \in Nat /\ None \in OptServer
  BY <1>2, <1>3, TracksUntouched, NodeFields DEF OptServer
<1>6. /\ Tracks(d, Campaign(c, FALSE, FALSE)) /\ Tracks(d, BecomeLeader(c))
      /\ Tracks(d, BecomeFollower(c, c.term, None))
  BY <1>5, CampaignTracks, BecomeLeaderTracks, BecomeFollowerTracks
<1> QED
  BY <1>4, <1>5, <1>6

-----------------------------------------------------------------------------
(* AppendEntries at the receiver *)

LEMMA AppReplyTracks ==
  ASSUME NEW d, NEW n, Tracks(d, n), NEW m \in Message, NEW success \in BOOLEAN,
         NEW match \in Nat, NEW ci \in Nat, NEW ct \in Nat
  PROVE  Tracks(d, AppReply(n, m, success, match, ci, ct))
<1> DEFINE r == [type |-> "AppResp", from |-> n.id, to |-> m.from, term |-> n.term,
                 success |-> success, matchIndex |-> match,
                 conflictIndex |-> ci, conflictTerm |-> ct]
<1>1. r \in Message /\ Linked(r)
  BY NodeFields, MessageEnds DEF AppResp, Message, Linked, Tracks
<1>2. AppReply(n, m, success, match, ci, ct) = Send(n, {r})
  BY Zenon DEF AppReply
<1> HIDE DEF r
<1> QED
  BY <1>1, <1>2, SendTracks

LEMMA AnsweredTracks ==
  ASSUME NEW d, NEW n, Tracks(d, n), NEW m \in Message, NEW match \in Nat
  PROVE  Tracks(d, AppReply(n, m, TRUE, match, 0, 0))
<1>1. TRUE \in BOOLEAN /\ 0 \in Nat
  OBVIOUS
<1> QED
  BY <1>1, AppReplyTracks

\* The first entry that differs comes right after an entry that the log has.
LEMMA FirstDiffers ==
  ASSUME NEW l \in Log, NEW prev \in Nat, HasTerm(l, prev),
         NEW ents \in Seq(Entry), WellLogged(prev, ents),
         NEW k \in 1 .. Len(ents),
         \A i \in 1 .. k - 1 : SameAt(l, ents[i].index, ents[i].term)
  PROVE  /\ ents[k].index = prev + k
         /\ l.snapIndex < ents[k].index /\ ents[k].index <= LastIndex(l) + 1
<1>1. /\ l.snapIndex \in Nat /\ LastIndex(l) \in Nat /\ Len(ents) \in Nat
      /\ l.snapIndex <= prev /\ prev <= LastIndex(l) /\ k \in Nat
  BY LogFields, IndexType, LenProperties DEF HasTerm
<1>2. ents[k].index = prev + k
  BY DEF WellLogged
<1>3. CASE k = 1
  BY <1>1, <1>2, <1>3
<1>4. CASE k # 1
  <2>1. k - 1 \in 1 .. k - 1 /\ k - 1 \in 1 .. Len(ents)
    BY <1>1, <1>4
  <2>2. ents[k - 1].index = prev + (k - 1)
    BY <2>1 DEF WellLogged
  <2>3. prev + (k - 1) <= LastIndex(l)
    BY <2>1, <2>2 DEF SameAt, HasTerm
  <2> QED
    BY <1>1, <1>2, <2>3
<1> QED
  BY <1>3, <1>4

LEMMA AcceptEntriesTracks ==
  ASSUME NEW d \in Durable, NEW n, Tracks(d, n), n.appendedFrom = 0,
         NEW prev \in Nat, HasTerm(n.log, prev),
         NEW ents \in Seq(Entry), WellLogged(prev, ents)
  PROVE  Tracks(d, AcceptEntries(n, ents))
<1> DEFINE differs  == {k \in 1 .. Len(ents) : ~SameAt(n.log, ents[k].index, ents[k].term)}
           k        == Min(differs)
           at       == ents[k].index
           new      == SubSeq(ents, k, Len(ents))
           conflict == HasTerm(n.log, at)
           base     == IF conflict THEN TruncateFrom(n.log, at) ELSE n.log
           confs    == IF conflict THEN TruncateConfigsFrom(n.confHistory, at)
                       ELSE n.confHistory
           l        == AppendLog(base, new)
           h        == confs \cup ConfigRecords(new)
           i        == MarkAppended(n, at)
           x        == \/ n.panic
                       \/ conflict /\ at <= n.commitIndex
                       \/ at # LastIndex(base) + 1
           q        == [n EXCEPT !.log = l, !.confHistory = h, !.appendedFrom = i,
                                 !.panic = x]
           j        == at - n.log.snapIndex
<1>0. n \in Node /\ n.log \in Log
  BY NodeFields DEF Tracks
<1>1. CASE differs = {}
  <2>1. AcceptEntries(n, ents) = n
    BY <1>1, Zenon DEF AcceptEntries
  <2> QED
    BY <2>1
<1>2. CASE differs # {}
  <2>1. k \in 1 .. Len(ents) /\ \A u \in 1 .. k - 1 : SameAt(n.log, ents[u].index, ents[u].term)
    <3>1. differs \in SUBSET Nat
      BY LenProperties
    <3>2. k \in differs /\ \A u \in differs : k <= u
      BY <1>2, <3>1, MinOfNat, Zenon
    <3>3. Len(ents) \in Nat /\ k \in 1 .. Len(ents)
      BY <3>2, LenProperties
    <3> HIDE DEF k
    <3>4. \A u \in 1 .. k - 1 : u \in 1 .. Len(ents) /\ ~(k <= u)
      BY <3>3
    <3> QED
      BY <3>2, <3>3, <3>4
  <2>2. AcceptEntries(n, ents) = q
    BY <1>2, Zenon DEF AcceptEntries
  <2>3. q \in Node
    <3>1. Quiet(n, AcceptEntries(n, ents))
      BY <1>0, AcceptEntriesQuiet
    <3>2. AcceptEntries(n, ents) \in Node
      BY <3>1, Zenon DEF Quiet
    <3> QED
      BY <2>2, <3>2, Zenon
  <2> HIDE DEF k
  <2>4. at = prev + k /\ n.log.snapIndex < at /\ at <= LastIndex(n.log) + 1
    BY <1>0, <2>1, FirstDiffers
  <2>5. /\ n.log.snapIndex \in Nat /\ n.log.entries \in Seq(Entry) /\ Len(n.log.entries) \in Nat
        /\ k \in Nat \ {0} /\ Len(ents) \in Nat /\ k <= Len(ents) /\ at \in Nat
    BY <1>0, <2>1, <2>4, LogFields, LenProperties
  <2>6. /\ new \in Seq(Entry) /\ new # <<>> /\ WellLogged(prev + k - 1, new)
    <3>1. Len(ents) \in Int /\ Len(ents) <= Len(ents) /\ prev \in Int
      BY <2>5
    <3>2. /\ new \in Seq(Entry) /\ Len(new) = IF k <= Len(ents) THEN Len(ents) - k + 1 ELSE 0
          /\ WellLogged(prev + k - 1, new)
      BY <2>5, <3>1, WellLoggedPart
    <3> HIDE DEF new
    <3>3. Len(new) # 0
      BY <2>5, <3>2
    <3> QED
      BY <3>2, <3>3, EmptySeq
  <2> HIDE DEF new, at
  <2>7. /\ j \in 1 .. Len(n.log.entries) + 1 /\ n.log.snapIndex + j = at
        /\ n.log.snapIndex + j - 1 = prev + k - 1
        /\ at - n.log.snapIndex - 1 = j - 1
    BY <2>4, <2>5 DEF LastIndex
  <2>8. ~conflict => j - 1 = Len(n.log.entries)
    <3> DEFINE z == LastIndex(n.log)
    <3>1. z = n.log.snapIndex + Len(n.log.entries) /\ n.log.snapIndex < at /\ at <= z + 1
      BY <2>4 DEF LastIndex
    <3>2. ~conflict => ~(at \in n.log.snapIndex .. z)
      BY DEF HasTerm
    <3>3. z \in Int /\ at \in Int /\ n.log.snapIndex \in Int /\ Len(n.log.entries) \in Int
      BY <2>5, <3>1
    <3> HIDE DEF z, conflict
    <3>4. ~conflict => at = z + 1
      BY <3>1, <3>2, <3>3
    <3> QED
      BY <3>1, <3>3, <3>4, SMTT(30)
  <2>9. /\ base.entries = SubSeq(n.log.entries, 1, j - 1)
        /\ base.snapIndex = n.log.snapIndex /\ base.snapTerm = n.log.snapTerm /\ base \in Log
    <3>1. CASE conflict
      <4>1. TruncateFrom(n.log, at) \in Log
        BY <1>0, <2>4, <2>5, TruncateFromType
      <4> QED
        BY <1>0, <2>7, <3>1, <4>1 DEF TruncateFrom, Log
    <3>2. CASE ~conflict
      <4>1. j - 1 = Len(n.log.entries)
        BY <2>8, <3>2
      <4>2. SubSeq(n.log.entries, 1, j - 1) = n.log.entries
        BY <2>5, <4>1, SubSeqFull
      <4> QED
        BY <1>0, <3>2, <4>2
    <3> QED
      BY <3>1, <3>2
  <2>10. SnapshotThreshold = 0 => confs = HistoryOf(SubSeq(n.log.entries, 1, j - 1))
    <3>1. SUFFICES ASSUME SnapshotThreshold = 0
                   PROVE  confs = HistoryOf(SubSeq(n.log.entries, 1, j - 1))
      OBVIOUS
    <3>2. /\ n.confHistory = HistoryOf(n.log.entries) /\ n.log.snapIndex = 0
          /\ WellLogged(0, n.log.entries)
      BY <3>1 DEF Tracks, Shape, NoSnapshot
    <3>3. CASE conflict
      <4>1. j - 1 \in Nat /\ j - 1 <= Len(n.log.entries) /\ at - 1 = j - 1
        BY <2>5, <2>7, <3>2
      <4>2. confs = UpToOrOldest(HistoryOf(n.log.entries), j - 1)
        BY <3>2, <3>3, <4>1 DEF TruncateConfigsFrom
      <4> HIDE DEF j
      <4> QED
        BY <2>5, <3>2, <4>1, <4>2, HistoryUpTo
    <3>4. CASE ~conflict
      <4>1. j - 1 = Len(n.log.entries)
        BY <2>8, <3>4
      <4>2. SubSeq(n.log.entries, 1, j - 1) = n.log.entries
        BY <2>5, <4>1, SubSeqFull
      <4> QED
        BY <3>2, <3>4, <4>2
    <3> QED
      BY <3>3, <3>4
  <2> HIDE DEF base, confs, conflict, j
  <2>11. /\ l.entries = SubSeq(n.log.entries, 1, j - 1) \o new
         /\ l.snapIndex = n.log.snapIndex /\ l.snapTerm = n.log.snapTerm
    BY <2>9 DEF AppendLog, Log
  <2>12. i = n.log.snapIndex + j
    BY <2>7 DEF MarkAppended
  <2>13. SnapshotThreshold = 0 =>
           h = HistoryOf(SubSeq(n.log.entries, 1, j - 1)) \cup ConfigRecords(new)
    BY <2>10
  <2> HIDE DEF l, h, i, x
  <2>14. /\ q.log = l /\ q.appendedFrom = i /\ q.confHistory = h /\ q.snapshot = n.snapshot
         /\ q.snapDirty = n.snapDirty /\ q.commitIndex = n.commitIndex
         /\ q.lastApplied = n.lastApplied /\ q.out = n.out
    BY <1>0 DEF Node
  <2> HIDE DEF q
  <2>15. Replaces(n, q, j, new)
    BY <2>11, <2>12, <2>13, <2>14 DEF Replaces
  <2>16. Tracks(d, q)
    BY <2>3, <2>6, <2>7, <2>15, ReplaceTracks
  <2> QED
    BY <2>2, <2>16
<1> QED
  BY <1>1, <1>2

LEMMA AdvanceCommitTracks ==
  ASSUME NEW d, NEW n, Tracks(d, n), NEW commit \in Nat, NEW lastNew \in Nat
  PROVE  Tracks(d, AdvanceCommit(n, commit, lastNew))
<1> DEFINE c == Min({commit, lastNew})
           b == ApplyCommitted([n EXCEPT !.commitIndex = c])
<1>1. c \in Nat /\ n.commitIndex \in Nat
  BY MinOfTwo, NodeFields DEF Tracks
<1>2. AdvanceCommit(n, commit, lastNew) = IF c > n.commitIndex THEN b ELSE n
  BY Zenon DEF AdvanceCommit
<1> HIDE DEF c
<1>3. c > n.commitIndex => Tracks(d, b)
  BY <1>1, CommitTracks
<1> QED
  BY <1>2, <1>3

LEMMA RejectAppTracks ==
  ASSUME NEW d, NEW n, Tracks(d, n), NEW m \in Message, NEW prev \in Nat
  PROVE  Tracks(d, RejectApp(n, m, prev))
<1>0. n \in Node
  BY DEF Tracks
<1>1. TermAt(n.log, prev) \in Nat
  BY <1>0, NodeFields, TermAtType
<1>2. FirstIndexOfTerm(n.log, prev, TermAt(n.log, prev)) \in Nat
  BY <1>0, NodeFields, FirstIndexOfTermType
<1>3. LastIndex(n.log) + 1 \in Nat
  BY <1>0, NodeFields, IndexType
<1> QED
  BY <1>1, <1>2, <1>3, AppReplyTracks DEF RejectApp

LEMMA HandleAppAsFollowerTracks ==
  ASSUME NEW d \in Durable, NEW n, Tracks(d, n), n.appendedFrom = 0,
         NEW m \in App, Linked(m)
  PROVE  Tracks(d, HandleAppAsFollower(n, m))
<1> DEFINE covered == m.prevLogIndex < n.log.snapIndex
           skip == IF covered THEN n.log.snapIndex - m.prevLogIndex ELSE 0
           ents == SubSeq(m.entries, skip + 1, Len(m.entries))
           prev == m.prevLogIndex + skip
           lastNew == prev + Len(ents)
           a == AcceptEntries(n, ents)
           c == AdvanceCommit(a, m.commit, lastNew)
<1>0. n \in Node
  BY DEF Tracks
<1>1. /\ m \in Message /\ m.prevLogIndex \in Nat /\ m.entries \in Seq(Entry)
      /\ m.commit \in Nat /\ WellLogged(m.prevLogIndex, m.entries)
  BY DEF App, Message, Linked
<1>2. n.log.snapIndex \in Nat
  BY <1>0, NodeFields, LogFields
<1>3. skip \in Nat /\ prev \in Nat /\ Len(m.entries) \in Nat
  BY <1>1, <1>2, LenProperties
<1>4. ents \in Seq(Entry) /\ WellLogged(prev, ents)
  <2> HIDE DEF skip
  <2>1. /\ skip + 1 \in Nat \ {0} /\ Len(m.entries) \in Int
        /\ Len(m.entries) <= Len(m.entries) /\ m.prevLogIndex \in Int
        /\ m.prevLogIndex + (skip + 1) - 1 = prev
    BY <1>1, <1>3
  <2> QED
    BY <1>1, <2>1, WellLoggedPart
<1>5. HandleAppAsFollower(n, m) =
        IF covered /\ Len(m.entries) <= skip
        THEN AppReply(n, m, TRUE, n.log.snapIndex, 0, 0)
        ELSE IF ~SameAt(n.log, prev, m.prevLogTerm) THEN RejectApp(n, m, prev)
        ELSE AppReply(c, m, TRUE, lastNew, 0, 0)
  BY Zenon DEF HandleAppAsFollower
<1> HIDE DEF skip, prev, covered, ents
<1>6. lastNew \in Nat
  BY <1>3, <1>4, LenProperties
<1>7. ASSUME SameAt(n.log, prev, m.prevLogTerm)
      PROVE  Tracks(d, AppReply(c, m, TRUE, lastNew, 0, 0))
  <2>1. HasTerm(n.log, prev)
    BY <1>7 DEF SameAt
  <2>2. Tracks(d, a)
    BY <1>3, <1>4, <2>1, AcceptEntriesTracks
  <2> HIDE DEF a, lastNew
  <2>3. Tracks(d, c)
    BY <1>1, <1>6, <2>2, AdvanceCommitTracks
  <2> HIDE DEF c
  <2> QED
    BY <1>1, <1>6, <2>3, AnsweredTracks
<1>8. Tracks(d, AppReply(n, m, TRUE, n.log.snapIndex, 0, 0))
  BY <1>1, <1>2, AnsweredTracks
<1>9. Tracks(d, RejectApp(n, m, prev))
  BY <1>1, <1>3, RejectAppTracks
<1> QED
  BY <1>5, <1>7, <1>8, <1>9

LEMMA FollowerOfTracks ==
  ASSUME NEW d, NEW n, Tracks(d, n), NEW m \in Message
  PROVE  /\ Tracks(d, FollowerOf(n, m))
         /\ FollowerOf(n, m).appendedFrom = n.appendedFrom
<1>0. n \in Node
  BY DEF Tracks
<1>1. m.from \in OptServer /\ m.term \in Nat
  BY MessageEnds DEF OptServer
<1> DEFINE q == [n EXCEPT !.leaderID = m.from]
<1>2. q \in Node
  BY <1>0, <1>1 DEF Node
<1>3. Untouched(n, q)
  BY <1>0 DEF Node, Untouched, SameLog
<1> HIDE DEF q
<1>4. Tracks(d, q) /\ q.appendedFrom = n.appendedFrom
  BY <1>2, <1>3, TracksUntouched DEF Untouched, SameLog
<1>5. /\ Tracks(d, BecomeFollower(n, m.term, m.from))
      /\ BecomeFollower(n, m.term, m.from).appendedFrom = n.appendedFrom
  BY <1>1, BecomeFollowerTracks
<1> QED
  BY <1>4, <1>5, Zenon DEF FollowerOf, q

LEMMA HandleAppTracks ==
  ASSUME NEW d \in Durable, NEW n, Tracks(d, n), n.appendedFrom = 0,
         NEW m \in App, Linked(m)
  PROVE  Tracks(d, HandleApp(n, m))
<1>1. m \in Message
  BY DEF Message
<1>2. Tracks(d, FollowerOf(n, m)) /\ FollowerOf(n, m).appendedFrom = 0
  BY <1>1, FollowerOfTracks
<1>3. Tracks(d, HandleAppAsFollower(FollowerOf(n, m), m))
  BY <1>2, HandleAppAsFollowerTracks
<1> QED
  BY <1>3, Zenon DEF HandleApp

-----------------------------------------------------------------------------
(* The leader *)

LEMMA PeersTrack ==
  ASSUME NEW d, NEW n, Tracks(d, n), NEW r \in [Server -> Progress]
  PROVE  Tracks(d, [n EXCEPT !.prs = r])
<1> DEFINE q == [n EXCEPT !.prs = r]
<1>1. n \in Node
  BY DEF Tracks
<1>2. q \in Node /\ Untouched(n, q)
  BY <1>1 DEF Node, Untouched, SameLog
<1> HIDE DEF q
<1>3. Tracks(d, q)
  BY <1>2, TracksUntouched
<1> QED
  BY <1>3 DEF q

LEMMA PlansTrack ==
  ASSUME NEW d, NEW n, Tracks(d, n), NEW s \in OptServer
  PROVE  Tracks(d, [n EXCEPT !.learner = s]) /\ Tracks(d, [n EXCEPT !.transferee = s])
<1> DEFINE q == [n EXCEPT !.learner = s]
           t == [n EXCEPT !.transferee = s]
<1>1. n \in Node
  BY DEF Tracks
<1>2. q \in Node /\ Untouched(n, q)
  BY <1>1 DEF Node, Untouched, SameLog
<1>3. t \in Node /\ Untouched(n, t)
  BY <1>1 DEF Node, Untouched, SameLog
<1> HIDE DEF q, t
<1>4. Tracks(d, q) /\ Tracks(d, t)
  BY <1>2, <1>3, TracksUntouched
<1> QED
  BY <1>4 DEF q, t

LEMMA AckTracks ==
  ASSUME NEW d, NEW n, Tracks(d, n), NEW from \in Server, NEW match \in Nat
  PROVE  Tracks(d, Ack(n, from, match))
<1> DEFINE q == Ack(n, from, match)
           mt == Max({match, n.prs[from].match})
           p == [next |-> Max({mt + 1, n.prs[from].next}), match |-> mt,
                 recentActive |-> TRUE, pendingSnap |-> FALSE]
<1>1. n \in Node
  BY DEF Tracks
<1>2. q \in Node
  BY <1>1, AckQuiet DEF Quiet
<1>3. q = [n EXCEPT !.prs[from] = p]
  BY Zenon DEF Ack
<1> HIDE DEF p, q
<1>4. Untouched(n, q)
  BY <1>1, <1>3 DEF Node, Untouched, SameLog
<1>5. Tracks(d, q)
  BY <1>2, <1>4, TracksUntouched
<1> QED
  BY <1>5 DEF q

LEMMA SendTimeoutNowTracks ==
  ASSUME NEW d, NEW n, Tracks(d, n), NEW to \in Server
  PROVE  Tracks(d, SendTimeoutNow(n, to))
<1> DEFINE r == [type |-> "TimeoutNow", from |-> n.id, to |-> to, term |-> n.term]
<1>1. r \in Message /\ Linked(r)
  BY NodeFields DEF TimeoutNow, Message, Linked, Tracks
<1>2. SendTimeoutNow(n, to) = Send(n, {r})
  BY Zenon DEF SendTimeoutNow
<1> HIDE DEF r
<1> QED
  BY <1>1, <1>2, SendTracks

LEMMA MaybePromoteLearnerTracks ==
  ASSUME NEW d \in Durable, NEW n, Tracks(d, n), NEW from \in Server
  PROVE  Tracks(d, MaybePromoteLearner(n, from))
<1> DEFINE b == [n EXCEPT !.learner = None]
           data == Config(n) \cup {from}
           a == AppendEntry(b, "Config", data)
<1>1. Tracks(d, b)
  BY PlansTrack DEF OptServer
<1>2. data \in SUBSET Server
  BY ReplicationTargetsType DEF Tracks
<1> HIDE DEF b, data
<1>3. Tracks(d, a)
  BY <1>1, <1>2, AppendEntryTracks
<1> HIDE DEF a
<1>4. Tracks(d, MaybeCommitThenBroadcast(a))
  BY <1>3, MaybeCommitThenBroadcastTracks
<1> QED
  BY <1>4, Zenon DEF MaybePromoteLearner, a, b, data

LEMMA AfterAckTracks ==
  ASSUME NEW d \in Durable, NEW n, Tracks(d, n), NEW from \in Server,
         NEW match \in Nat, NEW isApp \in BOOLEAN
  PROVE  Tracks(d, AfterAck(n, from, match, isApp))
<1> DEFINE k == Ack(n, from, match)
           a == MaybeCommit(k)
           b == IF isApp /\ a.transferee = from /\ CaughtUp(a, from)
                THEN SendTimeoutNow(a, from) ELSE a
           c == MaybePromoteLearner(b, from)
           o == SendAppends(c, {from})
<1>1. AfterAck(n, from, match, isApp) =
        IF a.state # "Leader" THEN a
        ELSE IF c.prs[from].next <= LastIndex(c.log) THEN o ELSE c
  BY Zenon DEF AfterAck
<1>2. Tracks(d, k)
  BY AckTracks
<1> HIDE DEF k
<1>3. Tracks(d, a)
  BY <1>2, MaybeCommitTracks
<1> HIDE DEF a
<1>4. Tracks(d, b)
  BY <1>3, SendTimeoutNowTracks
<1> HIDE DEF b
<1>5. Tracks(d, c)
  BY <1>4, MaybePromoteLearnerTracks
<1> HIDE DEF c
<1>6. Tracks(d, o)
  BY <1>5, SendAppendsTracks
<1> QED
  BY <1>1, <1>3, <1>5, <1>6

LEMMA HandleAppRespTracks ==
  ASSUME NEW d \in Durable, NEW n, Tracks(d, n), NEW m \in AppResp
  PROVE  Tracks(d, HandleAppResp(n, m))
<1> DEFINE k == NextAfterReject(n, m)
           r == [n.prs EXCEPT ![m.from].recentActive = TRUE, ![m.from].next = k]
           b == [n EXCEPT !.prs = r]
<1>0. n \in Node
  BY DEF Tracks
<1>1. m.from \in Server /\ m.matchIndex \in Nat /\ m.success \in BOOLEAN
  BY DEF AppResp
<1>2. Tracks(d, AfterAck(n, m.from, m.matchIndex, TRUE))
  BY <1>1, AfterAckTracks
<1>3. ASSUME ~IgnoresAck(n, m), ~m.success
      PROVE  Tracks(d, HandleAppResp(n, m))
  <2>1. k \in Nat \ {0} /\ n.prs[m.from] \in Progress /\ n.prs[m.from] # NoProgress
    BY <1>0, <1>1, <1>3, NodeFields, NextAfterRejectType DEF IgnoresAck
  <2> HIDE DEF k
  <2>2. r \in [Server -> Progress]
    <3> DEFINE p == [n.prs[m.from] EXCEPT !.recentActive = TRUE, !.next = k]
    <3>1. n.prs[m.from] \in [next : Nat \ {0}, match : Nat, recentActive : BOOLEAN,
                             pendingSnap : BOOLEAN]
      BY <2>1 DEF Progress
    <3>2. p \in Progress
      BY <2>1, <3>1 DEF Progress
    <3>3. r = [n.prs EXCEPT ![m.from] = p]
      BY <1>0, <1>1, NodeFields
    <3> HIDE DEF p, r
    <3> QED
      BY <1>0, <3>2, <3>3, NodeFields
  <2>3. HandleAppResp(n, m) =
          SendAppends([n EXCEPT !.prs[m.from].recentActive = TRUE,
                                !.prs[m.from].next = k], {m.from})
    BY <1>3, Zenon DEF HandleAppResp, k
  <2>4. [n EXCEPT !.prs[m.from].recentActive = TRUE, !.prs[m.from].next = k] = b
    BY <1>0, <1>1, NodeFields DEF Node
  <2> HIDE DEF r
  <2>5. Tracks(d, b)
    BY <2>2, PeersTrack
  <2> HIDE DEF b
  <2>6. Tracks(d, SendAppends(b, {m.from}))
    BY <1>1, <2>5, SendAppendsTracks
  <2> QED
    BY <2>3, <2>4, <2>6, Zenon
<1> QED
  BY <1>2, <1>3, Zenon DEF HandleAppResp

LEMMA HandleSnapRespTracks ==
  ASSUME NEW d \in Durable, NEW n, Tracks(d, n), NEW m \in SnapResp
  PROVE  Tracks(d, HandleSnapResp(n, m))
<1>1. m.from \in Server /\ m.matchIndex \in Nat
  BY DEF SnapResp
<1>2. Tracks(d, AfterAck(n, m.from, m.matchIndex, FALSE))
  BY <1>1, AfterAckTracks
<1> QED
  BY <1>2, Zenon DEF HandleSnapResp

LEMMA AddServerTracks ==
  ASSUME NEW d, NEW n, Tracks(d, n), NEW s \in Server
  PROVE  Tracks(d, AddServer(n, s))
<1> DEFINE p == NewProgress(LastIndex(n.log) + 1)
           r == [n.prs EXCEPT ![s] = p]
           a == [n EXCEPT !.learner = s]
           b == [a EXCEPT !.prs = r]
<1>0. n \in Node
  BY DEF Tracks
<1>1. p \in Progress /\ s \in OptServer
  BY <1>0, NodeFields, IndexType, NewProgressType DEF OptServer
<1> HIDE DEF p
<1>2. r \in [Server -> Progress]
  BY <1>0, <1>1, NodeFields
<1>3. [n EXCEPT !.learner = s, !.prs[s] = p] = b
  BY <1>0 DEF Node
<1> HIDE DEF r
<1>4. Tracks(d, a)
  BY <1>1, PlansTrack
<1> HIDE DEF a
<1>5. Tracks(d, b)
  BY <1>2, <1>4, PeersTrack
<1>6. AddServer(n, s) = n \/ AddServer(n, s) = SendAppends(b, {s})
  BY <1>3, Zenon DEF AddServer, p
<1> HIDE DEF b
<1> QED
  BY <1>5, <1>6, SendAppendsTracks

LEMMA RemoveServerTracks ==
  ASSUME NEW d \in Durable, NEW n, Tracks(d, n), NEW s \in Server
  PROVE  Tracks(d, RemoveServer(n, s))
<1> DEFINE data == Config(n) \ {s}
           a == AppendEntry(n, "Config", data)
           r == [a.prs EXCEPT ![s] = NoProgress]
           b == IF s = n.id THEN a ELSE [a EXCEPT !.prs[s] = NoProgress]
           q == MaybeCommitThenBroadcast(b)
<1>1. data \in SUBSET Server
  BY ReplicationTargetsType DEF Tracks
<1>2. RemoveServer(n, s) = n \/ RemoveServer(n, s) = q
  BY Zenon DEF RemoveServer
<1> HIDE DEF data
<1>3. Tracks(d, a) /\ a \in Node
  BY <1>1, AppendEntryTracks DEF Tracks
<1> HIDE DEF a
<1>4. r \in [Server -> Progress]
  BY <1>3, NodeFields DEF Progress
<1>5. [a EXCEPT !.prs[s] = NoProgress] = [a EXCEPT !.prs = r]
  BY <1>3, Zenon DEF Node
<1> HIDE DEF r
<1>6. Tracks(d, [a EXCEPT !.prs = r])
  BY <1>3, <1>4, PeersTrack
<1>7. Tracks(d, b)
  BY <1>3, <1>5, <1>6, Zenon
<1> HIDE DEF b
<1> QED
  BY <1>2, <1>7, MaybeCommitThenBroadcastTracks

LEMMA TransferLeadershipTracks ==
  ASSUME NEW d, NEW n, Tracks(d, n), NEW target \in Server
  PROVE  Tracks(d, TransferLeadership(n, target))
<1> DEFINE t == [n EXCEPT !.transferee = target]
<1>1. TransferLeadership(n, target)
        \in {n, SendTimeoutNow(t, target), SendAppends(t, {target})}
  BY Zenon DEF TransferLeadership
<1>2. Tracks(d, t)
  BY PlansTrack DEF OptServer
<1> HIDE DEF t
<1>3. Tracks(d, SendTimeoutNow(t, target)) /\ Tracks(d, SendAppends(t, {target}))
  BY <1>2, SendTimeoutNowTracks, SendAppendsTracks
<1> QED
  BY <1>1, <1>3

LEMMA TickLeaderTracks ==
  ASSUME NEW d, NEW n, Tracks(d, n), NEW transferDue \in BOOLEAN,
         NEW quorumDue \in BOOLEAN, NEW heartbeatDue \in BOOLEAN
  PROVE  Tracks(d, TickLeader(n, transferDue, quorumDue, heartbeatDue))
<1> DEFINE a == AfterTransferTick(n, transferDue)
           r == [s \in Server |->
                   IF s \in ReplicationTargets(a) /\ a.prs[s] # NoProgress
                   THEN NewPeriod(a.prs[s]) ELSE a.prs[s]]
           b == IF quorumDue THEN [a EXCEPT !.prs = r] ELSE a
           f == BecomeFollower(a, a.term, None)
<1>1. TickLeader(n, transferDue, quorumDue, heartbeatDue) \in {f, BroadcastAppend(b), b}
  BY Zenon DEF TickLeader
<1>2. Tracks(d, a)
  <2>1. None \in OptServer
    BY DEF OptServer
  <2>2. Tracks(d, [n EXCEPT !.transferee = None])
    BY <2>1, PlansTrack
  <2> QED
    BY <2>2, Zenon DEF AfterTransferTick
<1> HIDE DEF a
<1>3. a \in Node
  BY <1>2 DEF Tracks
<1>4. r \in [Server -> Progress]
  <2>1. \A s \in Server : a.prs[s] \in Progress
    BY <1>3, NodeFields
  <2>2. ASSUME NEW s \in Server, a.prs[s] # NoProgress
        PROVE  NewPeriod(a.prs[s]) \in Progress
    <3>1. a.prs[s] \in [next : Nat \ {0}, match : Nat, recentActive : BOOLEAN,
                        pendingSnap : BOOLEAN]
      BY <2>1, <2>2 DEF Progress
    <3> QED
      BY <3>1 DEF NewPeriod, Progress
  <2> QED
    BY <2>1, <2>2
<1> HIDE DEF r
<1>5. Tracks(d, [a EXCEPT !.prs = r])
  BY <1>2, <1>4, PeersTrack
<1>6. Tracks(d, b)
  BY <1>2, <1>5, Zenon
<1> HIDE DEF b
<1>7. Tracks(d, BroadcastAppend(b)) /\ Tracks(d, f)
  BY <1>2, <1>3, <1>6, BroadcastTracks, BecomeFollowerTracks, NodeFields DEF OptServer
<1> HIDE DEF f
<1> QED
  BY <1>1, <1>6, <1>7

LEMMA StaleReplyTracks ==
  ASSUME NEW d, NEW n, Tracks(d, n), NEW m \in Message
  PROVE  Tracks(d, StaleReply(n, m))
<1>1. CASE m.type \in {"App", "Snap"}
  <2>1. LastIndex(n.log) + 1 \in Nat /\ 0 \in Nat /\ FALSE \in BOOLEAN
    BY NodeFields, IndexType DEF Tracks
  <2>2. StaleReply(n, m) = AppReply(n, m, FALSE, 0, LastIndex(n.log) + 1, 0)
    BY <1>1 DEF StaleReply
  <2> QED
    BY <2>1, <2>2, AppReplyTracks
<1>2. CASE m.type = "Vote"
  <2>1. m.preVote \in BOOLEAN
    BY <1>2, MessageOfType DEF VoteReq
  <2>2. StaleReply(n, m) = Send(n, VoteReply(n, m, n.term, m.preVote, FALSE))
    BY <1>2 DEF StaleReply
  <2> QED
    BY <2>1, <2>2, RefusalTracks
<1>3. CASE m.type \notin {"App", "Snap", "Vote"}
  <2>1. StaleReply(n, m) = n
    BY <1>3 DEF StaleReply
  <2> QED
    BY <2>1
<1> QED
  BY <1>1, <1>2, <1>3

LEMMA AtMessageTermTracks ==
  ASSUME NEW d, NEW n, Tracks(d, n), NEW m \in Message
  PROVE  /\ Tracks(d, AtMessageTerm(n, m))
         /\ AtMessageTerm(n, m).appendedFrom = n.appendedFrom
<1> DEFINE leader == IF m.type \in {"App", "Snap"} THEN m.from ELSE None
<1>1. leader \in OptServer /\ m.term \in Nat
  BY MessageEnds DEF OptServer
<1> HIDE DEF leader
<1>2. AtMessageTerm(n, m) = n \/ AtMessageTerm(n, m) = BecomeFollower(n, m.term, leader)
  BY Zenon DEF AtMessageTerm, leader
<1> QED
  BY <1>1, <1>2, BecomeFollowerTracks

-----------------------------------------------------------------------------
(* Snapshots *)

LEMMA TracksReady ==
  ASSUME NEW d, NEW n, Tracks(d, n)
  PROVE  Ready(d, n)
BY DEF Tracks, Ready

\* q is n with its log compacted up to i, where its new snapshot ends.
Compacts(n, q, i) ==
  /\ q.log = Compact(n.log, i, q.snapshot.term) /\ q.snapshot.index = i
  /\ q.snapDirty = "keep" /\ q.appendedFrom = n.appendedFrom
  /\ q.commitIndex = n.commitIndex /\ q.lastApplied = n.lastApplied /\ q.out = n.out

LEMMA CompactsReady ==
  ASSUME SnapshotThreshold # 0,
         NEW d, NEW n, Tracks(d, n), n.appendedFrom = 0, NEW q \in Node,
         NEW i \in Nat, n.log.snapIndex < i, i <= n.commitIndex, Compacts(n, q, i)
  PROVE  Ready(d, q)
<1> DEFINE base == n.log.snapIndex
           e == n.log.entries
           rest == SubSeq(e, i - base + 1, Len(e))
<1>1. /\ n \in Node /\ n.log \in Log /\ base \in Nat /\ e \in Seq(Entry) /\ Len(e) \in Nat
      /\ WellLogged(base, e) /\ d.entries = e /\ n.lastApplied <= n.commitIndex
      /\ \A m \in n.out : Linked(m)
  <2>1. n \in Node /\ n.log \in Log
    BY NodeFields DEF Tracks
  <2> QED
    BY <2>1, LogFields, LenProperties DEF Tracks, Shape, Appending, FirstIndex
<1>2. q.log = [snapIndex |-> i, snapTerm |-> q.snapshot.term, entries |-> rest]
  BY <1>1 DEF Compact, Compacts
<1>3. WellLogged(i, rest)
  <2>1. i - base + 1 \in Nat \ {0} /\ Len(e) \in Int /\ Len(e) <= Len(e)
        /\ base + (i - base + 1) - 1 = i /\ base \in Int
    BY <1>1
  <2>2. WellLogged(base + (i - base + 1) - 1, rest)
    BY <1>1, <2>1, WellLoggedPart
  <2> QED
    BY <2>1, <2>2
<1>4. rest = After(d.entries, i)
  <2>1. base \in Int /\ i \in Int /\ i >= base
    BY <1>1
  <2> HIDE DEF base, e
  <2>2. After(e, i) = SubSeq(e, i - base + 1, Len(e))
    BY <1>1, <2>1, UpToAfter
  <2> QED
    BY <1>1, <2>2
<1> HIDE DEF rest
<1>5. Shape(q)
  BY <1>1, <1>2, <1>3 DEF Shape, Compacts
<1>6. Snapshotting(d, q)
  BY <1>2, <1>4 DEF Snapshotting, Compacts
<1> QED
  BY <1>5, <1>6 DEF Ready

LEMMA CreateSnapshotReady ==
  ASSUME SnapshotThreshold # 0,
         NEW d, NEW n, Tracks(d, n), n.appendedFrom = 0,
         NEW index \in Nat, index <= n.commitIndex, NEW data \in Seq(Entry)
  PROVE  Ready(d, CreateSnapshot(n, index, data))
<1> DEFINE t == TermAt(n.log, index)
           l == Compact(n.log, index, t)
           h == PruneConfHistory(n.confHistory, index)
           s == [index |-> index, term |-> t,
                 config |-> ConfigAt(n.confHistory, index), data |-> data]
           x == n.panic \/ index > n.lastApplied \/ ~HasTerm(n.log, index)
           q == [n EXCEPT !.log = l, !.snapshot = s, !.confHistory = h,
                          !.snapDirty = "keep", !.panic = x]
<1>0. n \in Node /\ n.log.snapIndex \in Nat
  BY NodeFields, LogFields DEF Tracks
<1>1. CreateSnapshot(n, index, data) = IF index <= n.log.snapIndex THEN n ELSE q
  BY Zenon DEF CreateSnapshot
<1>2. CASE index <= n.log.snapIndex
  BY <1>1, <1>2, TracksReady
<1>3. CASE ~(index <= n.log.snapIndex)
  <2>1. q \in Node
    <3>1. Quiet(n, CreateSnapshot(n, index, data))
      BY <1>0, CreateSnapshotQuiet
    <3>2. CreateSnapshot(n, index, data) \in Node
      BY <3>1, Zenon DEF Quiet
    <3> QED
      BY <1>1, <1>3, <3>2, Zenon
  <2>2. s.index = index /\ s.term = t
    OBVIOUS
  <2> HIDE DEF t, h, s, x
  <2>3. /\ q.log = l /\ q.snapshot = s /\ q.snapDirty = "keep"
        /\ q.appendedFrom = n.appendedFrom /\ q.commitIndex = n.commitIndex
        /\ q.lastApplied = n.lastApplied /\ q.out = n.out
    BY <1>0 DEF Node
  <2> HIDE DEF q
  <2>4. Compacts(n, q, index)
    BY <2>2, <2>3 DEF Compacts
  <2>5. n.log.snapIndex < index
    BY <1>0, <1>3
  <2>6. Ready(d, q)
    BY <2>1, <2>4, <2>5, CompactsReady
  <2> QED
    BY <1>1, <1>3, <2>6
<1> QED
  BY <1>2, <1>3

LEMMA SnapReplyReady ==
  ASSUME NEW d, NEW n, Ready(d, n), NEW m \in Message, NEW match \in Nat
  PROVE  Ready(d, SnapReply(n, m, match))
<1> DEFINE r == [type |-> "SnapResp", from |-> n.id, to |-> m.from, term |-> n.term,
                 matchIndex |-> match]
           q == Send(n, {r})
<1>0. n \in Node
  BY DEF Ready
<1>1. r \in Message /\ Linked(r)
  BY <1>0, NodeFields, MessageEnds DEF SnapResp, Message, Linked
<1>2. SnapReply(n, m, match) = q
  BY Zenon DEF SnapReply
<1> HIDE DEF r
<1>3. q \in Node
  BY <1>0, <1>1 DEF Send, Node
<1>4. /\ SameLog(n, q) /\ q.commitIndex = n.commitIndex /\ q.lastApplied = n.lastApplied
      /\ q.out = n.out \cup {r}
  BY <1>0 DEF Send, Node, SameLog
<1> HIDE DEF q
<1>5. Shape(q)
  BY <1>1, <1>4 DEF Ready, Shape, SameLog
<1>6. Appending(d, q) \/ Snapshotting(d, q)
  BY <1>4 DEF Ready, Appending, Snapshotting, SameLog
<1> QED
  BY <1>2, <1>3, <1>5, <1>6 DEF Ready

LEMMA InstallKeepingSuffixReady ==
  ASSUME SnapshotThreshold # 0,
         NEW d, NEW n, Tracks(d, n), n.appendedFrom = 0,
         NEW s \in Snapshot, n.commitIndex < s.index
  PROVE  Ready(d, InstallKeepingSuffix(n, s))
<1> DEFINE b == [n EXCEPT !.commitIndex = s.index]
           a == ApplyCommitted(b)
           l == Compact(a.log, s.index, s.term)
           h == PruneConfHistory(a.confHistory, s.index)
           q == [a EXCEPT !.log = l, !.snapshot = s, !.confHistory = h,
                          !.snapDirty = "keep"]
           ap == b.applied \o Slice(b.log, b.lastApplied + 1, b.commitIndex + 1, 0)
<1>0. /\ n \in Node /\ n.commitIndex \in Nat /\ n.log.snapIndex \in Nat
      /\ s.index \in Nat /\ s.term \in Nat /\ n.log.snapIndex <= n.commitIndex
  BY NodeFields, LogFields, SnapshotFields DEF Tracks, Shape
<1>1. InstallKeepingSuffix(n, s) = q
  BY Zenon DEF InstallKeepingSuffix
<1>2. Tracks(d, a)
  BY <1>0, CommitTracks
<1>3. a.appendedFrom = 0 /\ a.commitIndex = s.index /\ a.log = n.log
  <2>1. /\ b.appendedFrom = 0 /\ b.commitIndex = s.index /\ b.log = n.log /\ b \in Node
    BY <1>0 DEF Node
  <2>2. a = IF b.commitIndex <= b.lastApplied THEN b
            ELSE [b EXCEPT !.applied = ap, !.lastApplied = b.commitIndex]
    BY Zenon DEF ApplyCommitted
  <2> HIDE DEF a, b, ap
  <2> QED
    BY <2>1, <2>2 DEF Node
<1>4. q \in Node
  <2>1. Quiet(n, InstallKeepingSuffix(n, s))
    BY <1>0, InstallKeepingSuffixQuiet
  <2>2. InstallKeepingSuffix(n, s) \in Node
    BY <2>1, Zenon DEF Quiet
  <2> QED
    BY <1>1, <2>2, Zenon
<1>5. a \in Node
  BY <1>2 DEF Tracks
<1> HIDE DEF a, h
<1>6. /\ q.log = l /\ q.snapshot = s /\ q.snapDirty = "keep"
      /\ q.appendedFrom = a.appendedFrom /\ q.commitIndex = a.commitIndex
      /\ q.lastApplied = a.lastApplied /\ q.out = a.out
  BY <1>5 DEF Node
<1> HIDE DEF q
<1>7. Compacts(a, q, s.index)
  BY <1>6 DEF Compacts
<1>8. a.log.snapIndex < s.index /\ s.index <= a.commitIndex
  BY <1>0, <1>3
<1>9. Ready(d, q)
  BY <1>0, <1>2, <1>3, <1>4, <1>7, <1>8, CompactsReady
<1> QED
  BY <1>1, <1>9

LEMMA InstallReplacingReady ==
  ASSUME SnapshotThreshold # 0,
         NEW d, NEW n, Tracks(d, n), n.appendedFrom = 0, NEW s \in Snapshot
  PROVE  Ready(d, InstallReplacing(n, s))
<1> DEFINE l == ResetLog(s.index, s.term)
           h == InitConfHistory(s.index, s.config)
           i == s.index
           q == [n EXCEPT !.log = l, !.commitIndex = i, !.lastApplied = i, !.snapshot = s,
                          !.confHistory = h, !.snapDirty = "replace"]
<1>0. n \in Node /\ i \in Nat /\ \A m \in n.out : Linked(m)
  BY SnapshotFields DEF Tracks, Shape
<1>1. InstallReplacing(n, s) = q
  BY Zenon DEF InstallReplacing
<1>2. q \in Node
  <2>1. Quiet(n, InstallReplacing(n, s))
    BY <1>0, InstallReplacingQuiet
  <2>2. InstallReplacing(n, s) \in Node
    BY <2>1, Zenon DEF Quiet
  <2> QED
    BY <1>1, <2>2, Zenon
<1> HIDE DEF h
<1>3. /\ q.log = l /\ q.commitIndex = i /\ q.lastApplied = i /\ q.snapshot = s
      /\ q.snapDirty = "replace" /\ q.out = n.out /\ q.appendedFrom = n.appendedFrom
  BY <1>0 DEF Node
<1> HIDE DEF q
<1>4. l.snapIndex = i /\ l.snapTerm = s.term /\ l.entries = <<>>
  BY DEF ResetLog
<1>5. Shape(q)
  BY <1>0, <1>3, <1>4, WellLoggedEmpty DEF Shape
<1>6. Snapshotting(d, q)
  BY <1>3, <1>4 DEF Snapshotting
<1> QED
  BY <1>1, <1>2, <1>5, <1>6 DEF Ready

LEMMA HandleSnapReady ==
  ASSUME NEW d, NEW n, Tracks(d, n), n.appendedFrom = 0, NEW m \in Snap, Linked(m)
  PROVE  Ready(d, HandleSnap(n, m))
<1> DEFINE f == FollowerOf(n, m)
           s == m.snapshot
           k == InstallKeepingSuffix(f, s)
           r == InstallReplacing(f, s)
<1>1. m \in Message /\ s \in Snapshot /\ s.index \in Nat /\ SnapshotThreshold # 0
  BY SnapshotFields DEF Message, Snap, Linked
<1>2. Tracks(d, f) /\ f.appendedFrom = 0
  BY <1>1, FollowerOfTracks
<1>3. HandleSnap(n, m) = IF s.index <= f.commitIndex THEN SnapReply(f, m, f.commitIndex)
                         ELSE IF SameAt(f.log, s.index, s.term) THEN SnapReply(k, m, s.index)
                         ELSE SnapReply(r, m, s.index)
  BY Zenon DEF HandleSnap
<1> HIDE DEF f, s
<1>4. f.commitIndex \in Nat
  BY <1>2, NodeFields DEF Tracks
<1>5. Ready(d, SnapReply(f, m, f.commitIndex))
  BY <1>1, <1>2, <1>4, TracksReady, SnapReplyReady
<1>6. ~(s.index <= f.commitIndex) => Ready(d, k)
  BY <1>1, <1>2, <1>4, InstallKeepingSuffixReady
<1>7. Ready(d, r)
  BY <1>1, <1>2, InstallReplacingReady
<1> HIDE DEF k, r
<1>8. ~(s.index <= f.commitIndex) => Ready(d, SnapReply(k, m, s.index))
  BY <1>1, <1>6, SnapReplyReady
<1>9. Ready(d, SnapReply(r, m, s.index))
  BY <1>1, <1>7, SnapReplyReady
<1> QED
  BY <1>3, <1>5, <1>8, <1>9

-----------------------------------------------------------------------------
(* receive *)

LEMMA ReceiveReady ==
  ASSUME NEW d \in Durable, NEW n, Tracks(d, n), n.appendedFrom = 0,
         NEW m \in Message, Linked(m), NEW fresh \in BOOLEAN
  PROVE  Ready(d, Receive(n, m, fresh))
<1> DEFINE a == AtMessageTerm(n, m)
           q == Receive(n, m, fresh)
           S == Send(n, VoteReply(n, m, n.term, FALSE, FALSE))
<1>1. Tracks(d, a) /\ a.appendedFrom = 0
  BY AtMessageTermTracks
<1>2. Ready(d, StaleReply(n, m)) /\ Ready(d, S)
  BY StaleReplyTracks, RefusalTracks, TracksReady
<1> HIDE DEF a, S
<1>5. m.type = "Vote" => Ready(d, HandleVote(a, m, fresh))
  BY <1>1, MessageOfType, HandleVoteTracks, TracksReady
<1>6. m.type = "VoteResp" => Ready(d, HandleVoteResp(a, m))
  BY <1>1, MessageOfType, HandleVoteRespTracks, TracksReady
<1>7. m.type = "App" => Ready(d, HandleApp(a, m))
  BY <1>1, MessageOfType, HandleAppTracks, TracksReady
<1>8. m.type = "AppResp" => Ready(d, HandleAppResp(a, m))
  BY <1>1, MessageOfType, HandleAppRespTracks, TracksReady
<1>9. m.type = "Snap" => Ready(d, HandleSnap(a, m))
  BY <1>1, MessageOfType, HandleSnapReady
<1>10. m.type = "SnapResp" => Ready(d, HandleSnapResp(a, m))
  BY <1>1, MessageOfType, HandleSnapRespTracks, TracksReady
<1>11. m.type = "TimeoutNow" => Ready(d, HandleTimeoutNow(a, m))
  <2>1. Tracks(d, Campaign(a, FALSE, TRUE))
    BY <1>1, CampaignTracks
  <2>2. Tracks(d, HandleTimeoutNow(a, m))
    BY <1>1, <2>1, Zenon DEF HandleTimeoutNow
  <2> QED
    BY <2>2, TracksReady
<1>12. CASE m.term < n.term
  BY <1>2, <1>12 DEF Receive
<1>13. CASE ~(m.term < n.term) /\ StickyVote(n, m, fresh)
  BY <1>2, <1>13 DEF Receive, S
<1>14. CASE ~(m.term < n.term) /\ ~StickyVote(n, m, fresh)
  <2>1. q = CASE m.type = "Vote"       -> HandleVote(a, m, fresh)
              [] m.type = "VoteResp"   -> HandleVoteResp(a, m)
              [] m.type = "App"        -> HandleApp(a, m)
              [] m.type = "AppResp"    -> HandleAppResp(a, m)
              [] m.type = "Snap"       -> HandleSnap(a, m)
              [] m.type = "SnapResp"   -> HandleSnapResp(a, m)
              [] m.type = "TimeoutNow" -> HandleTimeoutNow(a, m)
    BY <1>14, Zenon DEF Receive, a
  <2> HIDE DEF q
  <2>2. Ready(d, q)
    BY <2>1, <1>5, <1>6, <1>7, <1>8, <1>9, <1>10, <1>11, MessageOfType
  <2> QED
    BY <2>2 DEF q
<1> QED
  BY <1>12, <1>13, <1>14

-----------------------------------------------------------------------------
(* The inductive invariant *)

\* A store that a restart can begin from.
GoodStore(d) == StoredByIndex(d) /\ (SnapshotThreshold = 0 => d.snap = NoSnapshot)

\* Between two events: nothing of n is left to persist.
AtRest(d, n) == Tracks(d, n) /\ n.appendedFrom = 0

DurabilityInv ==
  /\ VoteInv
  /\ \A i \in up : AtRest(durable[i], node[i])
  /\ \A i \in Server : GoodStore(durable[i])
  /\ \A m \in net : Linked(m)

LEMMA RestartAtRest ==
  ASSUME NEW i \in Server, NEW d \in Durable, GoodStore(d)
  PROVE  AtRest(d, RestartNode(i, d))
<1> DEFINE cfg == IF d.snap = NoSnapshot THEN InitialVoters ELSE d.snap.config
           q == RestartNode(i, d)
<1>1. q \in Node /\ q.out = {}
  BY RestartNodeType
<1>2. d.entries \in Seq(Entry) /\ d.snap \in Snapshot /\ d.snap.index \in Nat
  BY SnapshotFields DEF Durable
<1>3. /\ q.log = AppendLog(ResetLog(d.snap.index, d.snap.term), d.entries)
      /\ q.confHistory = InitConfHistory(d.snap.index, cfg) \cup ConfigRecords(d.entries)
      /\ q.snapshot = d.snap /\ q.commitIndex = d.snap.index
      /\ q.lastApplied = d.snap.index /\ q.appendedFrom = 0 /\ q.snapDirty = "none"
  BY DEF RestartNode
<1> HIDE DEF q
<1>4. /\ q.log.entries = <<>> \o d.entries /\ q.log.snapIndex = d.snap.index
      /\ q.log.snapTerm = d.snap.term
  BY <1>3 DEF AppendLog, ResetLog
<1>5. q.log.entries = d.entries
  BY <1>2, <1>4, ConcatEmptySeq
<1>6. SnapshotThreshold = 0 => q.confHistory = HistoryOf(d.entries)
  BY <1>3 DEF GoodStore, HistoryOf, NoSnapshot
<1>7. Shape(q)
  BY <1>1, <1>2, <1>3, <1>4, <1>5, <1>6 DEF Shape, GoodStore, StoredByIndex
<1>8. Appending(d, q)
  BY <1>3, <1>5 DEF Appending
<1> QED
  BY <1>1, <1>3, <1>7, <1>8 DEF AtRest, Tracks, q

LEMMA SavedAtRest ==
  ASSUME NEW n \in Node, Shape(n), NEW e, Saved(e, n), NEW d
  PROVE  AtRest(e, Synced(n, d)) /\ GoodStore(e)
<1> DEFINE m == Settled(n)
           x == m.panic \/ Discontinuous(d, PersistOf(n))
           q == [m EXCEPT !.panic = x]
<1>1. q \in Node
  <2>1. Synced(n, d) \in Node
    BY SyncedType
  <2> QED
    BY <2>1, Zenon DEF Synced
<1>2. /\ m.log = n.log /\ m.confHistory = n.confHistory /\ m.snapshot = n.snapshot
      /\ m.commitIndex = n.commitIndex /\ m.lastApplied = n.lastApplied
      /\ m.out = {} /\ m.appendedFrom = 0 /\ m.snapDirty = "none" /\ m \in Node
  BY EmptySeq DEF Settled, Node
<1>3. Synced(n, d) = q
  BY Zenon DEF Synced
<1> HIDE DEF m, x
<1>4. /\ q.log = n.log /\ q.confHistory = n.confHistory /\ q.snapshot = n.snapshot
      /\ q.commitIndex = n.commitIndex /\ q.lastApplied = n.lastApplied
      /\ q.out = {} /\ q.appendedFrom = 0 /\ q.snapDirty = "none"
  BY <1>2 DEF Node
<1> HIDE DEF q
<1>5. Shape(q) /\ Appending(e, q)
  BY <1>4 DEF Shape, Appending, Saved
<1>6. GoodStore(e)
  BY DEF Shape, Saved, GoodStore, StoredByIndex
<1> QED
  BY <1>1, <1>3, <1>4, <1>5, <1>6 DEF AtRest, Tracks

LEMMA InitDurabilityInv == Init => DurabilityInv
<1> SUFFICES ASSUME Init PROVE DurabilityInv
  OBVIOUS
<1>1. VoteInv
  BY InitVoteInv
<1>2. GoodStore(NewDurable)
  BY WellLoggedEmpty DEF GoodStore, StoredByIndex, NewDurable
<1>3. \A i \in Server : AtRest(NewDurable, RestartNode(i, NewDurable))
  BY <1>2, NewDurableType, RestartAtRest
<1> QED
  BY <1>1, <1>2, <1>3 DEF Init, DurabilityInv

-----------------------------------------------------------------------------
(* HandleOutput *)

LEMMA CrashDurability ==
  ASSUME DurabilityInv, NEW i \in Server, CrashServer(i),
         UNCHANGED <<durable, net, leaders, committed>>
  PROVE  DurabilityInv'
<1>1. VoteInv'
  BY CrashStep DEF DurabilityInv
<1>2. \A j \in up' : j \in up /\ node'[j] = node[j]
  BY CrashKeeps DEF DurabilityInv
<1> QED
  BY <1>1, <1>2 DEF DurabilityInv

\* What a completed step leaves of server i: the store d and, unless it has
\* crashed since, the node q.
LEMMA ReleasedDurability ==
  ASSUME DurabilityInv, VoteInv', NEW i \in up, NEW n \in Node, Shape(n),
         NEW d, GoodStore(d), Release(i, n, d),
         \A j \in up' : j \in up /\ (j # i => node'[j] = node[j]),
         i \in up' => AtRest(d, node'[i])
  PROVE  DurabilityInv'
<1>1. i \in Server /\ durable \in [Server -> Durable] /\ up \in SUBSET Server
  BY DEF DurabilityInv, VoteInv, TypeOK
<1>2. net' = net \cup Carried(n.out) /\ durable' = [durable EXCEPT ![i] = d]
  BY DEF Release
<1>3. \A m \in net' : Linked(m)
  BY <1>2 DEF DurabilityInv, Shape, Carried
<1>4. durable'[i] = d /\ \A j \in Server : j # i => durable'[j] = durable[j]
  BY <1>1, <1>2
<1>5. \A j \in Server : GoodStore(durable'[j])
  BY <1>4 DEF DurabilityInv
<1>6. \A j \in up' : AtRest(durable'[j], node'[j])
  <2>1. SUFFICES ASSUME NEW j \in up' PROVE AtRest(durable'[j], node'[j])
    OBVIOUS
  <2>2. CASE j = i
    BY <1>4, <2>2
  <2>3. CASE j # i
    <3>1. j \in up /\ j \in Server /\ node'[j] = node[j] /\ durable'[j] = durable[j]
      BY <1>1, <1>4, <2>3
    <3>2. AtRest(durable[j], node[j])
      BY <3>1 DEF DurabilityInv
    <3> QED
      BY <3>1, <3>2
  <2> QED
    BY <2>2, <2>3
<1> QED
  BY <1>3, <1>5, <1>6 DEF DurabilityInv

LEMMA HandleOutputDurability ==
  ASSUME DurabilityInv, NEW i \in up, NEW n, Follows(node[i], n),
         Ready(durable[i], n), HandleOutput(i, n)
  PROVE  DurabilityInv'
<1> DEFINE p == PersistOf(n)
           d == ApplyPersist(durable[i], p)
           m == Synced(n, durable[i])
           a == AppAfter(app[i], n)
           s == CreateSnapshot(m, m.lastApplied, a)
           e == ApplyPersist(d, PersistOf(s))
           q == Synced(s, d)
<1>1. /\ n \in Node /\ i \in Server /\ durable[i] \in Durable /\ app[i] \in Seq(Entry)
      /\ StoredByIndex(durable[i]) /\ Shape(n) /\ node \in [Server -> Node]
  BY DEF Follows, DurabilityInv, VoteInv, TypeOK, GoodStore, Ready
<1>2. VoteInv'
  BY HandleOutputStep DEF DurabilityInv
<1>3. Saved(d, n) /\ d \in Durable
  BY <1>1, PersistSaves, PersistOfType, ApplyPersistType DEF Ready
<1>4. AtRest(d, m) /\ GoodStore(d) /\ m \in Node /\ a \in Seq(Entry)
  <2> HIDE DEF d
  <2>1. AtRest(d, m) /\ GoodStore(d)
    BY <1>1, <1>3, SavedAtRest
  <2> QED
    BY <1>1, <2>1, AppAfterType DEF AtRest, Tracks
<1> HIDE DEF d, a, m
<1>5. CASE FsyncCrash(i, n)
  BY <1>1, <1>5, CrashDurability DEF FsyncCrash
<1>6. CASE /\ Release(i, n, d) /\ node' = [node EXCEPT ![i] = m]
           /\ UNCHANGED <<up, crashes>>
  <2>1. \A j \in up' : j \in up /\ (j # i => node'[j] = node[j])
    BY <1>1, <1>6 DEF DurabilityInv, VoteInv, TypeOK
  <2>2. AtRest(d, node'[i])
    BY <1>1, <1>4, <1>6
  <2> QED
    BY <1>1, <1>2, <1>4, <1>6, <2>1, <2>2, ReleasedDurability
<1>7. CASE /\ SnapshotDue(n)
           /\ Release(i, n, e) /\ node' = [node EXCEPT ![i] = q]
           /\ UNCHANGED <<up, crashes>>
  <2>1. SnapshotThreshold # 0
    BY <1>7 DEF SnapshotDue
  <2>2. /\ Tracks(d, m) /\ m.appendedFrom = 0 /\ m.lastApplied \in Nat
        /\ m.lastApplied <= m.commitIndex
    BY <1>4, NodeFields DEF AtRest, Tracks, Shape
  <2>3. Ready(d, s)
    BY <1>4, <2>1, <2>2, CreateSnapshotReady
  <2> HIDE DEF s
  <2>4. s \in Node /\ Shape(s) /\ StoredByIndex(d)
    BY <1>4, <2>3 DEF Ready, GoodStore
  <2>5. Saved(e, s)
    BY <1>3, <2>3, <2>4, PersistSaves DEF Ready
  <2> HIDE DEF e
  <2>6. AtRest(e, q) /\ GoodStore(e)
    BY <2>4, <2>5, SavedAtRest
  <2> HIDE DEF q
  <2>7. \A j \in up' : j \in up /\ (j # i => node'[j] = node[j])
    BY <1>1, <1>7 DEF DurabilityInv, VoteInv, TypeOK
  <2>8. AtRest(e, node'[i])
    BY <1>1, <1>7, <2>6
  <2> QED
    BY <1>1, <1>2, <1>7, <2>6, <2>7, <2>8, ReleasedDurability
<1>8. CASE Release(i, n, d) /\ CrashServer(i) /\ UNCHANGED leaders
  <2>1. \A j \in up' : j \in up /\ j # i /\ node'[j] = node[j]
    BY <1>1, <1>8, CrashKeeps DEF DurabilityInv
  <2> QED
    BY <1>1, <1>2, <1>4, <1>8, <2>1, ReleasedDurability
<1> QED
  BY <1>5, <1>6, <1>7, <1>8, Zenon DEF HandleOutput, Complete, d, m, a

-----------------------------------------------------------------------------
(* The events *)

LEMMA RestartDurability ==
  ASSUME DurabilityInv, NEW i \in Server, Restart(i)
  PROVE  DurabilityInv'
<1>1. VoteInv'
  BY RestartStep DEF DurabilityInv
<1> DEFINE q == RestartNode(i, durable[i])
<1>2. AtRest(durable[i], q)
  BY RestartAtRest DEF DurabilityInv, VoteInv, TypeOK
<1>3. /\ node' = [node EXCEPT ![i] = q] /\ up' = up \cup {i}
      /\ UNCHANGED <<durable, net>>
  BY DEF Restart
<1> HIDE DEF q
<1>4. \A j \in up' : AtRest(durable'[j], node'[j])
  BY <1>2, <1>3 DEF DurabilityInv, VoteInv, TypeOK
<1> QED
  BY <1>1, <1>3, <1>4 DEF DurabilityInv

LEMMA UpTracks ==
  ASSUME DurabilityInv, NEW i \in up
  PROVE  /\ Tracks(durable[i], node[i]) /\ node[i].appendedFrom = 0
         /\ durable[i] \in Durable /\ node[i] \in Node
BY DEF DurabilityInv, VoteInv, TypeOK, AtRest

LEMMA TracksOutput ==
  ASSUME DurabilityInv, NEW i \in up, NEW n, Follows(node[i], n),
         Tracks(durable[i], n), HandleOutput(i, n)
  PROVE  DurabilityInv'
BY TracksReady, HandleOutputDurability

LEMMA DeliverDurability ==
  ASSUME DurabilityInv, NEW m \in net, Deliver(m)
  PROVE  DurabilityInv'
<1>1. m \in Message /\ m.to \in up /\ Linked(m)
  BY DEF DurabilityInv, VoteInv, TypeOK, Deliver
<1>2. PICK fresh \in BOOLEAN :
        HandleOutput(m.to, Receive(node[m.to], m, fresh))
  BY DEF Deliver
<1> DEFINE n == Receive(node[m.to], m, fresh)
<1>3. Follows(node[m.to], n) /\ Ready(durable[m.to], n)
  BY <1>1, UpTracks, ReceiveFollows, ReceiveReady
<1>4. HandleOutput(m.to, n)
  BY <1>2
<1> HIDE DEF n
<1> QED
  BY <1>1, <1>3, <1>4, HandleOutputDurability

LEMMA NextDurability ==
  ASSUME DurabilityInv, Next
  PROVE  DurabilityInv'
<1>1. ASSUME NEW i \in Server, ElectionTimeout(i) PROVE DurabilityInv'
  <2> DEFINE n == Campaign(node[i], PreVote, FALSE)
  <2>1. i \in up /\ HandleOutput(i, n)
    BY <1>1 DEF ElectionTimeout
  <2>2. PreVote \in BOOLEAN /\ FALSE \in BOOLEAN
    BY ParamsAssumption
  <2>3. Follows(node[i], n) /\ Tracks(durable[i], n)
    BY <2>1, <2>2, UpTracks, CampaignFollows, CampaignTracks
  <2> HIDE DEF n
  <2> QED
    BY <2>1, <2>3, TracksOutput
<1>2. ASSUME NEW i \in Server, NEW due \in SUBSET LeaderTicks, LeaderTick(i, due)
      PROVE  DurabilityInv'
  <2> DEFINE t == "transfer" \in due
             u == "quorum" \in due
             h == "heartbeat" \in due
             n == TickLeader(node[i], t, u, h)
  <2>0. t \in BOOLEAN /\ u \in BOOLEAN /\ h \in BOOLEAN
    OBVIOUS
  <2>1. i \in up /\ HandleOutput(i, n)
    BY <1>2 DEF LeaderTick
  <2> HIDE DEF t, u, h
  <2>2. Quiet(node[i], n) /\ Tracks(durable[i], n)
    BY <2>0, <2>1, UpTracks, TickLeaderQuiet, TickLeaderTracks
  <2>3. Follows(node[i], n)
    BY <2>1, <2>2, UpTracks, QuietFollows
  <2> HIDE DEF n
  <2> QED
    BY <2>1, <2>2, <2>3, TracksOutput
<1>3. ASSUME NEW i \in Server, NEW v \in Value, ClientPropose(i, v) PROVE DurabilityInv'
  <2> DEFINE n == Propose(node[i], v)
  <2>1. i \in up /\ HandleOutput(i, n)
    BY <1>3 DEF ClientPropose
  <2>2. Follows(node[i], n) /\ Tracks(durable[i], n)
    BY <2>1, UpTracks, ProposeQuiet, QuietFollows, ProposeTracks
  <2> HIDE DEF n
  <2> QED
    BY <2>1, <2>2, TracksOutput
<1>4. ASSUME NEW i \in Server, NEW t \in TransferTargets, Transfer(i, t) PROVE DurabilityInv'
  <2> DEFINE n == TransferLeadership(node[i], t)
  <2>1. i \in up /\ HandleOutput(i, n) /\ t \in Server
    BY <1>4, ClusterAssumption DEF Transfer
  <2>2. Follows(node[i], n) /\ Tracks(durable[i], n)
    BY <2>1, UpTracks, TransferLeadershipQuiet, QuietFollows, TransferLeadershipTracks
  <2> HIDE DEF n
  <2> QED
    BY <2>1, <2>2, TracksOutput
<1>5. ASSUME NEW c \in ConfChanges, ProposeConfChange(c) PROVE DurabilityInv'
  <2> DEFINE n == IF c.type = "AddServer" THEN AddServer(node[c.at], c.id)
                  ELSE RemoveServer(node[c.at], c.id)
  <2>1. c.at \in up /\ HandleOutput(c.at, n)
    BY <1>5, Zenon DEF ProposeConfChange
  <2>2. c.id \in Server
    BY ClusterAssumption DEF ConfChange
  <2>3. Follows(node[c.at], n)
    BY <2>1, <2>2, UpTracks, AddServerQuiet, RemoveServerQuiet, QuietFollows
  <2>4. Tracks(durable[c.at], n)
    BY <2>1, <2>2, UpTracks, AddServerTracks, RemoveServerTracks
  <2> HIDE DEF n
  <2> QED
    BY <2>1, <2>3, <2>4, TracksOutput
<1>6. ASSUME NEW i \in Server, Crash(i) PROVE DurabilityInv'
  BY <1>6, CrashDurability DEF Crash
<1>7. ASSUME NEW i \in Server, Restart(i) PROVE DurabilityInv'
  BY <1>7, RestartDurability
<1>8. ASSUME NEW m \in net, Deliver(m) PROVE DurabilityInv'
  BY <1>8, DeliverDurability
<1>9. \/ \E i \in Server : ElectionTimeout(i) \/ Crash(i) \/ Restart(i)
      \/ \E i \in Server, due \in SUBSET LeaderTicks : LeaderTick(i, due)
      \/ \E i \in Server, v \in Value : ClientPropose(i, v)
      \/ \E i \in Server, t \in TransferTargets : Transfer(i, t)
      \/ \E c \in ConfChanges : ProposeConfChange(c)
      \/ \E m \in net : Deliver(m)
  BY DEF Next, ReceiveVote, ReceiveVoteResp, ReceiveApp, ReceiveAppResp, ReceiveSnap,
         ReceiveSnapResp, ReceiveTimeoutNow
<1> QED
  BY <1>1, <1>2, <1>3, <1>4, <1>5, <1>6, <1>7, <1>8, <1>9

LEMMA StutterDurability ==
  ASSUME DurabilityInv, UNCHANGED vars
  PROVE  DurabilityInv'
<1>1. VoteInv'
  BY StutterStep DEF DurabilityInv
<1>2. UNCHANGED <<node, up, durable, net>>
  BY DEF vars
<1> QED
  BY <1>1, <1>2 DEF DurabilityInv

-----------------------------------------------------------------------------
(* The theorems *)

\* The stores and the live nodes agree between any two events, in every
\* behaviour, with any crashes, membership changes and snapshots.
THEOREM DurabilityInvariant == Spec => []DurabilityInv
<1>1. DurabilityInv /\ [Next]_vars => DurabilityInv'
  BY NextDurability, StutterDurability
<1> QED
  BY InitDurabilityInv, <1>1, PTL DEF Spec

-----------------------------------------------------------------------------
(* What a restart reads back *)

\* The configuration of the newest record is the one of the last
\* configuration entry.
LEMMA NewestIsLast ==
  ASSUME NEW s \in Seq(Entry), WellLogged(0, s)
  PROVE  CfgOf(HistoryOf(s)) = ConfigOf(s)
<1> DEFINE at == {k \in 1 .. Len(s) : s[k].type = "Config"}
           R(e) == [index |-> e.index, cfg |-> e.data]
           b == [index |-> 0, cfg |-> InitialVoters]
           h == HistoryOf(s)
<1>1. Len(s) \in Nat
  BY LenProperties
<1>2. \A r : r \in ConfigRecords(s) <=> \E k \in at : r = R(s[k])
  BY DEF ConfigRecords
<1>3. h = {b} \cup ConfigRecords(s)
  BY DEF HistoryOf, InitConfHistory
<1>4. \A k \in at : s[k].index = k /\ k \in Nat /\ 0 < k
  BY <1>1 DEF WellLogged
<1>5. CASE at = {}
  <2>1. h = {b}
    BY <1>2, <1>3, <1>5
  <2>2. Newest({b}) = {b}
    BY DEF Newest
  <2>3. CfgOf(h) = UNION {r.cfg : r \in {b}}
    BY <2>1, <2>2, Zenon DEF CfgOf
  <2>4. CfgOf(h) = InitialVoters
    BY <2>3
  <2> QED
    BY <1>5, <2>4 DEF ConfigOf
<1>6. CASE at # {}
  <2> DEFINE m == Max(at)
             r == R(s[m])
  <2>1. m \in at /\ \A k \in at : m >= k
    <3>1. at \in SUBSET (0 .. Len(s))
      BY <1>1
    <3> HIDE DEF at
    <3> QED
      BY <1>1, <1>6, <3>1, MaxOfNat, Zenon
  <2> HIDE DEF m, at
  <2>2. r \in h /\ r.index = m /\ m \in Nat /\ 0 < m
    BY <1>2, <1>3, <1>4, <2>1
  <2>3. ASSUME NEW q \in h
        PROVE  q.index \in Nat /\ q.index <= m /\ (q.index = m => q = r)
    <3>1. CASE q = b
      BY <2>2, <3>1
    <3>2. CASE q \in ConfigRecords(s)
      <4>1. PICK k \in at : q = R(s[k])
        BY <1>2, <3>2
      <4>2. q.index = k /\ k \in Nat /\ m >= k
        BY <1>4, <2>1, <4>1
      <4> QED
        BY <2>2, <4>1, <4>2
    <3> QED
      BY <1>3, <3>1, <3>2
  <2> HIDE DEF r
  <2>4. Newest(h) = {r}
    <3>1. r \in Newest(h)
      BY <2>2, <2>3 DEF Newest
    <3>2. \A q \in Newest(h) : q = r
      <4> SUFFICES ASSUME NEW q \in Newest(h) PROVE q = r
        OBVIOUS
      <4>1. q \in h /\ r.index <= q.index
        BY <2>2 DEF Newest
      <4> QED
        BY <2>2, <2>3, <4>1
    <3> QED
      BY <3>1, <3>2
  <2>5. CfgOf(h) = r.cfg
    BY <2>4 DEF CfgOf
  <2>6. r.cfg = s[m].data
    BY DEF r
  <2>7. ConfigOf(s) = s[m].data
    BY <1>6 DEF ConfigOf, m, at
  <2> QED
    BY <2>5, <2>6, <2>7
<1> QED
  BY <1>5, <1>6

\* i restarts with the term, the vote, the log and the snapshot it has.
GivesBack(i) ==
  LET r == RestartNode(i, durable[i])
  IN  /\ <<r.term, r.votedFor>> = <<node[i].term, node[i].votedFor>>
      /\ r.log = node[i].log /\ r.snapshot = node[i].snapshot

LEMMA AtRestGivesBack ==
  ASSUME DurabilityInv, NEW i \in up
  PROVE  GivesBack(i)
<1> DEFINE d == durable[i]
           n == node[i]
           r == RestartNode(i, d)
<1>1. /\ d \in Durable /\ n \in Node /\ HardStateOf(d, n)
      /\ AtRest(d, n) /\ GoodStore(d) /\ i \in Server
  BY DEF DurabilityInv, VoteInv, TypeOK, HardStateSaved
<1>2. AtRest(d, r) /\ r \in Node /\ r.snapshot = d.snap
      /\ r.term = d.term /\ r.votedFor = d.votedFor
  BY <1>1, RestartAtRest, RestartNodeType DEF RestartNode
<1> HIDE DEF r, d, n
<1>3. ASSUME NEW q \in Node, AtRest(d, q)
      PROVE  /\ q.log.entries = d.entries /\ q.snapshot = d.snap
             /\ q.log.snapIndex = d.snap.index /\ q.log.snapTerm = d.snap.term
  <2>1. Tracks(d, q) /\ q.appendedFrom = 0
    BY <1>3 DEF AtRest
  <2>2. Shape(q) /\ Appending(d, q)
    BY <2>1 DEF Tracks
  <2>3. 0 \notin FirstIndex(q.log) .. LastIndex(q.log)
    <3>1. q.log \in Log
      BY NodeFields
    <3>2. q.log.snapIndex \in Nat /\ LastIndex(q.log) \in Int
      BY <3>1, LogFields DEF LastIndex
    <3> QED
      BY <3>2 DEF FirstIndex
  <2>4. d.entries = q.log.entries /\ d.snap = q.snapshot
    BY <2>1, <2>2, <2>3 DEF Appending
  <2> QED
    BY <2>2, <2>4 DEF Shape
<1>4. r.log \in Log /\ n.log \in Log
  BY <1>1, <1>2, NodeFields
<1>5. r.log.entries = n.log.entries /\ r.log.snapIndex = n.log.snapIndex
      /\ r.log.snapTerm = n.log.snapTerm /\ r.snapshot = n.snapshot
  BY <1>1, <1>2, <1>3
<1>6. r.log = n.log
  BY <1>4, <1>5 DEF Log
<1>7. r.term = n.term /\ r.votedFor = n.votedFor
  BY <1>1, <1>2 DEF HardStateOf
<1> QED
  BY <1>5, <1>6, <1>7 DEF GivesBack, r, n, d

\* Without snapshots a restart reads the same history of configurations back.
LEMMA AtRestRebuilds ==
  ASSUME DurabilityInv, SnapshotThreshold = 0
  PROVE  RestartRebuilds
<1> SUFFICES ASSUME NEW i \in up
             PROVE  Config(RestartNode(i, durable[i])) = Config(node[i])
  BY AtRestGivesBack DEF RestartRebuilds, GivesBack
<1> DEFINE r == RestartNode(i, durable[i])
<1>1. AtRest(durable[i], node[i]) /\ AtRest(durable[i], r) /\ r.log = node[i].log
  BY AtRestGivesBack, RestartAtRest DEF DurabilityInv, VoteInv, TypeOK, GivesBack
<1> HIDE DEF r
<1>2. r.confHistory = HistoryOf(r.log.entries)
      /\ node[i].confHistory = HistoryOf(node[i].log.entries)
  BY <1>1 DEF AtRest, Tracks, Shape
<1>3. Config(r) = Config(node[i])
  BY <1>1, <1>2 DEF Config
<1> QED
  BY <1>3 DEF r

\* Without membership changes it reads the initial configuration back.
LEMMA FixedRebuilds ==
  ASSUME DurabilityInv, ElectionInv
  PROVE  RestartRebuilds
<1> SUFFICES ASSUME NEW i \in up
             PROVE  Config(RestartNode(i, durable[i])) = Config(node[i])
  BY AtRestGivesBack DEF RestartRebuilds, GivesBack
<1>1. /\ i \in Server /\ durable[i] \in Durable /\ StaticStore(durable[i])
      /\ Fit(node[i], net)
  BY DEF DurabilityInv, VoteInv, TypeOK, ElectionInv, AllStatic
<1>2. Fit(RestartNode(i, durable[i]), net)
  BY <1>1, RestartFit
<1>3. \A n : Fit(n, net) => Config(n) = InitialVoters
  BY StaticConfig DEF Fit, Static
<1> QED
  BY <1>1, <1>2, <1>3

LEMMA AtRestFollowsLog ==
  ASSUME DurabilityInv, SnapshotThreshold = 0
  PROVE  ConfigFollowsLog
<1> SUFFICES ASSUME NEW i \in up
             PROVE  /\ Config(node[i]) = ConfigOf(FullLog(node[i]))
                    /\ node[i].snapshot = NoSnapshot
  BY DEF ConfigFollowsLog
<1> DEFINE n == node[i]
<1>1. AtRest(durable[i], n) /\ n \in Node
  BY DEF DurabilityInv, VoteInv, TypeOK
<1>2. n.log.entries \in Seq(Entry) /\ n.log.snapIndex \in Nat
  BY <1>1, NodeFields, LogFields
<1> HIDE DEF n
<1>3. /\ n.confHistory = HistoryOf(n.log.entries) /\ n.snapshot = NoSnapshot
      /\ n.log.snapIndex = n.snapshot.index
      /\ WellLogged(n.log.snapIndex, n.log.entries)
  BY <1>1 DEF AtRest, Tracks, Shape
<1>4. n.log.snapIndex = 0 /\ n.snapshot.data = <<>>
  BY <1>3 DEF NoSnapshot
<1>5. FullLog(n) = n.log.entries
  BY <1>2, <1>4, ConcatEmptySeq DEF FullLog
<1>6. CfgOf(n.confHistory) = ConfigOf(n.log.entries)
  BY <1>2, <1>3, <1>4, NewestIsLast
<1> QED
  BY <1>3, <1>5, <1>6 DEF Config, n

\* A crash at any point between two events, and a restart, give a server back
\* its term, its vote, its log and its snapshot: whatever else happens, every
\* change of them was part of the Persist of its step (handleOutput).
THEOREM RestartGivesBack == Spec => [](\A i \in up : GivesBack(i))
<1>1. DurabilityInv => \A i \in up : GivesBack(i)
  BY AtRestGivesBack
<1> QED
  BY DurabilityInvariant, <1>1, PTL

\* RestartRebuilds, configuration included, when the servers take no snapshot
\* or no membership change is proposed.
THEOREM RestartRebuildsAll ==
  ASSUME SnapshotThreshold = 0 \/ ConfChanges = {}
  PROVE  Spec => []RestartRebuilds
<1>1. CASE SnapshotThreshold = 0
  <2>1. DurabilityInv => RestartRebuilds
    BY <1>1, AtRestRebuilds
  <2> QED
    BY DurabilityInvariant, <2>1, PTL
<1>2. CASE ConfChanges = {}
  <2>1. DurabilityInv /\ ElectionInv => RestartRebuilds
    BY FixedRebuilds
  <2>2. Spec => []ElectionInv
    BY <1>2, FixedMembersInv
  <2> QED
    BY DurabilityInvariant, <2>1, <2>2, PTL
<1> QED
  BY <1>1, <1>2

\* The configuration in force is the one of the last configuration entry of
\* the log, through every append, truncation and replay of the log, when the
\* servers take no snapshot (setConfig, truncateConfigsFrom, newNode).
THEOREM FullLogConfigFollows ==
  ASSUME SnapshotThreshold = 0
  PROVE  Spec => []ConfigFollowsLog
<1>1. DurabilityInv => ConfigFollowsLog
  BY AtRestFollowsLog
<1> QED
  BY DurabilityInvariant, <1>1, PTL

==============================================================================
