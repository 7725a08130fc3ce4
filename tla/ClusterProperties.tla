-------------------------- MODULE ClusterProperties --------------------------
(***************************************************************************)
(* What a cluster of raftsim nodes must and must not do.                   *)
(***************************************************************************)
EXTENDS Cluster, SequencesExt

\* The whole log of a node or of a store, compacted part included: the
\* snapshot's data is the sequence of the entries it covers.
FullLog(n) == n.snapshot.data \o n.log.entries

DurableLog(i) == durable[i].snap.data \o durable[i].entries

\* The configuration that the entries of a full log put in force.
ConfigOf(log) ==
  LET at == {k \in 1 .. Len(log) : log[k].type = "Config"}
  IN  IF at = {} THEN InitialVoters ELSE log[Max(at)].data

LeadersUp == {i \in up : node[i].state = "Leader"}

-----------------------------------------------------------------------------
(* Safety of Raft (SPEC.md 4.1, paper figure 3) *)

\* Two leaders of one term: becomeLeader after votes counted from delayed,
\* duplicated and pre-vote answers, crashes between vote and answer.
ElectionSafety ==
  \A a, b \in leaders : a.term = b.term => a.id = b.id

\* If two durable logs hold an entry of the same term at the same index, they
\* are equal up to it, through truncation (handleApp), compaction and snapshot
\* installation (storage.Apply).  Between events the log in memory is the durable
\* one (RestartRebuilds).
LogMatching ==
  \A i, j \in Server :
    LET a == DurableLog(i)
        b == DurableLog(j)
    IN  \A k \in DOMAIN a \cap DOMAIN b :
          a[k].term = b[k].term => \A h \in 1 .. k : a[h] = b[h]

\* A leader of a later term than the one that saw an entry committed has
\* that entry, whatever its log contains and its snapshot covers.
LeaderCompleteness ==
  \A i \in LeadersUp, c \in committed :
    node[i].term > c.termUB =>
      LET log == FullLog(node[i])
      IN  c.entry.index \in DOMAIN log /\ log[c.entry.index] = c.entry

\* No two different entries are ever seen committed at one index, by any two
\* nodes at any two times.
CommittedOnce ==
  \A c, d \in committed : c.entry.index = d.entry.index => c = d

\* The applications of any two servers have applied the same entries as far
\* as both have got, whether through applied entries, restored snapshots or
\* replay after a restart; and they have applied every index exactly once.
StateMachineSafety ==
  /\ \A i, j \in Server : IsPrefix(app[i], app[j]) \/ IsPrefix(app[j], app[i])
  /\ \A i \in Server : \A k \in DOMAIN app[i] : app[i][k].index = k

\* The application of a live server reflects exactly the entries up to
\* lastApplied, and they are the ones recorded as committed.
AppliedIsCommitted ==
  \A i \in up :
    /\ Len(app[i]) = node[i].lastApplied
    /\ \A k \in DOMAIN app[i] : \E c \in committed : c.entry = app[i][k]

-----------------------------------------------------------------------------
(* Persistence *)

\* A crash at this point and a restart give back the term, the vote, the log,
\* the snapshot and the configuration in force: every change of them was
\* part of the Persist of its step.
RestartRebuilds ==
  \A i \in up :
    LET r == RestartNode(i, durable[i])
    IN  /\ <<r.term, r.votedFor>> = <<node[i].term, node[i].votedFor>>
        /\ r.log = node[i].log /\ r.snapshot = node[i].snapshot
        /\ Config(r) = Config(node[i])

\* A vote that was granted and may still be counted is on the disk of the
\* server that granted it, or that server has moved on to a later term.
GrantedVotesDurable ==
  \A m \in net :
    m.type = "VoteResp" /\ ~m.preVote /\ m.granted =>
      \/ durable[m.from].term > m.term
      \/ durable[m.from].term = m.term /\ durable[m.from].votedFor = m.to

\* The progress a leader counts towards commitment is on the disk of the
\* follower as long as that follower has not moved to a later term.
MatchIsDurable ==
  \A i \in LeadersUp, s \in Server :
    LET k == node[i].prs[s].match
        log == DurableLog(s)
    IN  k > 0 /\ durable[s].term = node[i].term =>
          /\ k <= Len(log)
          /\ SubSeq(log, 1, k) = SubSeq(FullLog(node[i]), 1, k)

\* None of the panics of raft/ and storage/ is reached.
NoPanic == Running

-----------------------------------------------------------------------------
(* Configurations *)

\* The configuration in force is the one of the last configuration entry of
\* the whole log, committed or not, also after the entry was truncated,
\* compacted, replaced by a snapshot or replayed.
ConfigFollowsLog ==
  \A i \in up :
    /\ Config(node[i]) = ConfigOf(FullLog(node[i]))
    /\ node[i].snapshot # NoSnapshot =>
         node[i].snapshot.config = ConfigOf(node[i].snapshot.data)

\* A log holds at most one configuration entry that was never seen committed.
OneConfigInFlight ==
  \A i \in up :
    LET log == FullLog(node[i])
    IN  Cardinality({k \in DOMAIN log :
          /\ log[k].type = "Config"
          /\ \A c \in committed : c.entry # log[k]}) <= 1

-----------------------------------------------------------------------------
(* Action properties *)

\* Terms on disk never go back, and a vote cast in a term never changes.
VotesStand ==
  [][\A i \in Server :
       LET d == durable[i]  e == durable'[i]
       IN  /\ d.term <= e.term
           /\ d.term = e.term /\ d.votedFor # None => d.votedFor = e.votedFor]_vars

\* While a server stays up, what it has committed and applied only grows.
CommitsStand ==
  [][\A i \in up \cap up' :
       /\ node[i].commitIndex <= node'[i].commitIndex
       /\ IsPrefix(app[i], app'[i])]_vars

\* From the request to transfer the leadership until the transfer ends, the
\* leader's log grows by no client command and no membership change: otherwise
\* the target is a step behind and loses the election it is told to start
\* (README.md, NOTES.md M6).  The one entry it may still get is the promotion
\* of the server that was catching up when the transfer began.
OnlyPromotionDuringTransfer ==
  [][\A i \in up \cap up' :
       LET n == node[i]  log == FullLog(n)  new == FullLog(node'[i]) IN
       /\ n.state = "Leader" /\ node'[i].state = "Leader" /\ n.term = node'[i].term
       /\ n.transferee # None /\ node'[i].transferee = n.transferee
       /\ new # log
       => /\ n.learner # None /\ node'[i].learner = None
          /\ Len(new) = Len(log) + 1
          /\ Last(new).type = "Config" /\ Last(new).data = Config(n) \cup {n.learner}]_vars

-----------------------------------------------------------------------------
(* What the application may rely on *)

\* The entries seen committed, in the order of the log.
CommittedLog ==
  [k \in 1 .. Cardinality(committed) |-> (CHOOSE c \in committed : c.entry.index = k).entry]

Abstract ==
  INSTANCE ReplicatedLog WITH
    Item  <- Entry,
    log   <- CommittedLog,
    saved <- [i \in Server |-> durable[i].snap.data]

\* The cluster is one growing log that every application follows without a
\* gap from its start, and from its last snapshot after a crash (SPEC.md 4.1):
\* each event of the simulator, fsync crashes and truncations included, is a
\* step of the abstract log or changes nothing of it.
ImplementsReplicatedLog == Abstract!Spec
==============================================================================
