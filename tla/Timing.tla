------------------------------- MODULE Timing -------------------------------
(***************************************************************************)
(* Raft nodes with their tick counters (raft/node.go): electionElapsed and *)
(* the randomized timeout, heartbeatElapsed, quorumElapsed and             *)
(* transferElapsed, over a network that delivers a message once, before    *)
(* its sender's cluster ticks again, unless it is lost, delayed or sent    *)
(* across a partition.  This is the quiet tail of a simulation             *)
(* (FaultOpts.QuietTail), preceded by a bounded number of faults.          *)
(*                                                                         *)
(* Storage and crashes are those of Cluster and left out here.  Clocks run *)
(* at the same pace: every server ticks once per round.                    *)
(***************************************************************************)
EXTENDS RaftNode

CONSTANTS
    ElectionTicks,      \* Params.ElectionTicks
    HeartbeatTicks,     \* Params.HeartbeatTicks
    SnapshotThreshold,  \* Options.SnapshotThreshold, 0 for no snapshots
    Timeouts,           \* the election timeout that a server usually draws
    \* What a run explores.
    Groups,             \* sets of servers that a partition may cut off
    Joining,            \* servers to be added
    Leaving,            \* servers to be removed
    TransferTargets,    \* servers to transfer the leadership to
    \* Bounds.
    MaxUnlucky,         \* timeouts drawn otherwise
    MaxLost,            \* messages lost
    MaxDelayed,         \* ticks while messages are on their way
    MaxPartitions,      \* partitions
    MaxFaults,          \* all of these together
    MaxTransfers,       \* transfers
    MaxTerm,            \* terms; no timeout counts in the last one
    MaxLog              \* log indices that inputs reach

\* randTimeout is drawn from ElectionTicks .. 2 * ElectionTicks - 1.
Draws == ElectionTicks .. 2 * ElectionTicks - 1

ASSUME TimingAssumption ==
  /\ ElectionTicks \in Nat \ {0} /\ HeartbeatTicks \in Nat \ {0}
  /\ SnapshotThreshold \in Nat /\ Timeouts \in [Server -> Draws]
  /\ Cardinality(Server) > 1 /\ Groups \subseteq SUBSET Server
  /\ Joining \subseteq Server /\ Leaving \subseteq Server
  /\ TransferTargets \subseteq Server
  /\ {MaxUnlucky, MaxLost, MaxDelayed, MaxPartitions, MaxTransfers, MaxFaults, MaxTerm,
      MaxLog} \subseteq Nat

VARIABLES
    node,
    clock,      \* the tick counters of each server
    flight,     \* messages on their way
    ticked,     \* the servers that have ticked in this round
    cut,        \* the servers that a partition cuts off
    faults,     \* how much of each bound is used up
    silent      \* history: a leader's ticks since it was last answered or elected

vars == <<node, clock, flight, ticked, cut, faults, silent>>

\* No counter matters beyond the largest timeout.
Limit == 2 * ElectionTicks

Clock ==
  [election : 0 .. Limit, timeout : Draws, heartbeat : 0 .. Limit,
   quorum : 0 .. Limit, transfer : 0 .. Limit]

FaultKinds == {"unlucky", "lost", "delayed", "partition", "transfer"}

TypeOK ==
  /\ node \in [Server -> Node] /\ clock \in [Server -> Clock]
  /\ flight \in SUBSET Message /\ ticked \in SUBSET Server /\ cut \in SUBSET Server
  /\ faults \in [FaultKinds -> Nat] /\ silent \in [Server -> 0 .. Limit]

Init ==
  /\ node = [i \in Server |-> RestartNode(i, NewDurable)]
  /\ clock = [i \in Server |-> [election |-> 0, timeout |-> Timeouts[i], heartbeat |-> 0,
                                quorum |-> 0, transfer |-> 0]]
  /\ flight = {} /\ ticked = {} /\ cut = {}
  /\ faults = [k \in FaultKinds |-> 0]
  /\ silent = [i \in Server |-> 0]

MaxOf(kind) ==
  CASE kind = "unlucky" -> MaxUnlucky    [] kind = "lost" -> MaxLost
    [] kind = "delayed" -> MaxDelayed    [] kind = "partition" -> MaxPartitions
    [] kind = "transfer" -> MaxTransfers

Spent ==
  faults["unlucky"] + faults["lost"] + faults["delayed"] + faults["partition"]

Left(kind) == faults[kind] < MaxOf(kind) /\ (kind # "transfer" => Spent < MaxFaults)

Used(f, kind) == [f EXCEPT ![kind] = @ + 1]

(***************************************************************************)
(* handleOutput: messages across a partition are dropped when they are     *)
(* sent; a snapshot is taken as soon as it is due.                         *)
(***************************************************************************)
Connected(m) == m.from \in cut <=> m.to \in cut

FullLog(n) == n.snapshot.data \o n.log.entries

Handled(n) ==
  LET q == Settled(n) IN
  IF SnapshotThreshold > 0 /\ n.applied # <<>>
     /\ n.lastApplied - n.log.snapIndex >= SnapshotThreshold
  THEN Settled(CreateSnapshot(q, q.lastApplied, UpTo(FullLog(q), q.lastApplied)))
  ELSE q

(***************************************************************************)
(* Counters.  becomeFollower, becomePreCandidate and becomeCandidate draw  *)
(* a new timeout and start to count from zero; so does, without a new      *)
(* timeout, a follower that hears from its leader or grants its vote.      *)
(* becomeLeader leaves electionElapsed alone, and a leader does not count  *)
(* it.                                                                     *)
(***************************************************************************)
Heard(n, m, q) ==
  \/ m.type \in {"App", "Snap"} /\ m.term = q.term /\ q.state = "Follower"
  \/ \E r \in q.out : r.type = "VoteResp" /\ ~r.preVote /\ r.granted

NewRole(n, q) == q.term # n.term \/ (q.state # n.state /\ q.state # "Leader")

Elected(n, q) == n.state # "Leader" /\ q.state = "Leader"

\* The counters c after a step from n to q.
CountersAfter(c, n, q, restart, timeout) ==
  [c EXCEPT !.election  = IF restart \/ NewRole(n, q) THEN 0 ELSE @,
            !.timeout   = timeout,
            !.heartbeat = IF Elected(n, q) THEN 0 ELSE @,
            !.quorum    = IF Elected(n, q) THEN 0 ELSE @]

\* Server i steps from n to q; its counters, c at first, follow.
StepTo(i, n, q, c, restart, redraw, used) ==
  \E timeout \in Draws :
    /\ \/ ~redraw /\ timeout = c.timeout /\ faults' = used
       \/ redraw /\ timeout = Timeouts[i] /\ faults' = used
       \/ redraw /\ timeout # Timeouts[i] /\ Left("unlucky") /\ faults' = Used(used, "unlucky")
    /\ node' = [node EXCEPT ![i] = Handled(q)]
    /\ clock' = [clock EXCEPT ![i] = CountersAfter(c, n, q, restart, timeout)]

Sent(q) == {m \in q.out : Connected(m)}

(***************************************************************************)
(* Ticks                                                                   *)
(***************************************************************************)
Plus1(k) == IF k < Limit THEN k + 1 ELSE k

TickFollower(i, used) ==
  LET n   == node[i]
      c   == [clock[i] EXCEPT !.election = Plus1(@)]
      due == c.election >= c.timeout /\ n.term < MaxTerm
      q   == IF due THEN Campaign(n, PreVote, FALSE) ELSE n
      started == due /\ i \in Config(n)
  IN  /\ n.state # "Leader"
      /\ StepTo(i, n, q, c, started, started, used)
      /\ flight' = flight \cup Sent(q)

TickLeaderOf(i, used) ==
  LET n   == node[i]
      c   == [clock[i] EXCEPT !.heartbeat = Plus1(@), !.quorum = Plus1(@),
                              !.transfer = IF n.transferee = None THEN @ ELSE Plus1(@)]
      transferDue  == n.transferee # None /\ c.transfer >= ElectionTicks
      quorumDue    == c.quorum >= ElectionTicks
      heartbeatDue == c.heartbeat >= HeartbeatTicks
      q   == TickLeader(n, transferDue, quorumDue, heartbeatDue)
      d   == [c EXCEPT !.quorum = IF quorumDue THEN 0 ELSE @,
                       !.heartbeat = IF heartbeatDue /\ q.state = "Leader" THEN 0 ELSE @]
  IN  /\ n.state = "Leader"
      /\ StepTo(i, n, q, d, FALSE, NewRole(n, q), used)
      /\ flight' = flight \cup Sent(q)

Tick(i) ==
  /\ i \notin ticked
  /\ ticked' = IF ticked \cup {i} = Server THEN {} ELSE ticked \cup {i}
  /\ flight # {} => Left("delayed")
  /\ LET used == IF flight = {} THEN faults ELSE Used(faults, "delayed")
     IN  TickFollower(i, used) \/ TickLeaderOf(i, used)
  /\ silent' = [silent EXCEPT ![i] = IF node'[i].state = "Leader" THEN Plus1(@) ELSE 0]
  /\ UNCHANGED cut

(***************************************************************************)
(* Messages and inputs                                                     *)
(***************************************************************************)
Answers(m) == m.type \in {"AppResp", "SnapResp", "VoteResp"}

Deliver(m) ==
  LET i == m.to
      n == node[i]
      q == Receive(n, m, clock[i].election < ElectionTicks)
  IN  /\ StepTo(i, n, q, clock[i], Heard(n, m, q), NewRole(n, q), faults)
      /\ flight' = (flight \ {m}) \cup Sent(q)
      /\ silent' = [silent EXCEPT ![i] = IF Answers(m) THEN 0 ELSE @]
      /\ UNCHANGED <<ticked, cut>>

\* An input of the application or the operator.
Input(i, q) ==
  LET n == node[i] IN
  /\ flight = {}
  /\ q # n /\ LastIndex(q.log) <= MaxLog
  /\ node' = [node EXCEPT ![i] = Handled(q)]
  /\ clock' = [clock EXCEPT ![i].transfer =
                 IF q.transferee # None THEN 0 ELSE @]
  /\ flight' = flight \cup Sent(q)
  /\ UNCHANGED <<ticked, cut, silent>>

ClientPropose(i, v) ==
  /\ v \notin {e.data : e \in {FullLog(node[i])[k] : k \in DOMAIN FullLog(node[i])}}
  /\ Input(i, Propose(node[i], v))
  /\ UNCHANGED faults

Join(i, s) == Input(i, AddServer(node[i], s)) /\ UNCHANGED faults

\* A leader that removes itself steps down when the change is committed.
Leave(i, s) == Input(i, RemoveServer(node[i], s)) /\ UNCHANGED faults

Transfer(i, target) ==
  /\ Left("transfer") /\ faults' = Used(faults, "transfer")
  /\ Input(i, TransferLeadership(node[i], target))

(***************************************************************************)
(* Faults                                                                  *)
(***************************************************************************)
Lose(m) ==
  /\ Left("lost") /\ faults' = Used(faults, "lost")
  /\ flight' = flight \ {m}
  /\ UNCHANGED <<node, clock, ticked, cut, silent>>

Partition(group) ==
  /\ flight = {} /\ cut = {} /\ Left("partition") /\ faults' = Used(faults, "partition")
  /\ cut' = group
  /\ UNCHANGED <<node, clock, flight, ticked, silent>>

Heal ==
  /\ cut # {} /\ cut' = {}
  /\ UNCHANGED <<node, clock, flight, ticked, faults, silent>>

Next ==
  \/ \E i \in Server : Tick(i)
  \/ \E m \in flight : Deliver(m) \/ Lose(m)
  \/ \E i \in Server, v \in Value : ClientPropose(i, v)
  \/ \E i \in Server, s \in Joining : Join(i, s)
  \/ \E i \in Server, s \in Leaving : Leave(i, s)
  \/ \E i \in Server, t \in TransferTargets : Transfer(i, t)
  \/ \E group \in Groups : Partition(group)
  \/ Heal

Spec == Init /\ [][Next]_vars

\* Clocks tick, messages that are not lost arrive and partitions heal
\* (Faults.PartitionMean, and at the latest the quiet tail).  The first two are
\* weak fairness of Tick and of Deliver, with what enables them written out.
MayTick == flight = {} \/ Left("delayed")

Ticks == ticked' # ticked

Delivers == \E m \in flight : m \notin flight'

Fairness ==
  /\ []<>~MayTick \/ []<><<Ticks>>_vars
  /\ []<>(flight = {}) \/ []<><<Delivers>>_vars
  /\ WF_vars(Heal)

FairSpec == Spec /\ Fairness

(***************************************************************************)
(* Properties                                                              *)
(***************************************************************************)
\* The leader is one of its configuration, whose members follow it and have its
\* whole log committed, and neither a server is catching up nor a transfer under
\* way.
Settles(l) ==
  LET n == node[l] IN
  /\ n.state = "Leader" /\ n.learner = None /\ n.transferee = None
  /\ l \in Config(n)
  /\ \A i \in Config(n) :
       /\ node[i].leaderID = l /\ node[i].term = n.term
       /\ FullLog(node[i]) = FullLog(n)
       /\ node[i].commitIndex = LastIndex(n.log)

\* Once the faults are over a leader emerges and lasts, every member converges
\* on its log, whatever it missed, lost snapshots are sent again, a server that
\* was added becomes a voter, a leader that was removed gives up its place
\* (afterCommit) and a transfer ends: leader stickiness, pre-vote, CheckQuorum,
\* snapshot retransmission and the timeouts do not work against each other
\* (convergence assertions of the tests with a QuietTail).
Convergence == <>[](\E l \in Server : Settles(l))

\* Whatever happens to its leader, in the middle of a membership change or not,
\* the cluster recovers and has a leader again (TestLeaderCrashDuringConfChange
\* in sim/membership_test.go).
LeaderReturns == []<>(\E i \in Server : node[i].state = "Leader")

\* A leader whom nobody answers steps down within two election timeouts of its
\* own ticks (CheckQuorum, tickLeader).
IsolatedLeaderStepsDown ==
  \A i \in Server :
    node[i].state = "Leader" /\ Quorum(Config(node[i])) > 1 => silent[i] < Limit

\* Whatever the target does, a leader refuses proposals because of a transfer
\* for less than an election timeout of its own ticks (tickLeader).
ProposalsResume ==
  \A i \in Server : node[i].transferee # None => clock[i].transfer < ElectionTicks

\* The configuration that entries bring about: the one of the last of them that
\* holds one.
ConfigIn(entries) ==
  CfgOf(InitConfHistory(0, InitialVoters) \cup ConfigRecords(entries))

\* A server follows the newest configuration of its log, and its snapshot holds
\* the one as of the last entry the snapshot covers: not that of an addition or
\* removal which is already in force but not committed (createSnapshot, configAt),
\* nor that of the log which a leader's snapshot has replaced (handleSnap).
SnapshotConfigs ==
  \A i \in Server :
    LET n == node[i] IN
    /\ Config(n) = ConfigIn(FullLog(n))
    /\ n.snapshot # NoSnapshot => n.snapshot.config = ConfigIn(n.snapshot.data)

\* A server that knows of a live leader refuses the votes that others ask for
\* and does not move to their term (comment on leader stickiness in receive):
\* a leader whom everyone else follows is not deposed by the one server that
\* has not heard of it.
LeaderIgnoresVotes ==
  [][\A m \in flight \ flight' :
       /\ m.type = "Vote" /\ ~m.preVote /\ ~m.force
       /\ node[m.to].state = "Leader"
       /\ \A j \in Server \ {m.from} : node[j].leaderID = m.to
       => node'[m.to].term = node[m.to].term]_vars
==============================================================================
