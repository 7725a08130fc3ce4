------------------------------- MODULE Cluster -------------------------------
(***************************************************************************)
(* Raft nodes on their servers (sim/server.go), with their durable stores, *)
(* the faulty network between them (sim/net.go) and the faults the         *)
(* simulator injects (sim/sim.go): one action per event of the simulator.  *)
(*                                                                         *)
(* The simulator runs one event at a time, so an action is a whole event:  *)
(* the node's step, the fsync of what it must persist, the messages and    *)
(* entries that step releases, and the snapshot this may trigger.  Virtual *)
(* time is abstracted: a timer may fire whenever it is armed.              *)
(***************************************************************************)
EXTENDS RaftNode

CONSTANTS
    SnapshotThreshold,  \* Options.SnapshotThreshold, 0 for no snapshots
    \* What a run explores.
    Campaigns,          \* <<server, term>>: elections its timer may start
    LeaderTicks,        \* which of the leader's counters may reach their limit
    ConfChanges,        \* ConfChange inputs and the servers they are given to
    TransferTargets,    \* targets of TransferLeadership inputs
    Links,              \* <<from, to>> whose messages are not all lost
    \* Bounds.
    MaxTerm,            \* largest term
    MaxLog,             \* largest log index
    MaxCrashes          \* number of crashes

TickKinds == {"transfer", "quorum", "heartbeat"}

ConfChange == [at : Server, type : {"AddServer", "RemoveServer"}, id : Server]

ASSUME ClusterAssumption ==
  /\ SnapshotThreshold \in Nat /\ MaxTerm \in Nat /\ MaxLog \in Nat
  /\ MaxCrashes \in Nat
  /\ Campaigns \subseteq Server \X Nat /\ TransferTargets \subseteq Server
  /\ LeaderTicks \subseteq TickKinds /\ ConfChanges \subseteq ConfChange
  /\ Links \subseteq Server \X Server

VARIABLES
    node,       \* Server.node; its content is meaningless while the server is down
    up,         \* the servers whose node is not nil
    durable,    \* Server.store
    app,        \* the entries the application's state results from
    net,        \* every message ever sent and not lost
    crashes,    \* crashes so far
    \* What checker/invariants.go remembers of the past.
    leaders,    \* [term, id] of every leader seen
    committed   \* every entry seen committed, with the term of its observer

vars == <<node, up, durable, app, net, crashes, leaders, committed>>

Leadership == [term : Nat, id : Server]

CommitRecord == [entry : Entry, termUB : Nat]

TypeOK ==
  /\ node \in [Server -> Node]
  /\ up \in SUBSET Server
  /\ durable \in [Server -> Durable]
  /\ app \in [Server -> Seq(Entry)]
  /\ net \in SUBSET Message
  /\ crashes \in 0 .. MaxCrashes
  /\ leaders \in SUBSET Leadership
  /\ committed \in SUBSET CommitRecord

Init ==
  /\ node = [i \in Server |-> RestartNode(i, NewDurable)]
  /\ up = Server
  /\ durable = [i \in Server |-> NewDurable]
  /\ app = [i \in Server |-> <<>>]
  /\ net = {}
  /\ crashes = 0
  /\ leaders = {}
  /\ committed = {}

(***************************************************************************)
(* The observations of the checker.  A commit record keeps the smallest    *)
(* term in which the entry was seen committed.                             *)
(***************************************************************************)
RecordLeader(n) ==
  IF n.state = "Leader" THEN leaders \cup {[term |-> n.term, id |-> n.id]}
  ELSE leaders

CommittedEntries(n) ==
  {n.log.entries[k] : k \in 1 .. Min({n.commitIndex - n.log.snapIndex, Len(n.log.entries)})}

RecordCommitted(n) ==
  LET seen == {[entry |-> e, termUB |-> n.term] : e \in CommittedEntries(n)}
  IN  {c \in committed \cup seen :
         \A d \in committed \cup seen : d.entry = c.entry => c.termUB <= d.termUB}

(***************************************************************************)
(* handleOutput                                                            *)
(***************************************************************************)
\* A crash wipes the node and the application; this is what is left of them.
Wiped(i) == RestartNode(i, NewDurable)

\* The messages that leave i's step and are not lost at sending.
Carried(msgs) == {m \in msgs : <<m.from, m.to>> \in Links}

\* Faulty variant: the application does not restore the snapshot.
AppAfterNoRestore(a, n) == a \o n.applied

\* applySnapshot restores the application, then the applied entries follow.
AppAfter(a, n) ==
  (IF n.snapDirty = "replace" THEN n.snapshot.data ELSE a) \o n.applied

\* The panic of Durable.Apply stops the program like one of the node's own.
Synced(n, d) ==
  [Settled(n) EXCEPT !.panic = @ \/ Discontinuous(d, PersistOf(n))]

SnapshotDue(n) ==
  /\ SnapshotThreshold > 0
  /\ n.applied # <<>>
  /\ n.lastApplied - n.log.snapIndex >= SnapshotThreshold

CrashServer(i) ==
  /\ crashes < MaxCrashes
  /\ crashes' = crashes + 1
  /\ up' = up \ {i}
  /\ node' = [node EXCEPT ![i] = Wiped(i)]
  /\ app' = [app EXCEPT ![i] = <<>>]

\* The fsync of the step fails: nothing of the step survives.
FsyncCrash(i, n) ==
  /\ NeedsFsync(n)
  /\ CrashServer(i)
  /\ UNCHANGED <<durable, net, leaders, committed>>

\* The step's effects: what it persisted, sent and applied.
Release(i, n, d) ==
  /\ net' = net \cup Carried(n.out)
  /\ committed' = RecordCommitted(n)
  /\ durable' = [durable EXCEPT ![i] = d]

Complete(i, n) ==
  LET p == PersistOf(n)
      d == ApplyPersist(durable[i], p)
      m == Synced(n, durable[i])
      a == AppAfter(app[i], n)
      s == CreateSnapshot(m, m.lastApplied, a)
  IN  \/ /\ ~SnapshotDue(n)
         /\ Release(i, n, d)
         /\ node' = [node EXCEPT ![i] = m]
         /\ app' = [app EXCEPT ![i] = a]
         /\ leaders' = RecordLeader(n)
         /\ UNCHANGED <<up, crashes>>
      \/ /\ SnapshotDue(n)
         /\ Release(i, n, ApplyPersist(d, PersistOf(s)))
         /\ node' = [node EXCEPT ![i] = Synced(s, d)]
         /\ app' = [app EXCEPT ![i] = a]
         /\ leaders' = RecordLeader(n)
         /\ UNCHANGED <<up, crashes>>
      \/ /\ SnapshotDue(n)            \* the fsync of the snapshot fails
         /\ Release(i, n, d)
         /\ CrashServer(i)
         /\ UNCHANGED leaders

\* A panic stops the simulation.
Running == \A i \in Server : ~node[i].panic

Bounded(n) == n.term <= MaxTerm /\ LastIndex(n.log) <= MaxLog

HandleOutput(i, n) ==
  Running /\ Bounded(n) /\ (FsyncCrash(i, n) \/ Complete(i, n))

(***************************************************************************)
(* Events                                                                  *)
(***************************************************************************)
ElectionTimeout(i) ==
  /\ i \in up /\ node[i].state # "Leader"
  /\ <<i, node[i].term + 1>> \in Campaigns
  /\ HandleOutput(i, Campaign(node[i], PreVote, FALSE))

LeaderTick(i, due) ==
  /\ i \in up
  /\ node[i].state = "Leader"
  /\ "transfer" \in due => node[i].transferee # None
  /\ HandleOutput(i, TickLeader(node[i], "transfer" \in due, "quorum" \in due,
                                "heartbeat" \in due))

\* fresh: electionElapsed is below the election timeout.  It may be or not, of
\* a leader too: becomeLeader does not reset the counter, and a candidate may
\* win when its own has already passed the timeout.  Only vote requests look.
Deliver(m) ==
  /\ m.to \in up
  /\ \E fresh \in IF m.type = "Vote" THEN BOOLEAN ELSE {TRUE} :
       HandleOutput(m.to, Receive(node[m.to], m, fresh))

ReceiveVote(m)       == m.type = "Vote"       /\ Deliver(m)
ReceiveVoteResp(m)   == m.type = "VoteResp"   /\ Deliver(m)
ReceiveApp(m)        == m.type = "App"        /\ Deliver(m)
ReceiveAppResp(m)    == m.type = "AppResp"    /\ Deliver(m)
ReceiveSnap(m)       == m.type = "Snap"       /\ Deliver(m)
ReceiveSnapResp(m)   == m.type = "SnapResp"   /\ Deliver(m)
ReceiveTimeoutNow(m) == m.type = "TimeoutNow" /\ Deliver(m)

\* Bound: a leader is offered a command only if neither its application nor
\* its log has it already.
ClientPropose(i, v) ==
  /\ i \in up
  /\ v \notin {e.data : e \in {node[i].log.entries[k] : k \in DOMAIN node[i].log.entries}}
  /\ v \notin {e.data : e \in {app[i][k] : k \in DOMAIN app[i]}}
  /\ HandleOutput(i, Propose(node[i], v))

ProposeConfChange(c) ==
  LET n == node[c.at] IN
  /\ c.at \in up
  /\ HandleOutput(c.at, IF c.type = "AddServer" THEN AddServer(n, c.id)
                        ELSE RemoveServer(n, c.id))

Transfer(i, target) ==
  /\ i \in up
  /\ HandleOutput(i, TransferLeadership(node[i], target))

Crash(i) ==
  /\ Running /\ i \in up
  /\ CrashServer(i)
  /\ UNCHANGED <<durable, net, leaders, committed>>

\* Faulty variant: the application starts empty, whatever the snapshot.
RestartWithEmptyApp(i) ==
  /\ Running /\ i \in Server \ up
  /\ up' = up \cup {i}
  /\ node' = [node EXCEPT ![i] = RestartNode(i, durable[i])]
  /\ app' = [app EXCEPT ![i] = <<>>]
  /\ UNCHANGED <<durable, net, crashes, leaders, committed>>

Restart(i) ==
  /\ Running /\ i \in Server \ up
  /\ up' = up \cup {i}
  /\ node' = [node EXCEPT ![i] = RestartNode(i, durable[i])]
  /\ app' = [app EXCEPT ![i] = durable[i].snap.data]
  /\ UNCHANGED <<durable, net, crashes, leaders, committed>>

Next ==
  \/ \E i \in Server : ElectionTimeout(i)
  \/ \E i \in Server, due \in SUBSET LeaderTicks \ {{}} : LeaderTick(i, due)
  \/ \E i \in Server, v \in Value : ClientPropose(i, v)
  \/ \E c \in ConfChanges : ProposeConfChange(c)
  \/ \E i \in Server, t \in TransferTargets : Transfer(i, t)
  \/ \E m \in net : ReceiveVote(m)
  \/ \E m \in net : ReceiveVoteResp(m)
  \/ \E m \in net : ReceiveApp(m)
  \/ \E m \in net : ReceiveAppResp(m)
  \/ \E m \in net : ReceiveSnap(m)
  \/ \E m \in net : ReceiveSnapResp(m)
  \/ \E m \in net : ReceiveTimeoutNow(m)
  \/ \E i \in Server : Crash(i)
  \/ \E i \in Server : Restart(i)

Spec == Init /\ [][Next]_vars
==============================================================================
