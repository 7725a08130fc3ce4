# A verification development of Raft-sim

This directory holds TLA+ models of Raft-sim, a Raft implementation in Go with a
deterministic simulator around it, the TLC configurations that check them, and
proofs for TLAPS. Every definition is translated from the Go code; the
correspondence, definition by definition and line by line, is in
`PROJECT.json` under `map`.

## 1. The system

### 1.1 Components

| component | source | state | operations |
|---|---|---|---|
| Raft node | `raft/node.go`, `raft/types.go` | term, vote, role, log, commit and apply indexes, known leader, votes received, progress of each peer, tick counters | `Step(input)` for ticks, messages, proposals; returns an `Output` (messages, `Persist`, applied entries, snapshot to restore, reply) |
| log | `raft/log.go` | snapshot index and term, entries after it | append, truncate, compact, reset, term lookups for the conflict hints |
| configurations | `raft/conf.go` | history of configurations with the index of their entry | set on append, roll back on truncation, look up for a snapshot, prune on compaction |
| membership, transfer | `raft/membership.go` | server catching up (`learner`), transfer target | add, remove, promote, step down, transfer, `TimeoutNow` |
| snapshots | `raft/snapshot.go` | latest snapshot | create, send, install (keeping the suffix or replacing the log), answer |
| durable store | `storage/storage.go` | hard state, snapshot, entries | `Apply(Persist)` as one fsync, `Load` |
| server | `sim/server.go` | node or nothing (crashed), store, application, pending requests | `step`, `handleOutput` (fsync, send, restore, apply, maybe snapshot) |
| simulator | `sim/sim.go` | event queue, virtual time, faults | one event at a time; crash, restart, partition, random membership changes and transfers |
| network | `sim/net.go` | partition | send: lose, delay, duplicate |
| key-value store | `kv/`, `sim/app.go` | data, one session per client | apply with deduplication, snapshot, restore |
| clients | `sim/client.go` | operation in flight, retry state | invoke, retry, redirect, answer |
| invariant checker | `checker/invariants.go` | leaders per term, committed entries, log chains | check after every event |
| linearizability checker | `checker/linear.go` | - | decide a history of operations |
| tools | `cmd/`, `sim/soak.go`, `sim/queue.go`, `sim/trace.go`, `tools/` | - | run seeds, replay, lint imports |

### 1.2 How they interact

The node never does I/O and has no goroutine: `Server.step` gives it one input
and `handleOutput` carries out the output *in an order that matters*. First the
`Persist` is written (or the server crashes at the fsync and nothing else of the
step happens), then messages are sent, then a snapshot is restored, then entries
are applied; if entries were applied, the server may take a snapshot, which is a
second `Step` with a second fsync, in the same event. The simulator runs events
one at a time and the checker looks at all live nodes after each.

### 1.3 What is hard

* Interleavings of servers: delayed, duplicated, lost and reordered messages of
  several terms and roles; two leaders at once; figure 8 of the Raft paper.
* Crashes at every fsync, with two fsyncs in one event.
* Configurations that take effect when appended and must be undone when their
  entry is truncated, remembered by snapshots and rebuilt by restarts.
* The compaction boundary: `next`, `prev`, `snapIndex` and messages that straddle it.
* Timers: stickiness, pre-vote, CheckQuorum, retransmission of snapshots.
* Retries of client requests across leaders and snapshots.

* The linearizability checker itself: ties in virtual time, operations that were
  never answered, a memo that must not forget too much.

`PROJECT.json` lists each as a hazard with its line and the properties that
would expose it.

### 1.4 What makes each part correct

* Node and cluster: the five properties of figure 3 of the Raft paper (SPEC.md
  4.1), votes and acknowledged entries durable before they are announced, no
  reachable panic, commit and apply indexes that never go back in a live server.
* Configurations: the one in force is that of the last configuration entry of
  the log, at most one is uncommitted, and quorums of successive ones meet.
* Server and store: restart gives back term, vote, log, snapshot and configuration.
* Store and clients: a command takes effect once, histories are linearizable.
* Linearizability checker: it accepts exactly the linearizable histories.

## 2. The modules

| module | models |
|---|---|
| `RaftLog` | `raft/log.go`, `raft/conf.go`, `storage/storage.go`: values and operators on them |
| `RaftNode` | one node: `raft/node.go`, `raft/membership.go`, `raft/snapshot.go`; a node is a record and every Go method an operator from nodes to nodes |
| `Cluster`, `ClusterProperties` | servers, stores, network, faults: one action per event of the simulator; what the cluster must and must not do |
| `Timing` | the same nodes with their tick counters, in rounds, with liveness |
| `ReplicatedLog` | the abstract specification of what Raft gives the application: a sequence of committed entries that only grows, servers that apply prefixes of it, crash and recovery |
| `KVStore` | `kv/kv.go`, `kv/codec.go`: the store with its sessions, and its snapshot |
| `Service` | `sim/client.go`, `sim/app.go`: clients, retries, the pending table, the application hooks, over `ReplicatedLog` |
| `AtomicKV` | the abstract specification of what clients are promised: an atomic map, each operation taking effect once between call and return |
| `Linearizability` | `checker/linear.go` on the histories that `sim/client.go` records |
| `MCCluster`, `MCTiming`, `MCService`, `MCLinearizability` | instances for TLC |
| `RaftNodeProofs` | lemmas on logs, configurations and stores, and what every method of a node preserves; why logs agree: Raft's argument over a history of the cluster |
| `ClusterProofs` | types, durable votes; with fixed members, one leader per term; a store holds its server's log and snapshot, and what a restart gives back |
| `SafetyProofs` | stores, nodes and messages tell the truth of such a history; the safety properties; `Cluster` implements `ReplicatedLog` |
| `MembershipProofs` | what holds while the configuration changes: transfers, the leaders' logs, one change at a time |
| `TimingProofs` | what the tick counters guarantee: silent leaders step down, transfers end |
| `ReplicatedLogProofs`, `ServiceProofs` | prefixes of one log; store, sessions and clients |
| `LinearizabilityProofs` | the checker's search decides linearizability; keys can be judged apart |

    RaftLog <- RaftNode <- Cluster <- ClusterProperties     Cluster  implements  ReplicatedLog
                        <- Timing
    RaftNodeProofs <- ClusterProofs <- SafetyProofs <- MembershipProofs
                   <- TimingProofs
    KVStore <- Service (instance of ReplicatedLog)          Service  implements  AtomicKV
            <- AtomicKV                                     Service  implements  ReplicatedLog
            <- Linearizability <- LinearizabilityProofs

The two refinements meet in `ReplicatedLog`: what `Cluster` is shown to do is all
that `Service` assumes of Raft, so that clients and store can be checked and proved about
without the protocol's messages.

### 2.1 State and actions against the code

**Cluster.** `node[i]` is `Server.node` with the fields of the Go struct; `out`,
`hsDirty`, `appendedFrom`, `snapDirty` and `applied` are the output under
construction. `durable[i]` is the `storage.Durable`, `app[i]` the entries whose
application gave the application's state, `net` every message ever sent and not
lost, `up` the servers that are not crashed. `leaders` and `committed` are what
the invariant checker remembers; they influence nothing.

| action | code |
|---|---|
| `ElectionTimeout` | a `Tick` that reaches `randTimeout`: `campaign` |
| `LeaderTick` | a `Tick` of a leader at which some counters reach their limit |
| `ReceiveVote` ... `ReceiveTimeoutNow` | `Receive`: `receive` and its handler |
| `ClientPropose`, `ProposeConfChange`, `Transfer` | the three proposals |
| `Crash`, `Restart` | `Simulator.crash`, `restartServer` |

Each of the first three rows goes through `HandleOutput`, with three outcomes:
crash at the step's fsync (`FsyncCrash`), success, or, when a snapshot is due, a
crash at the snapshot's fsync after the step's effects were released.

**Timing.** `clock[i]` holds `electionElapsed`, `randTimeout`, `heartbeatElapsed`,
`quorumElapsed` and `transferElapsed`; `Tick` is `Node.tick`. Messages are in
`flight` once; `cut` is the partition. `faults` counts what the bounds allow.
`ClientPropose`, `Join`, `Leave` and `Transfer` are the inputs of clients and operators;
`Leave` removes any voter of `Leaving`, the leader included.

**Service.** `log`, `up`, `app`, `saved` are those of `ReplicatedLog`; `store[i]` is
`Server.app`, `disk[i]` the data of its snapshot, `pending[i]` the table of who
waits for what, `client[c]` the fields of `Client`. `offers` are commands in some
leader's log that are not known to be committed, `believed` what each node would
answer for the leader's identity.

| action | code |
|---|---|
| `StartNextOp`, `Watchdog`, `Retry`, `HandleResp` | `startNextOp`, `armWatchdog`, `scheduleRetry`, `handleResp`, each with its `sendReq` |
| `Reply`, `Propose`, `ProposeAlone` | `serverHandleClientReq`: answered at once; proposed; proposed by the only voter, which applies inside the step and answers who already waited for the same command |
| `ProposeCrash`, `ProposeAloneCrash` | the same by a server that crashes at that step's fsync, or, alone, at that of the snapshot that is due |
| `ApplyNext`, `Install`, `Crash`, `Restart` | `appApply`, `appRestore`, `appCrash`, `appRestart` of `sim/app.go` |
| `SnapshotCrash` | `appApply` of the last entry of a step, its answer sent, and a crash at the fsync of the snapshot that is due |
| `InstallKept` | a leader's snapshot whose last entry is in the server's log: the entries up to it are applied and the leader's snapshot is stored |
| `Commit`, `CommitNoop`, `LoseOffer`, `ElectionChange` | what Raft does below |

**Linearizability.** A history is recorded by `Invoke` and `Respond` (`startNextOp`,
`handleResp`) with *any* answers; then the search of `checkKey` runs, a call of
`dfs` or a turn of its loop at a time, with its explicit stack, register, set of
linearized operations and memo.

### 2.2 Abstractions

* **Time in Cluster.** Tick counters are not in the state. A timer may fire
  whenever it is armed, and the comparison behind leader stickiness may come out
  either way. This allows every behaviour of the code and more, so safety shown
  there holds of the code; nothing about *when* is shown. That is what `Timing` is for.
* **Time in Timing.** All clocks run at the same pace, in rounds: every server
  ticks once, and messages sent are delivered, in any order, before the next
  tick, unless they are lost, delayed or cut off. Inputs and partitions come
  between rounds. Storage and crashes are left out: the step is released whole.
* **Application.** In `Cluster` the application's state is the sequence of
  entries that led to it, and a snapshot's data is that sequence. In `Service` it is the store.
* **Network.** Where `net` never forgets, a message may be delivered late, twice
  or never. A message that is lost at sending is a message that is never delivered.
* **Data.** Configurations are sets, the history of configurations is a set of
  records (their indexes differ), messages carry the fields their type uses. Values
  of commands are `<<client, sequence number>>`, which is what `startNextOp` writes into them.
* **Panics.** Every panic of `raft/` and `storage/` that a legal input might
  reach sets `panic`, which stops the model as it stops the program.
* **The checker's history.** The Go checker looks at a node after the event, and
  misses an entry that is committed and compacted in one event; `committed` here
  also holds such entries, as `ObserveApply` sees them.
* **A step that applies several entries** is several `ApplyNext` in `Service`, with
  other events allowed between them; a snapshot is then due after the last one. The same
  holds of the entries before the last one that `InstallKept` and `SnapshotCrash` apply.

The operators marked "Faulty variant" stand beside the definition they vary.
They are not used by the specification; each is a plausible mistake in that code,
and replacing the definition by it makes TLC report the property named in
`PROJECT.json` under `mutants`.

## 3. What is checked

| run | instance | properties |
|---|---|---|
| `elect` | 3 servers, pre-vote, terms to 2, a command, 1 crash | `ElectionSafety`, `VotesStand` |
| `figure8` | 3 servers, terms to 4, 3 entries, batches of 1 | `LeaderCompleteness`, `LogMatching`, `CommittedOnce` |
| `snapshot` | 3 servers, snapshot after every entry, terms to 2, 1 crash | `TypeOK`, `StateMachineSafety`, `AppliedIsCommitted`, `MatchIsDurable`, `GrantedVotesDurable`, `NoPanic`, `CommitsStand`, `ImplementsReplicatedLog` |
| `membership` | 2 voters and a joining server; removal of either voter; transfer and its timeout | `ConfigFollowsLog`, `OneConfigInFlight`, `RestartRebuilds`, `OnlyPromotionDuringTransfer` |
| `session` | 2 clients, 2 servers, snapshot after every entry, 1 crash, 2 changes of leader, 2 copies of a command in the log, duplicates | `TypeOK`, `StoreFollowsLog`, `ExactlyOnce`, `Linearizable` |
| `answered` | 1 client, 2 servers, 1 crash, lost messages, 2 changes of leader | `Answered` |
| `settle` | 3 servers with tick counters, pre-vote, a partition, a transfer, terms to 4 | `TypeOK`, `IsolatedLeaderStepsDown`, `ProposalsResume`, `Convergence` |
| `join` | 2 voters and a joining server with tick counters, removal of the one that usually leads, snapshot after every entry, one fault | `IsolatedLeaderStepsDown`, `SnapshotConfigs`, `Convergence` |
| `linear` | 3 clients, 3 operations, 2 keys, 4 instants | `AcceptsOnlyLinearizable`, `RejectsOnlyIllegal` |
| `unsafe_change` | 4 servers, rival removals in terms 1 and 2 | `LeaderCompleteness` **is violated** |
| `removed_leader` | 2 voters with tick counters, removal of the leader `s1` by itself, a partition around the removal that heals | `LeaderReturns` **is violated** |
| `sticky` | 3 servers with tick counters, one unusual timeout | `LeaderIgnoresVotes` **is violated** |

**Cluster's bounds.** Elections can be started by some servers, in some terms
(`Campaigns`); terms, log length and crashes are bounded (`MaxTerm`, `MaxLog`,
`MaxCrashes`) by guards that refuse a step beyond the bound. Two terms are enough
for a vote, a crash and a second election to race; figure 8 needs four terms and
three log positions (two of them contested), with batches of one entry so that a
follower can hold half of what the leader sent. One crash can fall on either
fsync of any event. A log of three entries holds the no-ops of two leaders and a
command, or a no-op, a membership change and another leader's no-op. A snapshot
threshold of one makes every applied entry cross the compaction boundary, and
`snapshot` reaches both branches of `installSnapshot`. In `membership` the second
leader comes from the transfer.

**Missing links.** `Links` names the pairs of servers whose messages are not all
lost. In `figure8` and `elect` the two servers that campaign reach each other only
through the third one's log and votes; in `snapshot` everything goes through one
server. A link that always loses is one of the network's behaviours, and it
removes the messages that matter least in these scenarios.

**Symmetry** is declared between servers the instance treats alike (the two that
campaign, or the two that only follow) and between the keys of `linear`; no run
with a liveness property declares any. **The view** of `MCCluster` leaves out of
`net` the answers that their receiver will ignore in every later state: answers
to elections whose term has passed or whose candidate has decided,
acknowledgements for a leadership that is over. Terms on disk never go back
(`VotesStand`) and a server leads at most once in a term, so an ignored answer
stays ignored and the states it distinguishes have the same future. Of the
properties only one reads `net`: `GrantedVotesDurable` is checked of the votes that may still
be counted, the ones the view keeps; the theorem shows it of all of them.
`MCService` has a view for the runs whose messages are never forgotten: a watchdog
may fire at any time and reach any server, so the target, the scheduled retry and
redirects add nothing to what can happen. `answered` uses no view.

**Service's bounds.** One operation per client, but two copies of each in the log,
which is what retries can do; two changes of leader let a second leader take a command the
first one has; one crash meets snapshots of every size.

**Timing's bounds.** An election timeout of three ticks (two in `sticky`) and a
heartbeat of one leave room for every order of the counters. Usual timeouts
differ between servers, which is what the randomization achieves sooner or later;
`MaxUnlucky` lets a server draw another one, such as one that collides. `MaxFaults` bounds
losses, partitions, delays and unlucky timeouts together. In `join` the removal may come
before the addition, where it leaves a single voter, or after it, and remove the leader or a
follower; commands and removals are proposed up to the third index of the log, which leaves room for any
two of a command, the addition and the removal before them. A partition cuts off the new
server; the one that cuts off a leader in the middle of its own removal is the
subject of `removed_leader`. No timeout counts in the
last term, which could make a cluster look settled that is not; but `settle` and
`join` never reach their last term, so that this bound refuses nothing.

**Linearizability's bounds.** Three operations on two keys over four instants:
two concurrent writes and a read that tells their order, an operation invoked at the
instant of another's response, two operations one after the other, operations
without answers, and keys that must be judged apart. A CAS may expect any value
written to its key, as in `checker/linear_test.go`.

**Deadlock** is checked in the runs of `Cluster`: even when every bound is reached a
server can refuse a proposal, or take an event that changes nothing. The service
stops when every operation is answered and the bounds are used up, the timed
cluster when its last term is reached, and the linearizability checker when it has
decided.

**Fairness.** The runs of `Cluster` and `linear` assume none. `Service!Fairness`: the
watchdog of an operation in flight fires again and again and, its server being
random, asks each server infinitely often (`armWatchdog`, `sendReq`); a
request or answer that is sent infinitely often arrives and is handled (strong
fairness, since each copy may be lost); crashed servers restart
(`Faults.RestartMean`); a leader that lasts commits what it took into its log, and
servers apply what is committed. `Answered` is conditional on some leader lasting, which is
what `Convergence` shows below it. `Timing!Fairness`: clocks tick and messages that are
not lost arrive (the event queue runs every event that was scheduled), and
partitions heal (`Faults.PartitionMean`, and at the latest the quiet tail).

### 3.1 Findings

* `unsafe_change`: `proposeConfChange` lets a leader start a membership change
  before it has committed an entry of its own term. TLC shows two leaders of
  successive terms each removing a server, the second without having seen the
  first's entry: the two configurations need not share a quorum, a committed entry
  is lost and Leader Completeness (SPEC.md 4.1) fails.
* `removed_leader`: a server that is not in the configuration of its own log never
  campaigns (`promotable`), even while the entry that removes it is not committed. A leader of
  two voters removes itself and is cut off before the entry has reached the other one. After the
  partition the old leader does not campaign, and refuses the other one's vote because its own log is
  longer: the cluster has no leader ever again, though both voters run and hear each
  other. Without the removal, the same partition does no harm. With four voters
  the same needs another one down, and lasts until that one is back.
* `sticky`: `becomeLeader` does not reset `electionElapsed`, and a leader's ticks do
  not count it. A candidate whose own, longer timeout let it win with a counter past
  `electionTicks` therefore has no stickiness for as long as it leads: one
  server that has not heard of it deposes it, though everybody else follows it.

Four more differences are noted without a run. When an AppendEntries starts below the
follower's snapshot, `handleApp` compares the term at the snapshot's index with the
term of the message's own previous entry, and may refuse entries that match, against
the comment above that code; the hint it answers with is right, so that this costs a
round trip and nothing else. DECISIONS.md D-010 promotes a
joining server when it is *near* the leader's last index, the code when it has
reached it. And while a leadership transfer refuses commands and membership
changes, it does not refuse the promotion of a server that was already catching
up; `OnlyPromotionDuringTransfer` says that this is the only exception. And an entry
of client 0, which is reserved for what is not a command, is answered by nobody:
`Service` treats it as an entry that nobody waits for.

## 4. What is proved

The theorems hold for every finite set of servers, every configuration, value
set, link set, snapshot threshold and bound, with pre-vote or without; those of
`Service` for all sets of clients, keys and servers, those of `Linearizability` for
histories of any length, with any clients and keys.

| module | theorem | says |
|---|---|---|
| `ClusterProofs` | `TypeCorrect` | `Spec => []TypeOK` |
| | `GrantedVotesAreDurable` | `Spec => []GrantedVotesDurable` |
| | `VotesNeverChange` | `Spec => VotesStand` |
| | `FixedMembersElectionSafety` * | `Spec => []ElectionSafety` |
| | `DurabilityInvariant` | `Spec => []DurabilityInv`: stores and live nodes agree between any two events |
| | `RestartGivesBack` | a restart at any time gives a server back its term, vote, log and snapshot |
| | `RestartRebuildsAll` | `Spec => []RestartRebuilds`, if `SnapshotThreshold = 0` or `ConfChanges = {}` |
| | `FullLogConfigFollows` | `Spec => []ConfigFollowsLog`, if `SnapshotThreshold = 0` |
| `SafetyProofs` | `SafetyInvariant` * | `Spec => []SafetyInv`: there is a history of which the cluster tells the truth |
| | `LogsMatch` * | `Spec => []LogMatching` |
| | `LeadersAreComplete` * | `Spec => []LeaderCompleteness` |
| | `NothingCommittedTwice` * | `Spec => []CommittedOnce` |
| | `ApplicationsAgree` * | `Spec => []StateMachineSafety` |
| | `AppliedWasCommitted` * | `Spec => []AppliedIsCommitted` |
| | `CountedIsDurable` * | `Spec => []MatchIsDurable` |
| | `NeverPanics` * | `Spec => []NoPanic` |
| | `CommitsNeverFall` * | `Spec => CommitsStand` |
| | `ClusterReplicatesLog` * | `Spec => ImplementsReplicatedLog` |
| `MembershipProofs` | `TransferPromotesOnly` | `Spec => OnlyPromotionDuringTransfer`, if `SnapshotThreshold = 0` or `ConfChanges = {}` |
| | `Membership` | `Spec => []MemberInv`, if `SnapshotThreshold = 0`: as long as no term has had two leaders, stores, nodes and messages hold what is rooted in the leaders' logs |
| | `LogsMatchWithChanges` | `Spec => [](ElectionSafety => LogMatching)`, if `SnapshotThreshold = 0` |
| | `OneConfigAtATime` | `Spec => [](ElectionSafety => OneConfigInFlight)`, if `SnapshotThreshold = 0` |
| `TimingProofs` | `TimingTyped` | `Spec => []TypeOK`, of the timed cluster |
| | `TransfersEnd` | `Spec => []ProposalsResume` |
| | `LeadersAreAnswered` | `Spec => []IsolatedLeaderStepsDown` |
| `ReplicatedLogProofs` | `AppliedPrefixes` | `Spec => []PrefixInv`: applications and snapshots are prefixes of one log |
| `ServiceProofs` | `ServiceTyped` | `Spec => []TypeOK` |
| | `ServiceFollowsLog` | `Spec => []StoreFollowsLog` |
| | `ServiceExactlyOnce` | `Spec => []ExactlyOnce` |
| | `ServiceLinearizable` | `Spec => Atomic!Spec`: every behaviour of clients, retries, crashes and snapshots is one of an atomic map |
| | `ServiceUsesLog` | `Spec => Raft!Spec`: the service does with the log only what `ReplicatedLog` allows |
| `LinearizabilityProofs` | `AcceptedIsLinearizable` | `Spec => []AcceptsOnlyLinearizable` |
| | `RejectedIsIllegal` | `Spec => []RejectsOnlyIllegal` |

The theorems with a * assume `ConfChanges = {}`: no membership change is ever
proposed. The rest of the environment is unrestricted: elections by any servers in
any terms, pre-votes, transfers with forced elections, snapshots, crashes at
either fsync, lost, late, duplicated and reordered messages. The hypothesis cannot
be dropped. The code starts a membership change too early (`unsafe_change`), and
Leader Completeness, with all that rests on it, is false where changes are
proposed. A version under the rule that the code leaves out (a leader first commits an
entry of its own term) would be about another program. What survives any changes is
typing, votes, durability, transfers, and the two theorems on logs described under *Membership changes*.

Together, `ClusterReplicatesLog` and `ServiceLinearizable` cover the path from a
client's call to a disk: with fixed members the cluster is a replicated log, and on a
replicated log the service is an atomic map.

**Assumptions.** The named assumptions in `RaftLog`, `RaftNode`, `Cluster`,
`Timing`, `KVStore`, `Service` and `Linearizability`: the set of servers is finite and does not contain `None`,
the initial configuration is a non-empty part of it, batches hold at least one
entry, `NoValue` and `Absent` are not values, the rest are typings. TLC evaluates
them in every run.

**Votes.** `GrantedVotesDurable` is not inductive by itself: a live node could hold
a term and vote that its disk does not have, and grant from there. The invariant
`VoteInv` adds `HardStateSaved`: between two events, a live server's term and vote
are the ones on its disk. It is preserved because a step that changes either marks
the hard state dirty, so that the fsync saves it before any message leaves.
`RaftNodeProofs` shows this for every method: `Quiet` relates a node to one that has
the same term and vote and has granted no new vote, `Follows` to one whose term
and vote have moved legally, with the dirty mark set if they moved and every
granted vote in the output equal to the final one. `Follows` composes, so each
handler is a chain of a few methods, and `Receive`, `Campaign`, `TickLeader` and the
proposals all follow. `ClusterProofs` then treats the output once
(`HandleOutputStep`) for all events. The type part needs facts about logs
(`RaftNodeProofs`): slices, truncation, compaction and the store's `Apply` keep
sequences of entries, and the newest configuration record exists.

**One leader.** `ElectionInv` adds that members stay the initial ones in every
log, snapshot, message and configuration (`AllStatic`), that a vote in flight
binds its sender (`VotesBind`), and that who led a term had the votes of a
majority (`LeadersElected`). Two majorities of one set of voters meet,
and the server in both has cast one vote.

**Durability.** Between two events a live server's store is its log and its
snapshot. Within a step it is not: entries are appended, truncated, compacted or
replaced in memory, and the `Persist` is built from marks (`appendedFrom`,
`snapDirty`). `Tracks` and `Ready` say how the marks relate the old store to the new log
after every method; `PersistSaves` shows that the fsync then makes them equal and
finds no gap. It rests on `WellLogged`: entry `k` of a log has index `snapIndex + k`, in
memory, on disk and in every message. What a restart reads back follows. The
configuration history is rebuilt too, but `ConfigFollowsLog` is proved only without
snapshots: with them it needs that a snapshot's configuration is the one of the
entries it covers, for which the snapshot received must come from the same log.

**Histories.** The state shows the present, and Raft's argument is about the past: who
voted for which log, what a leader's log had grown to before it was deposed, what a
follower held when it acknowledged. The second part of `RaftNodeProofs` speaks of a *history*: for
every server its term, and for every term its vote, the log it stood for election with, the
log it had when it left the term; and for every term its leader and that leader's log.
An entry is `Chosen` when a majority held it in its own term, and
`Open` when a majority has held it or may still come to. `HistoryInv` is the
inductive core: leaders' logs agree with those of earlier leaders (`LedOK`, `PastOK`), a
later leader has every open entry (`Inherited`), who held one still has it
(`Kept`) and votes only for candidates that have it (`Supported`). A history moves
in three ways: a server goes to a later term or votes (`Ballot`), catches up with its leader
(`Catch`), or appends as a leader (`Lead`), and each keeps `HistoryInv`.

`SafetyInv` in `SafetyProofs` is `ElectionInv /\ DurabilityInv /\ Told`, where `Told`
says that there *is* such a history of which every store, live node, message
in flight and observed commitment tells the truth (`Tells`): a request quotes the
candidate's log, an AppendEntries carries a part of its leader's log with a commit
index no further than what is chosen, an acknowledgement names what its sender
held, a snapshot is a committed prefix. No ghost variable is added to the model; the
existential quantifier stands for it. Every method of a node, in the middle of a
step, takes `Good` (the truth so far) to `Good` of the same or a moved history,
so that handlers are chained like their Go calls; the fsync ends the move, or
undoes none of it if the server crashes there, because the history then keeps the old one. Each
of the eight properties follows from `SafetyInv` in a few lines. The parts of
`HistoryInv` were checked by TLC with the history as additional variables, on the
instances `elect`, `figure8` and `snapshot`, before they were proved.

**The refinement.** `CommittedLog` lists the observed commitments by index. It is a
sequence of the abstract specification's kind if the indexes have no gap
(`Gapless`), which is a second invariant: what a step commits starts where
the server's application stood. `Effect` says what one event, crashes at its fsyncs
included, does to commitments, application and snapshot; `EffectMaps` turns it
into `Step`, `Fail` or `Recover` of `ReplicatedLog`. That a snapshot on disk is never
replaced by an older one (`Advanced`) is used here.

**Transfers.** `OnlyPromotionDuringTransfer` compares a leader before and after an event.
The log of a leader grows in three places: a client's proposal and a membership change, which
a pending transfer refuses, and `promoteLearner`. `HandsOver` states the property for one node, and
each method either leaves log, learner and transferee alone (`Calm`), or ends the lead or the
transfer, or appends the promotion; where a message arrives, only the last step of the chain of
calls can be that promotion (`NextHandsOver`). A snapshot that a leader takes meanwhile leaves its
log as the property sees it, because the snapshot's data are the entries it replaces; that is
part of `SafetyInv`, hence the hypothesis: with membership changes *and* snapshots the application may
hold other entries.

**Membership changes.** `OneConfigInFlight` looks at one log, but why it holds lies
elsewhere: `proposeConfChange` asks whether the last configuration *in the leader's log* is committed,
and that entry may come from a leader of another term. So the log of every leader matters, also of one
that has crashed since. `MemberInv` says that there is a function `L` from terms to logs,
the log of each term's leader as far as it got (`Traced`). The logs of `L`
are `RootedIn` each other: an entry of term `t` at index `k` means that the log agrees with `L[t]` up to `k`.
In each of them all configurations but the last were seen committed (`AllButLast`). Stores,
live nodes and AppendEntries in flight quote `L` (`LogsRooted`, `InOffice`, `AppsQuoted`). `LogMatching` follows
at once, and `OneConfigInFlight` because the log of any server ends in the part of some leader's log.
`L` grows in two ways. A leader appends (`LeadersLogGrows`): a no-op, a command, a removal, which
`ConfigPending` refuses while the last configuration is above the commit index, or the promotion of its
learner, for which the guard is *not* asked again; `InOffice` therefore says that a leader with a learner has
only committed configurations in its log. Or a server takes office, and its log becomes that of a new term. A
follower that takes an AppendEntries splices a part of `L[m.term]` onto an equal
prefix (`SplicedAgrees`). As a leader's step may commit an entry and append the next one in the
same event, what is committed is judged after the step: `committed` only grows, so a log that
was in order stays so.

Both theorems are conditional on `ElectionSafety`. That is no convenience: with the same rival
removals as in `unsafe_change` the code can elect two leaders in one term. In term 1 `s1` leads and removes `s4`; in
term 2 `s2`, which has not heard of it, leads and removes `s1`; then `s2` restarts, and in term 3 `s1` wins with `s3` by its
configuration `{s1, s2, s3}`, and `s2` with `s4` by its own, `{s2, s3, s4}`. TLC finds this behaviour
in 24 steps when `s1` may campaign in terms 1 and 3, `s2` in terms 1 to 3, with one crash, and the search is
kept to logs without replication; it is not a run here. Two leaders of a term have two logs for it, and no `L` exists.
The condition is about the whole past: `leaders` is never cleared, so that
`ElectionSafety`, once false, stays false. With `ConfChanges = {}` it is a theorem, and where changes are
proposed `LogsMatch` is replaced by `LogsMatchWithChanges`. Snapshots are left out
for two reasons: a leader that crashes at the snapshot's fsync in the event in which it won
enters no record, and without fixed members nothing says yet that a snapshot's entries are those of `L`.

**Timeouts.** A leader that hears from nobody clears `recentActive` at each CheckQuorum
and steps down at the next one that finds no majority active. `IsolatedLeaderStepsDown`
counts its silence (`silent`) against that period and is not inductive: it says nothing of
who is still marked active. `TimelyInv` adds it (`Attended`): a leader whose quorum is more
than itself has been silent for at most the ticks of its current period, or for at most one
period more, and then no other voter is marked active. At the end of the period the
second case cannot stay in office, because a quorum of two or more needs an active voter
other than the leader (`OneIsNoQuorum`). What makes it inductive is a fact about every
method of a node: without an answer it marks nobody active, and a leader
that was in office before has no voter it did not have (`Stays`); a
transfer may end but not begin (`Ends`), except in `TransferLeadership`, which resets its
counter. A leader may come to lead only itself, by removing the others or as the only voter left (`Alone`),
and is then exempt. TLC checked `TimelyInv` on `settle` before it was proved; `join` checks
the property where voters are added and removed.

**The service.** Three layers of one invariant. `TInv`: types, with well-formed
commands and stores that a snapshot gives back unchanged (`RestoreEncode`). `FInv`:
`stores` is the history of the store over the log; every live store and every snapshot is
the entry of that history at its length, and a command's effect is recorded at
the index where the history's session first holds it, from which `StoreFollowsLog`
and `ExactlyOnce` follow. `LInv`: only issued commands are in offers, log and
messages; the committed store's session of a client is never ahead of the client; and
every answer in the network that can still be accepted is the result in that
session. With it each action maps to a step of `AtomicKV` or to a stutter: `Commit`,
`ProposeAlone` and `ProposeAloneCrash` of a first copy take effect, an accepted answer returns, and the
rest changes nothing that clients see.

**The linearizability checker.** `Linearizable` speaks of one order of all the
operations and of a store, `checkKey` of a register and of the operations on one key, and it
never looks at an order as a whole. The proof has two parts. *Locality*: a history is linearizable
exactly if the operations on each key are `Explained` from the absent register
(`LinearizableByKey`). From an order of all the operations the explanation of a key is
read off; the other way, explanations are merged: an operation takes effect at the latest
invocation among those up to it in its key's explanation (`Point`), which is never after its
response, and the merged order is the order of these points, ties broken by key and then by place
in the explanation. *The search*: `SearchInv` says that the stack of open calls is the beginning
of an explanation (`Path`), that what each call has tried begins none (`Passed`), and that a pair in the memo
is either `Dead`, without explanation, or one of the open calls. The last disjunct is
what makes the memo right although a pair is entered before its call returns: an open call
has linearized less than the innermost one, so that whenever the memo cuts a call off, the pair is
dead. The loop loses nothing because the first operation of an
explanation is always a candidate (`WhatBegins`). Histories
are finite but of no fixed length; where the argument needs induction, it goes through the
set of the naturals for which the claim holds (`AllNat`), as the library's
induction theorems cannot be instantiated. TLC checked the conjuncts of `SearchInv` on the
instance of `linear`, with `Explained` computed by recursion, before they were proved.

**Only model-checked.** `OneConfigInFlight` without the condition on leaders: `membership` checks it
on an instance where no term has two leaders (TLC finds `ElectionSafety` and `LogMatching` true there as well).
Where snapshots and membership changes come together, `OneConfigInFlight`,
`OnlyPromotionDuringTransfer` and `RestartRebuilds` are neither proved nor checked: `membership`
has changes without snapshots, and `join`, which has both, checks `SnapshotConfigs` (in every server the configuration
in force is that of its log, and the snapshot's that of the entries it covers) and `Convergence`. Out of
the prover's reach are liveness (`Answered`, `Convergence`) and `ENABLED`; that the search
of the linearizability checker ends is not stated. No module here declares a recursive operator,
so that all of them can be proved about.

## 5. What is not modelled

* Probabilities and delay distributions, `MaxDown` and clocks that run at different speeds:
  the models allow any order of events, or rounds.
* The incremental scans of `checker/invariants.go` (verified offsets, log chains):
  what they look for is stated as properties, how they look for it is not modelled.
* The byte formats of `kv/codec.go` and of configurations: a snapshot is what it lists.
* The event queue and the trace (any order of events is allowed; text), the soak
  runner, the command line and the import lint (no state of their own).
* The panic of the linearizability checker beyond twenty million calls.

## 6. Where it could go next

1. Proofs with snapshots and membership changes together: `ConfigFollowsLog`, `RestartRebuilds`
   and `MemberInv`, which need a snapshot's entries and configuration to be those of the leaders' logs, and
   a record of leaders that a crash in the same event does not escape.
2. The checker of `checker/invariants.go` against the properties it stands for,
   the entries committed and compacted in one event included.
3. Clocks of different speeds in `Timing`, as far as `Faults` lets them differ.
