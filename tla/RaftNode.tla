------------------------------ MODULE RaftNode ------------------------------
(***************************************************************************)
(* One Raft node (raft/node.go, raft/membership.go, raft/snapshot.go).     *)
(*                                                                         *)
(* The Go node is a deterministic state machine: Step takes one input and  *)
(* leaves behind a new state and an Output.  Here a node is a record and   *)
(* every method is an operator from nodes to nodes; the Output under       *)
(* construction is part of the record (out, hsDirty, appendedFrom,         *)
(* snapDirty, applied), as it is in the Go struct.                         *)
(*                                                                         *)
(* Timers are abstracted: the operators take as parameters the outcomes    *)
(* of the comparisons the code makes on tick counters.                     *)
(***************************************************************************)
EXTENDS RaftLog

CONSTANTS
    PreVote,     \* Params.PreVote
    MaxBatch     \* Params.MaxEntriesPerMsg

ASSUME ParamsAssumption == PreVote \in BOOLEAN /\ MaxBatch \in Nat \ {0}

OptServer == Server \cup {None}

States == {"Follower", "PreCandidate", "Candidate", "Leader"}

(***************************************************************************)
(* Messages: of raft.Message, each type carries the fields it uses.        *)
(***************************************************************************)
VoteReq ==
  [type : {"Vote"}, from : Server, to : Server, term : Nat, preVote : BOOLEAN,
   force : BOOLEAN, lastLogIndex : Nat, lastLogTerm : Nat]

VoteResp ==
  [type : {"VoteResp"}, from : Server, to : Server, term : Nat,
   preVote : BOOLEAN, granted : BOOLEAN]

App ==
  [type : {"App"}, from : Server, to : Server, term : Nat, prevLogIndex : Nat,
   prevLogTerm : Nat, entries : Seq(Entry), commit : Nat]

AppResp ==
  [type : {"AppResp"}, from : Server, to : Server, term : Nat,
   success : BOOLEAN, matchIndex : Nat, conflictIndex : Nat, conflictTerm : Nat]

Snap ==
  [type : {"Snap"}, from : Server, to : Server, term : Nat, snapshot : Snapshot]

SnapResp ==
  [type : {"SnapResp"}, from : Server, to : Server, term : Nat, matchIndex : Nat]

TimeoutNow == [type : {"TimeoutNow"}, from : Server, to : Server, term : Nat]

Message == VoteReq \cup VoteResp \cup App \cup AppResp \cup Snap \cup SnapResp
             \cup TimeoutNow

(***************************************************************************)
(* The node.  NoProgress stands for a nil *progress, "none" for a server   *)
(* missing from the votes map.  panic records that the code would have     *)
(* stopped the program.                                                    *)
(***************************************************************************)
NewProgress(next) ==
  [next |-> next, match |-> 0, recentActive |-> FALSE, pendingSnap |-> FALSE]

NoProgress == NewProgress(0)

Progress ==
  [next : Nat \ {0}, match : Nat, recentActive : BOOLEAN, pendingSnap : BOOLEAN]
    \cup {NoProgress}

Node ==
  [id : Server, state : States, term : Nat, votedFor : OptServer, log : Log,
   commitIndex : Nat, lastApplied : Nat, leaderID : OptServer,
   confHistory : SUBSET ConfRecord, votes : [Server -> {"none", "yes", "no"}],
   prs : [Server -> Progress], transferee : OptServer, learner : OptServer,
   snapshot : Snapshot,
   out : SUBSET Message, hsDirty : BOOLEAN, appendedFrom : Nat,
   snapDirty : {"none", "keep", "replace"}, applied : Seq(Entry),
   panic : BOOLEAN]

NoVotes == [s \in Server |-> "none"]

NoPeers == [s \in Server |-> NoProgress]

Config(n) == CfgOf(n.confHistory)

\* configIndex > commitIndex: the newest configuration is not committed.
ConfigPending(n) == \E r \in n.confHistory : r.index > n.commitIndex

\* Faulty variant: the configuration entries of the log are not read back.
RestartForgetsConfigs(i, d) ==
  LET cfg == IF d.snap = NoSnapshot THEN InitialVoters ELSE d.snap.config
  IN  [id |-> i, state |-> "Follower", term |-> d.term, votedFor |-> d.votedFor,
       log |-> AppendLog(ResetLog(d.snap.index, d.snap.term), d.entries),
       commitIndex |-> d.snap.index, lastApplied |-> d.snap.index,
       leaderID |-> None, confHistory |-> InitConfHistory(d.snap.index, cfg),
       votes |-> NoVotes, prs |-> NoPeers, transferee |-> None, learner |-> None,
       snapshot |-> d.snap,
       out |-> {}, hsDirty |-> FALSE, appendedFrom |-> 0, snapDirty |-> "none",
       applied |-> <<>>, panic |-> FALSE]

\* newNode: the state that the durable store d gives back, everything else
\* being volatile.
RestartNode(i, d) ==
  LET cfg == IF d.snap = NoSnapshot THEN InitialVoters ELSE d.snap.config
  IN  [id |-> i, state |-> "Follower", term |-> d.term, votedFor |-> d.votedFor,
       log |-> AppendLog(ResetLog(d.snap.index, d.snap.term), d.entries),
       commitIndex |-> d.snap.index, lastApplied |-> d.snap.index,
       leaderID |-> None,
       confHistory |-> InitConfHistory(d.snap.index, cfg) \cup ConfigRecords(d.entries),
       votes |-> NoVotes, prs |-> NoPeers, transferee |-> None, learner |-> None,
       snapshot |-> d.snap,
       out |-> {}, hsDirty |-> FALSE, appendedFrom |-> 0, snapDirty |-> "none",
       applied |-> <<>>, panic |-> FALSE]

(***************************************************************************)
(* The output of a step.                                                   *)
(***************************************************************************)
\* Step clears the output on entry; clearing it on exit instead keeps the
\* states between two steps free of the last output.
Settled(n) ==
  [n EXCEPT !.out = {}, !.hsDirty = FALSE, !.appendedFrom = 0,
            !.snapDirty = "none", !.applied = <<>>]

NeedsFsync(n) == n.snapDirty # "none" \/ n.hsDirty \/ n.appendedFrom # 0

PersistOf(n) ==
  [hs |-> n.hsDirty, term |-> n.term, votedFor |-> n.votedFor,
   snap |-> n.snapDirty, snapshot |-> n.snapshot,
   entries |-> IF n.appendedFrom = 0 THEN <<>>
               ELSE Slice(n.log, n.appendedFrom, LastIndex(n.log) + 1, 0)]

Send(n, msgs) == [n EXCEPT !.out = @ \cup msgs]

\* Faulty variant: appended entries are not persisted.
MarksNothing(n, i) == n.appendedFrom

MarkAppended(n, i) ==
  IF n.appendedFrom = 0 \/ i < n.appendedFrom THEN i ELSE n.appendedFrom

(***************************************************************************)
(* Replication by the leader.                                              *)
(***************************************************************************)
ReplicationTargets(n) == (Config(n) \cup ({n.learner} \ {None})) \ {n.id}

\* Faulty variant: off by one before the first entry.
PrevIndexTooLow(pr) == pr.next - 2

PrevIndex(pr) == pr.next - 1

\* Faulty variant: off by one at the first entry of the log.
NeedsSnapshotLate(n, to) ==
  n.prs[to] # NoProgress /\ n.prs[to].next < n.log.snapIndex

\* sendAppend falls back on a snapshot when the log starts after next.
NeedsSnapshot(n, to) ==
  n.prs[to] # NoProgress /\ n.prs[to].next <= n.log.snapIndex

AppsFor(n, to) ==
  LET pr == n.prs[to] IN
  IF pr = NoProgress THEN {}
  ELSE IF NeedsSnapshot(n, to)
  THEN IF pr.pendingSnap THEN {}
       ELSE {[type |-> "Snap", from |-> n.id, to |-> to, term |-> n.term,
              snapshot |-> n.snapshot]}
  ELSE {[type |-> "App", from |-> n.id, to |-> to, term |-> n.term,
         prevLogIndex |-> PrevIndex(pr), prevLogTerm |-> TermAt(n.log, PrevIndex(pr)),
         entries |-> Slice(n.log, pr.next, LastIndex(n.log) + 1, MaxBatch),
         commit |-> n.commitIndex]}

\* The panics of sendAppend and sendSnapshot: an entry to send after is not
\* in the log, or the snapshot to send is nil.
CannotSend(n, to) ==
  /\ n.prs[to] # NoProgress
  /\ IF NeedsSnapshot(n, to)
     THEN ~n.prs[to].pendingSnap /\ n.snapshot = NoSnapshot
     ELSE ~HasTerm(n.log, PrevIndex(n.prs[to]))

\* sendAppend to every server of the set.
SendAppends(n, targets) ==
  [n EXCEPT
     !.out = @ \cup UNION {AppsFor(n, to) : to \in targets},
     !.prs = [s \in Server |->
                IF s \in targets /\ NeedsSnapshot(n, s)
                THEN [@[s] EXCEPT !.pendingSnap = TRUE] ELSE @[s]],
     !.panic = @ \/ \E to \in targets : CannotSend(n, to)]

BroadcastAppend(n) == SendAppends(n, ReplicationTargets(n))

(***************************************************************************)
(* Commitment.                                                             *)
(***************************************************************************)
ApplyCommitted(n) ==
  IF n.commitIndex <= n.lastApplied THEN n
  ELSE [n EXCEPT
          !.applied = @ \o Slice(n.log, n.lastApplied + 1, n.commitIndex + 1, 0),
          !.lastApplied = n.commitIndex]

BecomeFollower(n, term, leader) ==
  [n EXCEPT
     !.term     = IF term > n.term THEN term ELSE @,
     !.votedFor = IF term > n.term THEN None ELSE @,
     !.hsDirty  = @ \/ term > n.term,
     !.state = "Follower", !.leaderID = leader, !.votes = NoVotes,
     !.prs = NoPeers, !.transferee = None, !.learner = None]

\* A leader outside the configuration it has just committed steps down.
AfterCommit(n) ==
  IF n.state = "Leader" /\ ~ConfigPending(n) /\ n.id \notin Config(n)
  THEN BecomeFollower(n, n.term, None) ELSE n

MatchOf(n, v) == IF v = n.id THEN LastIndex(n.log) ELSE n.prs[v].match

\* The largest index that a quorum of the configuration has reached.
QuorumMatch(n) ==
  Max({k \in {MatchOf(n, v) : v \in Config(n)} :
         Cardinality({v \in Config(n) : MatchOf(n, v) >= k}) >= Quorum(Config(n))})

\* Faulty variant: entries of older terms are committed by counting.
AnyTermCommits(n, k) == TRUE

\* Only an entry of the leader's own term is committed by counting.
CommittableAt(n, k) == TermAt(n.log, k) = n.term

MaybeCommit(n) ==
  LET k == QuorumMatch(n)
      c == AfterCommit(ApplyCommitted([n EXCEPT !.commitIndex = k]))
  IN  IF n.state = "Leader" /\ k \in n.commitIndex + 1 .. LastIndex(n.log)
         /\ CommittableAt(n, k)
      THEN IF c.state = "Leader" THEN BroadcastAppend(c) ELSE c
      ELSE n

MaybeCommitThenBroadcast(n) ==
  LET c == MaybeCommit(n) IN IF c.state = "Leader" THEN BroadcastAppend(c) ELSE c

(***************************************************************************)
(* Appending by the leader.  A configuration is in force as soon as its    *)
(* entry is in the log, and its new voters get a progress (setConfig).     *)
(***************************************************************************)
AppendEntry(n, type, data) ==
  LET e == [index |-> LastIndex(n.log) + 1, term |-> n.term, type |-> type,
            data |-> data]
      fresh == IF type = "Config"
               THEN {v \in data \ {n.id} : n.prs[v] = NoProgress} ELSE {}
  IN  [n EXCEPT
         !.log = AppendLog(@, <<e>>),
         !.appendedFrom = MarkAppended(n, e.index),
         !.confHistory = @ \cup ConfigRecords(<<e>>),
         !.prs = [s \in Server |-> IF s \in fresh THEN NewProgress(e.index + 1)
                                   ELSE @[s]]]

Propose(n, v) ==
  IF n.state # "Leader" \/ n.transferee # None THEN n
  ELSE MaybeCommitThenBroadcast(AppendEntry(n, "Normal", v))

(***************************************************************************)
(* Elections.                                                              *)
(***************************************************************************)
BecomeLeader(n) ==
  LET peers == Config(n) \ {n.id}
      lead  == [n EXCEPT
                  !.state = "Leader", !.leaderID = n.id, !.votes = NoVotes,
                  !.transferee = None,
                  !.prs = [s \in Server |->
                             IF s \in peers THEN NewProgress(LastIndex(n.log) + 1)
                             ELSE NoProgress]]
  IN  BroadcastAppend(MaybeCommit(AppendEntry(lead, "Noop", None)))

OwnVote(n) == [NoVotes EXCEPT ![n.id] = "yes"]

BecomePreCandidate(n) ==
  [n EXCEPT !.state = "PreCandidate", !.leaderID = None, !.votes = OwnVote(n)]

BecomeCandidate(n) ==
  [n EXCEPT !.term = @ + 1, !.votedFor = n.id, !.hsDirty = TRUE,
            !.state = "Candidate", !.leaderID = None, !.votes = OwnVote(n)]

VotesReach(n, answer) ==
  Cardinality({v \in Config(n) : n.votes[v] = answer}) >= Quorum(Config(n))

RequestVotes(n, term, pre, force) ==
  Send(n, {[type |-> "Vote", from |-> n.id, to |-> v, term |-> term,
            preVote |-> pre, force |-> force,
            lastLogIndex |-> LastIndex(n.log), lastLogTerm |-> LastTerm(n.log)] :
           v \in Config(n) \ {n.id}})

\* campaign(false, force)
Elect(n, force) ==
  LET c == BecomeCandidate(n) IN
  IF VotesReach(c, "yes") THEN BecomeLeader(c)
  ELSE RequestVotes(c, c.term, FALSE, force)

\* campaign(true, force): a single voter goes straight to the election.
PreElect(n, force) ==
  LET c == BecomePreCandidate(n) IN
  IF VotesReach(c, "yes") THEN Elect(c, force)
  ELSE RequestVotes(c, c.term + 1, TRUE, force)

Campaign(n, pre, force) ==
  IF n.id \notin Config(n) THEN n
  ELSE IF pre THEN PreElect(n, force) ELSE Elect(n, force)

\* Faulty variant: a log as long as one's own is refused.
OnlyLonger(n, lastIndex, lastTerm) ==
  \/ lastTerm > LastTerm(n.log)
  \/ lastTerm = LastTerm(n.log) /\ lastIndex > LastIndex(n.log)

LogUpToDate(n, lastIndex, lastTerm) ==
  \/ lastTerm > LastTerm(n.log)
  \/ lastTerm = LastTerm(n.log) /\ lastIndex >= LastIndex(n.log)

\* Leader stickiness; fresh says that electionElapsed is below the timeout.
Sticky(n, m, fresh) == ~m.force /\ n.leaderID # None /\ fresh

VoteReply(n, m, term, pre, granted) ==
  {[type |-> "VoteResp", from |-> n.id, to |-> m.from, term |-> term,
    preVote |-> pre, granted |-> granted]}

HandlePreVote(n, m, fresh) ==
  LET granted == /\ m.term > n.term
                 /\ LogUpToDate(n, m.lastLogIndex, m.lastLogTerm)
                 /\ ~Sticky(n, m, fresh)
  IN  Send(n, VoteReply(n, m, IF granted THEN m.term ELSE n.term, TRUE, granted))

\* Faulty variant: a second vote in the same term.
VotesAgain(n, m) == TRUE

CanVote(n, m) == n.votedFor \in {None, m.from}

\* Faulty variant: the vote is sent without being persisted.
VotesUnsaved(n, m) ==
  LET granted == CanVote(n, m) /\ LogUpToDate(n, m.lastLogIndex, m.lastLogTerm)
      reply   == VoteReply(n, m, n.term, FALSE, granted)
  IN  IF granted THEN Send([n EXCEPT !.votedFor = m.from], reply) ELSE Send(n, reply)

HandleRealVote(n, m) ==
  LET granted == CanVote(n, m) /\ LogUpToDate(n, m.lastLogIndex, m.lastLogTerm)
      reply   == VoteReply(n, m, n.term, FALSE, granted)
  IN  IF granted THEN Send([n EXCEPT !.votedFor = m.from, !.hsDirty = TRUE], reply)
      ELSE Send(n, reply)

HandleVote(n, m, fresh) ==
  IF m.preVote THEN HandlePreVote(n, m, fresh) ELSE HandleRealVote(n, m)

Counted(n, m) ==
  [n EXCEPT !.votes[m.from] = IF m.granted THEN "yes" ELSE "no"]

\* Answers to a pre-vote: a grant carries the term the candidate would have.
HandlePreVoteResp(n, m) ==
  LET c == Counted(n, m) IN
  IF m.granted
  THEN IF m.term # n.term + 1 THEN n
       ELSE IF VotesReach(c, "yes") THEN Campaign(c, FALSE, FALSE) ELSE c
  ELSE IF VotesReach(c, "no") THEN BecomeFollower(c, c.term, None) ELSE c

HandleRealVoteResp(n, m) ==
  LET c == Counted(n, m) IN
  IF VotesReach(c, "yes") THEN BecomeLeader(c)
  ELSE IF VotesReach(c, "no") THEN BecomeFollower(c, c.term, None) ELSE c

HandleVoteResp(n, m) ==
  IF n.state = "PreCandidate" /\ m.preVote THEN HandlePreVoteResp(n, m)
  ELSE IF n.state = "Candidate" /\ ~m.preVote /\ m.term = n.term
  THEN HandleRealVoteResp(n, m)
  ELSE n

(***************************************************************************)
(* AppendEntries at the receiver, whose term is that of the message.       *)
(***************************************************************************)
AppReply(n, m, success, match, conflictIndex, conflictTerm) ==
  Send(n, {[type |-> "AppResp", from |-> n.id, to |-> m.from, term |-> n.term,
            success |-> success, matchIndex |-> match,
            conflictIndex |-> conflictIndex, conflictTerm |-> conflictTerm]})

\* Faulty variant: an entry is known by its index alone.
SameIndex(l, i, t) == HasTerm(l, i)

SameAt(l, i, t) == HasTerm(l, i) /\ TermAt(l, i) = t

\* Entries the log already has are skipped; from the first that differs on,
\* the log's suffix is replaced, and with it the configurations in it.
AcceptEntries(n, ents) ==
  LET differs  == {k \in 1 .. Len(ents) : ~SameAt(n.log, ents[k].index, ents[k].term)}
      k        == Min(differs)
      at       == ents[k].index
      new      == SubSeq(ents, k, Len(ents))
      conflict == HasTerm(n.log, at)
      base     == IF conflict THEN TruncateFrom(n.log, at) ELSE n.log
      confs    == IF conflict THEN TruncateConfigsFrom(n.confHistory, at)
                  ELSE n.confHistory
  IN  IF differs = {} THEN n
      ELSE [n EXCEPT
              !.log = AppendLog(base, new),
              !.confHistory = confs \cup ConfigRecords(new),
              !.appendedFrom = MarkAppended(n, at),
              !.panic = @ \/ (conflict /\ at <= n.commitIndex)
                          \/ at # LastIndex(base) + 1]

\* The commit index follows the leader's, within what this message covers.
AdvanceCommit(n, commit, lastNew) ==
  LET c == Min({commit, lastNew}) IN
  IF c > n.commitIndex THEN ApplyCommitted([n EXCEPT !.commitIndex = c]) ELSE n

RejectApp(n, m, prev) ==
  IF HasTerm(n.log, prev)
  THEN LET t == TermAt(n.log, prev)
       IN  AppReply(n, m, FALSE, 0, FirstIndexOfTerm(n.log, prev, t), t)
  ELSE AppReply(n, m, FALSE, 0, LastIndex(n.log) + 1, 0)

\* Entries at or below the snapshot are skipped.  The term compared at the
\* snapshot index is still the one the message carries for its own
\* prevLogIndex, as in the code.
HandleAppAsFollower(n, m) ==
  LET covered == m.prevLogIndex < n.log.snapIndex
      skip == IF covered THEN n.log.snapIndex - m.prevLogIndex ELSE 0
      ents == SubSeq(m.entries, skip + 1, Len(m.entries))
      prev == m.prevLogIndex + skip
      lastNew == prev + Len(ents)
  IN  IF covered /\ Len(m.entries) <= skip
      THEN AppReply(n, m, TRUE, n.log.snapIndex, 0, 0)
      ELSE IF ~SameAt(n.log, prev, m.prevLogTerm)
      THEN RejectApp(n, m, prev)
      ELSE AppReply(AdvanceCommit(AcceptEntries(n, ents), m.commit, lastNew),
                    m, TRUE, lastNew, 0, 0)

FollowerOf(n, m) ==
  IF n.state = "Follower" THEN [n EXCEPT !.leaderID = m.from]
  ELSE BecomeFollower(n, m.term, m.from)

HandleApp(n, m) ==
  IF n.state = "Leader" THEN n ELSE HandleAppAsFollower(FollowerOf(n, m), m)

(***************************************************************************)
(* Answers to AppendEntries and InstallSnapshot at the leader.             *)
(***************************************************************************)
Ack(n, from, match) ==
  LET pr == n.prs[from]
      mt == Max({match, pr.match})
  IN  [n EXCEPT !.prs[from] =
         [next |-> Max({mt + 1, pr.next}), match |-> mt,
          recentActive |-> TRUE, pendingSnap |-> FALSE]]

\* Faulty variant: off by one when the learner has caught up.
PromotesNever(n, from) ==
  IF /\ n.state = "Leader" /\ n.learner = from
     /\ n.prs[from] # NoProgress /\ n.prs[from].match > LastIndex(n.log)
  THEN MaybeCommitThenBroadcast(
         AppendEntry([n EXCEPT !.learner = None], "Config", Config(n) \cup {from}))
  ELSE n

\* A learner that has the whole log becomes a voter.
MaybePromoteLearner(n, from) ==
  IF /\ n.state = "Leader" /\ n.learner = from
     /\ n.prs[from] # NoProgress /\ n.prs[from].match >= LastIndex(n.log)
  THEN MaybeCommitThenBroadcast(
         AppendEntry([n EXCEPT !.learner = None], "Config", Config(n) \cup {from}))
  ELSE n

SendTimeoutNow(n, to) ==
  Send(n, {[type |-> "TimeoutNow", from |-> n.id, to |-> to, term |-> n.term]})

CaughtUp(n, s) == n.prs[s] # NoProgress /\ n.prs[s].match = LastIndex(n.log)

\* What the leader does once it knows that the sender has match entries.
\* Only an AppendEntries answer triggers a waiting transfer.
AfterAck(n, from, match, isApp) ==
  LET a == MaybeCommit(Ack(n, from, match))
      b == IF isApp /\ a.transferee = from /\ CaughtUp(a, from)
           THEN SendTimeoutNow(a, from) ELSE a
      c == MaybePromoteLearner(b, from)
  IN  IF a.state # "Leader" THEN a
      ELSE IF c.prs[from].next <= LastIndex(c.log) THEN SendAppends(c, {from})
      ELSE c

\* The conflict hint moves next back, but never below what is known to match.
NextAfterReject(n, m) ==
  LET last  == LastIndex(n.log)
      li    == IF m.conflictTerm = 0 THEN 0 ELSE LastIndexOfTerm(n.log, m.conflictTerm)
      hint  == IF li # 0 THEN li + 1 ELSE m.conflictIndex
      bound == Min({Max({hint, 1}), last + 1})
  IN  Max({bound, n.prs[m.from].match + 1})

IgnoresAck(n, m) ==
  n.state # "Leader" \/ m.term # n.term \/ n.prs[m.from] = NoProgress

HandleAppResp(n, m) ==
  IF IgnoresAck(n, m) THEN n
  ELSE IF m.success THEN AfterAck(n, m.from, m.matchIndex, TRUE)
  ELSE SendAppends([n EXCEPT !.prs[m.from].recentActive = TRUE,
                             !.prs[m.from].next = NextAfterReject(n, m)], {m.from})

HandleSnapResp(n, m) ==
  IF IgnoresAck(n, m) THEN n ELSE AfterAck(n, m.from, m.matchIndex, FALSE)

(***************************************************************************)
(* Snapshots.                                                              *)
(***************************************************************************)
CreateSnapshot(n, index, data) ==
  IF index <= n.log.snapIndex THEN n
  ELSE LET t == TermAt(n.log, index) IN
       [n EXCEPT
          !.log = Compact(@, index, t),
          !.snapshot = [index |-> index, term |-> t,
                        config |-> ConfigAt(n.confHistory, index), data |-> data],
          !.confHistory = PruneConfHistory(@, index),
          !.snapDirty = "keep",
          !.panic = @ \/ index > n.lastApplied \/ ~HasTerm(n.log, index)]

SnapReply(n, m, match) ==
  Send(n, {[type |-> "SnapResp", from |-> n.id, to |-> m.from, term |-> n.term,
            matchIndex |-> match]})

\* The log contains the snapshot's last entry: apply up to it, keep the rest.
InstallKeepingSuffix(n, s) ==
  LET a == ApplyCommitted([n EXCEPT !.commitIndex = s.index])
  IN  [a EXCEPT !.log = Compact(@, s.index, s.term), !.snapshot = s,
                !.confHistory = PruneConfHistory(@, s.index), !.snapDirty = "keep"]

InstallReplacing(n, s) ==
  [n EXCEPT !.log = ResetLog(s.index, s.term), !.commitIndex = s.index,
            !.lastApplied = s.index, !.snapshot = s,
            !.confHistory = InitConfHistory(s.index, s.config),
            !.snapDirty = "replace"]

\* Faulty variant: an old snapshot is installed over newer state.
InstallsAnySnapshot(n, m) ==
  LET f == FollowerOf(n, m)
      s == m.snapshot
  IN  IF SameAt(f.log, s.index, s.term)
      THEN SnapReply(InstallKeepingSuffix(f, s), m, s.index)
      ELSE SnapReply(InstallReplacing(f, s), m, s.index)

HandleSnap(n, m) ==
  LET f == FollowerOf(n, m)
      s == m.snapshot
  IN  IF s.index <= f.commitIndex THEN SnapReply(f, m, f.commitIndex)
      ELSE IF SameAt(f.log, s.index, s.term)
      THEN SnapReply(InstallKeepingSuffix(f, s), m, s.index)
      ELSE SnapReply(InstallReplacing(f, s), m, s.index)

(***************************************************************************)
(* Membership changes and leadership transfer (raft/membership.go).        *)
(***************************************************************************)
\* Faulty variant: a change may start while another is not committed.
ChangesConfigAnytime(n) ==
  n.state = "Leader" /\ n.transferee = None /\ n.learner = None

\* Faulty variant: a change is accepted while the leadership is handed over.
ChangesDuringTransfer(n) ==
  n.state = "Leader" /\ ~ConfigPending(n) /\ n.learner = None

MayChangeConfig(n) ==
  /\ n.state = "Leader" /\ n.transferee = None
  /\ ~ConfigPending(n) /\ n.learner = None

AddServer(n, s) ==
  IF ~MayChangeConfig(n) \/ s \in Config(n) \cup {n.id} THEN n
  ELSE SendAppends([n EXCEPT !.learner = s,
                             !.prs[s] = NewProgress(LastIndex(n.log) + 1)], {s})

RemoveServer(n, s) ==
  IF ~MayChangeConfig(n) \/ s \notin Config(n) \/ Cardinality(Config(n)) = 1 THEN n
  ELSE LET a == AppendEntry(n, "Config", Config(n) \ {s})
           b == IF s = n.id THEN a ELSE [a EXCEPT !.prs[s] = NoProgress]
       IN  MaybeCommitThenBroadcast(b)

TransferLeadership(n, target) ==
  LET t == [n EXCEPT !.transferee = target] IN
  IF n.state # "Leader" \/ target = n.id \/ target \notin Config(n) THEN n
  ELSE IF CaughtUp(n, target) THEN SendTimeoutNow(t, target)
  ELSE SendAppends(t, {target})

\* A forced election, without pre-vote and against stickiness.
HandleTimeoutNow(n, m) ==
  IF n.state = "Leader" THEN n ELSE Campaign(n, FALSE, TRUE)

(***************************************************************************)
(* Ticks.                                                                  *)
(***************************************************************************)
QuorumActive(n) ==
  Cardinality({v \in Config(n) : v = n.id \/ n.prs[v].recentActive})
    >= Quorum(Config(n))

\* Faulty variant: a transfer lasts until the leader steps down.
TransferNeverEnds(n, due) == n

AfterTransferTick(n, due) == IF due THEN [n EXCEPT !.transferee = None] ELSE n

\* Faulty variant: once active, active for ever.
StaysActive(pr) == [pr EXCEPT !.pendingSnap = FALSE]

\* A lost snapshot may be sent again in the next period.
NewPeriod(pr) == [pr EXCEPT !.recentActive = FALSE, !.pendingSnap = FALSE]

\* transferDue, quorumDue, heartbeatDue: which of the leader's counters reach
\* their limit with this tick.
TickLeader(n, transferDue, quorumDue, heartbeatDue) ==
  LET a == AfterTransferTick(n, transferDue)
      b == IF quorumDue
           THEN [a EXCEPT !.prs = [s \in Server |->
                   IF s \in ReplicationTargets(a) /\ @[s] # NoProgress
                   THEN NewPeriod(@[s]) ELSE @[s]]]
           ELSE a
  IN  IF quorumDue /\ ~QuorumActive(a) THEN BecomeFollower(a, a.term, None)
      ELSE IF heartbeatDue THEN BroadcastAppend(b) ELSE b

(***************************************************************************)
(* receive.  A message of an older term is answered or dropped; one of a   *)
(* newer term makes the node a follower of that term first, except for     *)
(* pre-votes, their grants, and votes refused out of leader stickiness.    *)
(***************************************************************************)
StaleReply(n, m) ==
  CASE m.type \in {"App", "Snap"} ->
         AppReply(n, m, FALSE, 0, LastIndex(n.log) + 1, 0)
    [] m.type = "Vote" -> Send(n, VoteReply(n, m, n.term, m.preVote, FALSE))
    [] OTHER -> n

KeepsTerm(m) ==
  \/ m.type = "Vote" /\ m.preVote
  \/ m.type = "VoteResp" /\ m.preVote /\ m.granted

AtMessageTerm(n, m) ==
  IF m.term <= n.term \/ KeepsTerm(m) THEN n
  ELSE BecomeFollower(n, m.term,
                      IF m.type \in {"App", "Snap"} THEN m.from ELSE None)

StickyVote(n, m, fresh) ==
  m.type = "Vote" /\ ~m.preVote /\ m.term > n.term /\ Sticky(n, m, fresh)

Receive(n, m, fresh) ==
  LET a == AtMessageTerm(n, m) IN
  IF m.term < n.term THEN StaleReply(n, m)
  ELSE IF StickyVote(n, m, fresh)
  THEN Send(n, VoteReply(n, m, n.term, FALSE, FALSE))
  ELSE CASE m.type = "Vote"       -> HandleVote(a, m, fresh)
         [] m.type = "VoteResp"   -> HandleVoteResp(a, m)
         [] m.type = "App"        -> HandleApp(a, m)
         [] m.type = "AppResp"    -> HandleAppResp(a, m)
         [] m.type = "Snap"       -> HandleSnap(a, m)
         [] m.type = "SnapResp"   -> HandleSnapResp(a, m)
         [] m.type = "TimeoutNow" -> HandleTimeoutNow(a, m)
==============================================================================
