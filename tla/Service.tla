------------------------------- MODULE Service -------------------------------
(***************************************************************************)
(* The key-value service: clients that retry (sim/client.go), the server   *)
(* side of their requests and the application of committed commands        *)
(* (sim/client.go, sim/app.go, sim/server.go), over the replicated log     *)
(* that Raft provides (ReplicatedLog).                                     *)
(*                                                                         *)
(* Of Raft only the promise is kept: what is committed, and who believes   *)
(* to lead.  A step of the simulator that applies several entries is       *)
(* several actions here, so that other events may come in between.         *)
(***************************************************************************)
EXTENDS KVStore, Sequences, FiniteSets

CONSTANTS
    Server,
    None,               \* no server: leader ID 0, target 0
    SnapshotThreshold,  \* Options.SnapshotThreshold, 0 for no snapshots
    MayBeAlone,         \* a leader may be the only voter of its configuration
    Duplicates,         \* the network may deliver a message many times
    \* What a run explores.
    Kinds,              \* the operations each client issues
    MayTransfer,        \* leaders may be handing over, and refuse proposals
    \* Bounds.
    MaxSeq,             \* operations of each client
    MaxCopies,          \* copies of a command in the log or on its way into it
    MaxNoops,           \* log entries that are not commands
    MaxElections,       \* changes of a server's belief about the leader
    MaxCrashes          \* number of crashes

ASSUME ServiceAssumption ==
  /\ None \notin Server
  /\ SnapshotThreshold \in Nat /\ MayBeAlone \in BOOLEAN /\ Duplicates \in BOOLEAN
  /\ Kinds \in [Client -> SUBSET {"Get", "Put", "CAS"}] /\ MayTransfer \in BOOLEAN
  /\ MaxSeq \in [Client -> Nat] /\ MaxCopies \in Nat /\ MaxNoops \in Nat
  /\ MaxElections \in Nat /\ MaxCrashes \in Nat

VARIABLES
    \* The replicated log (see ReplicatedLog).
    log, up, app, saved,
    offers,     \* commands in a leader's log that are not known to be committed
    believed,   \* Node.leaderID; a server that believes in itself is the leader
    \* Servers
    store,      \* Server.app
    disk,       \* the data of the snapshot on disk
    pending,    \* Server.pending, 0 for a client that does not wait here
    \* Clients and network
    client,     \* Client
    net,        \* requests and responses that may still be delivered
    \* History
    snaps,      \* every snapshot taken, with the number of entries it covers
    stores,     \* the store after each entry of the log
    effectAt,   \* [cmd, at] when a command changed a store at a log index
    elections, crashes

raft == <<log, up, app, saved>>

vars == <<raft, offers, believed, store, disk, pending, client, net, snaps, stores,
          effectAt, elections, crashes>>

Noop == [op |-> "Noop"]

LogItem == Command \cup {Noop}

Raft == INSTANCE ReplicatedLog WITH Item <- LogItem

OptServer == Server \cup {None}

\* One leader's log may hold a command more than once.
Offer == [cmd : Command, owner : Server, copy : Nat]

Request == [type : {"creq"}, to : Server, cmd : Command]

Response ==
  [type : {"cresp"}, to : Client, seq : Nat, res : Result, ok : BOOLEAN,
   hint : OptServer]

Snapshot == [upto : Nat, data : Encoded]

\* retry is the sequence number that the scheduled retry is for, 0 for none;
\* out is the result that the history records for the last operation.
ClientState ==
  [seq : Nat, inflight : BOOLEAN, cmd : Command \cup {NoCommand}, target : OptServer,
   retry : Nat, lastSeen : [Key -> OptValue], out : Result]

NewClient ==
  [seq |-> 0, inflight |-> FALSE, cmd |-> NoCommand, target |-> None, retry |-> 0,
   lastSeen |-> [k \in Key |-> NoValue], out |-> NoResult]

NoPending == [c \in Client |-> 0]

TypeOK ==
  /\ log \in Seq(LogItem) /\ up \in SUBSET Server
  /\ app \in [Server -> Seq(LogItem)] /\ saved \in [Server -> Seq(LogItem)]
  /\ offers \in SUBSET Offer /\ believed \in [Server -> OptServer]
  /\ store \in [Server -> Store] /\ disk \in [Server -> Encoded]
  /\ pending \in [Server -> [Client -> Nat]]
  /\ client \in [Client -> ClientState] /\ net \in SUBSET (Request \cup Response)
  /\ snaps \in SUBSET Snapshot /\ stores \in Seq(Store)
  /\ effectAt \in SUBSET [cmd : Command, at : Nat]
  /\ elections \in Nat /\ crashes \in Nat

Init ==
  /\ Raft!Init
  /\ offers = {} /\ believed = [i \in Server |-> None]
  /\ store = [i \in Server |-> NewStore]
  /\ disk = [i \in Server |-> Encode(NewStore)]
  /\ pending = [i \in Server |-> NoPending]
  /\ client = [c \in Client |-> NewClient]
  /\ net = {}
  /\ snaps = {} /\ stores = <<NewStore>> /\ effectAt = {}
  /\ elections = 0 /\ crashes = 0

(***************************************************************************)
(* Network (sim/net.go): a message may be lost, delivered late, out of     *)
(* order and many times.                                                   *)
(***************************************************************************)
Delivered(m) == IF Duplicates THEN {} ELSE {m}

Exchange(m, msgs) == net' = (net \ Delivered(m)) \cup msgs

Lose(m) ==
  /\ ~Duplicates
  /\ net' = net \ {m}
  /\ UNCHANGED <<raft, offers, believed, store, disk, pending, client, snaps, stores,
                 effectAt, elections, crashes>>

(***************************************************************************)
(* Clients                                                                 *)
(***************************************************************************)
\* sendReq: to the target, or to a random server when there is none.
SendReq(p, to) ==
  /\ p.target = None \/ to = p.target
  /\ net' = net \cup {[type |-> "creq", to |-> to, cmd |-> p.cmd]}

unchangedByClients ==
  <<raft, offers, believed, store, disk, pending, snaps, stores, effectAt,
    elections, crashes>>

StartNextOp(c, op, k) ==
  LET seq == client[c].seq + 1
      cmd == [client |-> c, seq |-> seq, op |-> op, key |-> k,
              value  |-> IF op = "Get" THEN NoValue ELSE <<c, seq>>,
              expect |-> IF op = "CAS" THEN client[c].lastSeen[k] ELSE NoValue]
      p == [client[c] EXCEPT !.seq = seq, !.inflight = TRUE, !.cmd = cmd, !.target = None]
  IN  /\ ~client[c].inflight /\ seq <= MaxSeq[c]
      /\ client' = [client EXCEPT ![c] = p]
      /\ \E to \in Server : SendReq(p, to)
      /\ UNCHANGED unchangedByClients

\* Faulty variant: the timeout does not send the request again.
OnlyForgetsTarget(c, to) ==
  LET p == [client[c] EXCEPT !.target = None] IN
  /\ p.inflight
  /\ client' = [client EXCEPT ![c] = p]
  /\ UNCHANGED net
  /\ UNCHANGED unchangedByClients

\* armWatchdog: without an answer the request goes to another server.
Watchdog(c, to) ==
  LET p == [client[c] EXCEPT !.target = None] IN
  /\ p.inflight
  /\ client' = [client EXCEPT ![c] = p]
  /\ SendReq(p, to)
  /\ UNCHANGED unchangedByClients

\* scheduleRetry: one retry at a time; it comes to nothing when the operation
\* it was scheduled for is over.
Retry(c) ==
  LET p == [client[c] EXCEPT !.retry = 0] IN
  /\ client[c].retry # 0
  /\ client' = [client EXCEPT ![c] = p]
  /\ IF p.inflight /\ p.seq = client[c].retry
     THEN \E to \in Server : SendReq(p, to) ELSE UNCHANGED net
  /\ UNCHANGED unchangedByClients

\* What the client has seen of its key once the operation is over.
Seen(p, res) ==
  CASE p.cmd.op = "Get" -> res.value
    [] p.cmd.op = "Put" -> p.cmd.value
    [] p.cmd.op = "CAS" -> IF res.ok THEN p.cmd.value ELSE res.value

AnswersCurrent(p, m) == p.inflight /\ m.seq = p.seq

HandleResp(m) ==
  LET c == m.to
      p == client[c]
  IN  /\ m.type = "cresp"
      /\ Exchange(m, {})
      /\ client' = [client EXCEPT ![c] =
           IF ~AnswersCurrent(p, m) THEN p
           ELSE IF ~m.ok
           THEN [p EXCEPT !.target = IF m.hint # p.target THEN m.hint ELSE None,
                          !.retry = IF p.retry = 0 THEN p.seq ELSE p.retry]
           ELSE [p EXCEPT !.inflight = FALSE, !.out = m.res,
                          !.lastSeen[p.cmd.key] = Seen(p, m.res)]]
      /\ UNCHANGED unchangedByClients

(***************************************************************************)
(* Application of committed entries (sim/app.go)                           *)
(***************************************************************************)
OkResp(c, seq, res) ==
  [type |-> "cresp", to |-> c, seq |-> seq, res |-> res, ok |-> TRUE, hint |-> None]

Awaits(waiting, cmd) == waiting[cmd.client] = cmd.seq

\* maybeSnapshot's condition once server i has applied n entries.
SnapshotDue(i, n) ==
  SnapshotThreshold > 0 /\ n - Len(saved[i]) >= SnapshotThreshold

\* What an entry makes of the store s.
Outcome(s, entry) ==
  IF entry = Noop THEN [store |-> s, fresh |-> FALSE] ELSE Apply(s, entry)

\* appApply on server i of entry k: what the history of effects gains, the
\* answer to the client that waits here, and who waits after that.
NewEffects(i, k, entry) ==
  IF Outcome(store[i], entry).fresh THEN {[cmd |-> entry, at |-> k]} ELSE {}

Waits(i, entry) == entry # Noop /\ Awaits(pending[i], entry)

Answer(i, entry) ==
  IF Waits(i, entry)
  THEN {OkResp(entry.client, entry.seq, Apply(store[i], entry).res)} ELSE {}

StillWaiting(i, entry) ==
  IF Waits(i, entry) THEN [pending EXCEPT ![i][entry.client] = 0] ELSE pending

\* Server i applies entry k of the log, and takes a snapshot when the entry is
\* the last one that the step applies and the snapshot is due.
AppApply(i, k, entry, last) ==
  LET s     == Outcome(store[i], entry).store
      taken == last /\ SnapshotDue(i, k)
  IN  /\ store' = [store EXCEPT ![i] = s]
      /\ effectAt' = effectAt \cup NewEffects(i, k, entry)
      /\ disk' = [disk EXCEPT ![i] = IF taken THEN Encode(s) ELSE @]
      /\ snaps' = snaps \cup (IF taken THEN {[upto |-> k, data |-> Encode(s)]} ELSE {})

\* What the snapshot on disk covers after that.
Covered(i, k, last) == IF last /\ SnapshotDue(i, k) THEN k ELSE Len(saved[i])

ApplyNext(i, last) ==
  LET k     == Len(app[i]) + 1
      entry == log[k]
  IN  /\ k <= Len(log)
      /\ last \/ (k < Len(log) /\ SnapshotDue(i, k))
      /\ Raft!Step(i, <<>>, k, Covered(i, k, last))
      /\ AppApply(i, k, entry, last)
      /\ pending' = StillWaiting(i, entry)
      /\ net' = net \cup Answer(i, entry)
      /\ UNCHANGED <<offers, believed, client, stores, elections, crashes>>

(***************************************************************************)
(* serverHandleClientReq                                                   *)
(***************************************************************************)
Leads(i) == i \in up /\ believed[i] = i

Redirect(cmd, hint) ==
  [type |-> "cresp", to |-> cmd.client, seq |-> cmd.seq, res |-> NoResult,
   ok |-> FALSE, hint |-> hint]

unchangedByReply ==
  <<raft, offers, believed, store, disk, pending, client, snaps, stores, effectAt,
    elections, crashes>>

\* The server answers without the log: it is down, knows the result of the
\* command, does not lead, or is transferring its leadership.
Reply(m) ==
  LET i      == m.to
      cached == HasCached(store[i], m.cmd.client, m.cmd.seq)
  IN  /\ m.type = "creq"
      /\ \/ i \notin up /\ Exchange(m, {Redirect(m.cmd, None)})
         \/ /\ i \in up /\ cached
            /\ Exchange(m, {OkResp(m.cmd.client, m.cmd.seq,
                                   store[i].sessions[m.cmd.client].lastResult)})
         \/ /\ i \in up /\ ~cached /\ ~Leads(i)
            /\ Exchange(m, {Redirect(m.cmd, believed[i])})
         \/ /\ ~cached /\ Leads(i) /\ MayTransfer
            /\ Exchange(m, {Redirect(m.cmd, i)})
      /\ UNCHANGED unchangedByReply

\* The copies of a command in the log and on server i's way into it.
Copies(i, cmd) ==
  Cardinality({k \in DOMAIN log : log[k] = cmd})
  + Cardinality({o \in offers : o.cmd = cmd /\ o.owner = i})

Proposable(m) ==
  /\ m.type = "creq" /\ Leads(m.to)
  /\ ~HasCached(store[m.to], m.cmd.client, m.cmd.seq)
  /\ Copies(m.to, m.cmd) < MaxCopies

WaitFor(i, cmd) == pending' = [pending EXCEPT ![i][cmd.client] = cmd.seq]

\* The command enters the leader's log, to be committed later.
Propose(m) ==
  LET own  == {o \in offers : o.cmd = m.cmd /\ o.owner = m.to}
      free == {k \in 1 .. MaxCopies : \A o \in own : o.copy # k}
  IN  /\ Proposable(m)
      /\ \E copy \in free :
           /\ \A j \in free : copy <= j
           /\ offers' = offers \cup {[cmd |-> m.cmd, owner |-> m.to, copy |-> copy]}
      /\ WaitFor(m.to, m.cmd)
      /\ Exchange(m, {})
      /\ UNCHANGED <<raft, believed, store, disk, client, snaps, stores, effectAt,
                     elections, crashes>>

\* When the leader is the only voter the step that proposes also commits and applies the
\* entry: nobody waits for it yet, unless the same request was proposed here before.
ProposeAlone(m) ==
  LET i == m.to
      k == Len(log) + 1
  IN  /\ Proposable(m) /\ MayBeAlone
      /\ Len(app[i]) = Len(log)
      /\ Raft!Step(i, <<m.cmd>>, k, Covered(i, k, TRUE))
      /\ AppApply(i, k, m.cmd, TRUE)
      /\ stores' = Append(stores, Apply(stores[k], m.cmd).store)
      /\ WaitFor(i, m.cmd)
      /\ Exchange(m, Answer(i, m.cmd))
      /\ UNCHANGED <<offers, believed, client, elections, crashes>>

(***************************************************************************)
(* Crashes and restarts of the application (appCrash, appRestart,          *)
(* appRestore)                                                             *)
(***************************************************************************)
\* What every crash takes away; the server may have committed new entries before.
AppCrash(i, new) ==
  /\ crashes < MaxCrashes /\ crashes' = crashes + 1
  /\ Raft!Fail(i, new, Len(saved[i]))
  /\ store' = [store EXCEPT ![i] = NewStore]
  /\ believed' = [believed EXCEPT ![i] = None]

NobodyWaits(i) == pending' = [pending EXCEPT ![i] = NoPending]

Crash(i) ==
  /\ AppCrash(i, <<>>)
  /\ NobodyWaits(i)
  /\ UNCHANGED <<offers, disk, client, net, snaps, stores, effectAt, elections>>

\* The server crashes when it makes a snapshot durable: the last entry that it
\* covers is applied and answered, the snapshot is lost.
SnapshotCrash(i) ==
  LET k     == Len(app[i]) + 1
      entry == log[k]
  IN  /\ k <= Len(log) /\ SnapshotDue(i, k)
      /\ AppCrash(i, <<>>)
      /\ effectAt' = effectAt \cup NewEffects(i, k, entry)
      /\ net' = net \cup Answer(i, entry)
      /\ NobodyWaits(i)
      /\ UNCHANGED <<offers, disk, client, snaps, stores, elections>>

\* Step has already answered that the proposal is accepted when the server
\* crashes, so the down server waits for it.
WaitsThoughDown(i, cmd) ==
  pending' = [pending EXCEPT ![i] = [NoPending EXCEPT ![cmd.client] = cmd.seq]]

\* The server crashes when it makes the proposal durable.
ProposeCrash(m) ==
  /\ Proposable(m)
  /\ AppCrash(m.to, <<>>)
  /\ WaitsThoughDown(m.to, m.cmd)
  /\ Exchange(m, {})
  /\ UNCHANGED <<offers, disk, client, snaps, stores, effectAt, elections>>

\* The only voter has committed and applied the proposal and crashes when it
\* makes the snapshot durable that is due then.
ProposeAloneCrash(m) ==
  LET i == m.to
      k == Len(log) + 1
  IN  /\ Proposable(m) /\ MayBeAlone
      /\ Len(app[i]) = Len(log) /\ SnapshotDue(i, k)
      /\ AppCrash(i, <<m.cmd>>)
      /\ stores' = Append(stores, Apply(stores[k], m.cmd).store)
      /\ effectAt' = effectAt \cup NewEffects(i, k, m.cmd)
      /\ WaitsThoughDown(i, m.cmd)
      /\ Exchange(m, Answer(i, m.cmd))
      /\ UNCHANGED <<offers, disk, client, snaps, elections>>

Restart(i) ==
  /\ Raft!Recover(i)
  /\ store' = [store EXCEPT ![i] = RestoreStore(disk[i])]
  /\ NobodyWaits(i)
  /\ UNCHANGED <<offers, believed, disk, client, net, snaps, stores, effectAt,
                 elections, crashes>>

\* A leader's snapshot, sent at any time before, replaces the application of a
\* server whose log does not hold the snapshot's last entry.
Install(i, snap) ==
  /\ believed[i] # i
  /\ snap.upto > Len(app[i])
  /\ Raft!Step(i, <<>>, snap.upto, snap.upto)
  /\ store' = [store EXCEPT ![i] = RestoreStore(snap.data)]
  /\ disk' = [disk EXCEPT ![i] = snap.data]
  /\ NobodyWaits(i)
  /\ UNCHANGED <<offers, believed, client, net, snaps, stores, effectAt, elections,
                 crashes>>

\* A server whose log holds that entry applies its log up to there instead (all
\* but the last entry by ApplyNext) and stores the leader's snapshot, whether or
\* not its own is due.
InstallKept(i, snap) ==
  LET k     == Len(app[i]) + 1
      entry == log[k]
  IN  /\ believed[i] # i
      /\ snap.upto = k
      /\ Raft!Step(i, <<>>, k, k)
      /\ store' = [store EXCEPT ![i] = Outcome(store[i], entry).store]
      /\ disk' = [disk EXCEPT ![i] = snap.data]
      /\ effectAt' = effectAt \cup NewEffects(i, k, entry)
      /\ pending' = StillWaiting(i, entry)
      /\ net' = net \cup Answer(i, entry)
      /\ UNCHANGED <<offers, believed, client, snaps, stores, elections, crashes>>

(***************************************************************************)
(* What Raft does                                                          *)
(***************************************************************************)
unchangedByRaft ==
  <<store, disk, pending, client, net, snaps, effectAt, crashes>>

\* A leader finds that entries are committed; nobody has applied them yet.
LeaderCommit(i, new) == Leads(i) /\ Raft!Step(i, new, Len(app[i]), Len(saved[i]))

\* A command that some leader took into its log is committed, by that leader
\* or by a later one.
Commit(i, o) ==
  /\ LeaderCommit(i, <<o.cmd>>)
  /\ offers' = offers \ {o}
  /\ stores' = Append(stores, Apply(stores[Len(stores)], o.cmd).store)
  /\ UNCHANGED <<believed, elections>>
  /\ UNCHANGED unchangedByRaft

\* A leader's empty entry, a configuration change or other data that is not a
\* client's is committed.
CommitNoop(i) ==
  /\ Cardinality({k \in DOMAIN log : log[k] = Noop}) < MaxNoops
  /\ LeaderCommit(i, <<Noop>>)
  /\ stores' = Append(stores, stores[Len(stores)])
  /\ UNCHANGED <<offers, believed, elections>>
  /\ UNCHANGED unchangedByRaft

\* The entry is overwritten by another leader's.
LoseOffer(o) ==
  /\ ~Leads(o.owner)
  /\ offers' = offers \ {o}
  /\ UNCHANGED <<raft, believed, stores, elections>>
  /\ UNCHANGED unchangedByRaft

\* The server learns of another leader, becomes the leader or ceases to be it.
\* A server that was the leader's before may still believe that it leads.
ElectionChange(i, l) ==
  /\ i \in up /\ believed[i] # l
  /\ elections < MaxElections /\ elections' = elections + 1
  /\ believed' = [believed EXCEPT ![i] = l]
  /\ UNCHANGED <<raft, offers, stores>>
  /\ UNCHANGED unchangedByRaft

Next ==
  \/ \E c \in Client :
       \/ \E op \in Kinds[c], k \in Key : StartNextOp(c, op, k)
       \/ \E to \in Server : Watchdog(c, to)
       \/ Retry(c)
  \/ \E m \in net :
       HandleResp(m) \/ Reply(m) \/ Propose(m) \/ ProposeAlone(m) \/ ProposeCrash(m)
       \/ ProposeAloneCrash(m) \/ Lose(m)
  \/ \E i \in Server :
       \/ \E last \in BOOLEAN : ApplyNext(i, last)
       \/ Crash(i) \/ SnapshotCrash(i) \/ Restart(i) \/ CommitNoop(i)
       \/ \E snap \in snaps : Install(i, snap) \/ InstallKept(i, snap)
       \/ \E o \in offers : Commit(i, o)
       \/ \E l \in OptServer : ElectionChange(i, l)
  \/ \E o \in offers : LoseOffer(o)

Spec == Init /\ [][Next]_vars

(***************************************************************************)
(* Fairness.  A watchdog fires for as long as an operation is in flight    *)
(* and picks its server at random; a message that is sent again and again  *)
(* arrives; crashed servers restart (Faults.RestartMean); a leader        *)
(* commits what it took into its log, and servers apply what is committed. *)
(***************************************************************************)
ServerHandles(c, i) ==
  \E m \in net : /\ m.type = "creq" /\ m.cmd.client = c /\ m.to = i
                 /\ Reply(m) \/ Propose(m) \/ ProposeAlone(m)

ClientHandles(c) ==
  \E m \in net : m.to = c /\ m.seq = client[c].seq /\ m.ok /\ HandleResp(m)

CommitsOwn(i) == \E o \in offers : o.owner = i /\ Commit(i, o)

Fairness ==
  /\ \A c \in Client, i \in Server :
       WF_vars(Watchdog(c, i)) /\ SF_vars(ServerHandles(c, i))
  /\ \A c \in Client : SF_vars(ClientHandles(c))
  /\ \A i \in Server :
       /\ WF_vars(CommitsOwn(i)) /\ WF_vars(Restart(i))
       /\ WF_vars(\E last \in BOOLEAN : ApplyNext(i, last))

FairSpec == Spec /\ Fairness

(***************************************************************************)
(* Properties                                                              *)
(***************************************************************************)
\* No command changes the state at two indices of the log, however often the
\* client sends it again and however many leaders take it (the exactly-once
\* check of sim/app.go:23-34).
ExactlyOnce ==
  \A e, f \in effectAt : e.cmd.client = f.cmd.client /\ e.cmd.seq = f.cmd.seq => e.at = f.at

\* The application of a server, rebuilt after a crash from a snapshot or
\* replaced by a leader's, is the one that results from the log's entries up
\* to where it stands; so is its snapshot (appRestart, appRestore,
\* maybeSnapshot).
StoreFollowsLog ==
  \A i \in Server :
    /\ i \in up => store[i] = stores[Len(app[i]) + 1]
    /\ RestoreStore(disk[i]) = stores[Len(saved[i]) + 1]

\* What the service does is what an atomic map with exactly-once operations
\* does: an operation takes effect when its first copy is committed.
Committed == stores[Len(stores)]

TookEffect(c) == Committed.sessions[c].lastSeq = client[c].seq

CallStatus(c) ==
  IF ~client[c].inflight THEN "idle" ELSE IF TookEffect(c) THEN "done" ELSE "waiting"

CallResult(c) ==
  IF client[c].inflight /\ TookEffect(c) THEN Committed.sessions[c].lastResult
  ELSE client[c].out

Atomic ==
  INSTANCE AtomicKV WITH
    data   <- Committed.data,
    call   <- [c \in Client |-> client[c].cmd],
    status <- [c \in Client |-> CallStatus(c)],
    result <- [c \in Client |-> CallResult(c)]

\* Clients see a linearizable store (package comment of kv/kv.go).
Linearizable == Atomic!Spec

\* Once a leader lasts, every operation is answered: armWatchdog sends the
\* request again until there is an answer (sim/client.go), whatever happens to
\* the retry that a redirect schedules.
Answered ==
  \A l \in Server : <>[]Leads(l) => \A c \in Client : []<>~client[c].inflight
==============================================================================
