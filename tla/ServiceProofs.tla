---------------------------- MODULE ServiceProofs ----------------------------
(***************************************************************************)
(* Theorems about the key-value service for every number of clients and    *)
(* servers, every bound and every choice of faults.                        *)
(***************************************************************************)
EXTENDS Service, TLAPS

-----------------------------------------------------------------------------
(* The store: what a command does to the sessions, and that a store        *)
(* survives being saved and restored.                                      *)

\* A command that writes has something to write (startNextOp).
WellFormed(c) == c \in Command /\ (c.op # "Get" => c.value \in Value)

\* A store in which no session has a result before its first command.
SoundStore(s) ==
  s \in Store /\ \A c \in Client : s.sessions[c].lastSeq = 0 => s.sessions[c] = NoSession

\* The empty store is sound (NewStore of kv/kv.go).
LEMMA NewStoreSound == SoundStore(NewStore)
  BY DEF SoundStore, NewStore, Store, Data, NoData, NoSession, Session, NoResult, Result,
         OptValue

\* Executing a command gives a map and a result (exec of kv/kv.go).
LEMMA ExecuteType ==
  ASSUME NEW data \in Data, NEW c, WellFormed(c)
  PROVE  Execute(data, c).data \in Data /\ Execute(data, c).res \in Result
<1>1. c.key \in Key /\ c.value \in OptValue
  BY DEF WellFormed, Command
<1>2. Lookup(data, c.key) \in OptValue
  BY <1>1, StoreAssumption DEF Lookup, Data, OptValue, Value
<1>3. CASE Writes(data, c)
  <2>1. c.value \in Value
    BY <1>3 DEF Writes, WellFormed
  <2>2. QED
    BY <1>1, <1>3, <2>1 DEF Execute, Data, Result, OptValue
<1>4. CASE ~Writes(data, c)
  BY <1>2, <1>4 DEF Execute, Result
<1>5. QED
  BY <1>3, <1>4

\* Applying a command keeps the store sound (Store.Apply of kv/kv.go).
LEMMA ApplySound ==
  ASSUME NEW s, SoundStore(s), NEW c, WellFormed(c)
  PROVE  SoundStore(Apply(s, c).store) /\ Apply(s, c).res \in Result
<1> DEFINE x == Execute(s.data, c)
<1>1. /\ s \in Store /\ s.data \in Data /\ s.sessions \in [Client -> Session]
      /\ c.client \in Client /\ c.seq \in Nat /\ c.seq # 0
  BY DEF SoundStore, Store, WellFormed, Command
<1>2. x.data \in Data /\ x.res \in Result
  BY <1>1, ExecuteType
<1>3. s.sessions[c.client] \in Session /\ NoResult \in Result
  BY <1>1 DEF NoResult, Result, OptValue
<1>4. CASE c.seq <= s.sessions[c.client].lastSeq
  <2>1. Apply(s, c).store = s
    BY <1>1, <1>3, <1>4 DEF Apply, Session
  <2>2. Apply(s, c).res \in {s.sessions[c.client].lastResult, NoResult}
    BY <1>1, <1>3, <1>4 DEF Apply, Session
  <2>3. QED
    BY <1>3, <2>1, <2>2 DEF Session
<1>5. CASE ~(c.seq <= s.sessions[c.client].lastSeq)
  <2> DEFINE new == [lastSeq |-> c.seq, lastResult |-> x.res]
  <2>1. /\ Apply(s, c).store = [data |-> x.data,
                                sessions |-> [s.sessions EXCEPT ![c.client] = new]]
        /\ Apply(s, c).res = x.res
    BY <1>1, <1>3, <1>5 DEF Apply, Session
  <2>2. new \in Session
    BY <1>1, <1>2 DEF Session
  <2> HIDE DEF x, new
  <2>3. Apply(s, c).store \in Store
    BY <1>1, <1>2, <2>1, <2>2 DEF Store
  <2>4. ASSUME NEW d \in Client, Apply(s, c).store.sessions[d].lastSeq = 0
        PROVE  Apply(s, c).store.sessions[d] = NoSession
    BY <1>1, <2>1, <2>4 DEF new, SoundStore
  <2>5. QED
    BY <1>2, <2>1, <2>3, <2>4 DEF SoundStore
<1>6. QED
  BY <1>4, <1>5

\* A command that the sessions know does nothing, a new one is executed, and its
\* session has its result.
AppliesOnce(s, c, t, last) ==
  /\ \A d \in Client \ {c.client} : t.sessions[d] = s.sessions[d]
  /\ Apply(s, c).fresh <=> last < c.seq
  /\ last >= c.seq => t = s
  /\ last < c.seq =>
       /\ t.sessions[c.client].lastSeq = c.seq
       /\ t.sessions[c.client].lastResult = Execute(s.data, c).res
       /\ t.data = Execute(s.data, c).data
  /\ last <= c.seq =>
       /\ t.sessions[c.client].lastSeq = c.seq
       /\ t.sessions[c.client].lastResult = Apply(s, c).res

\* What a command does to the sessions (Store.Apply of kv/kv.go).
LEMMA ApplySessions ==
  ASSUME NEW s, SoundStore(s), NEW c, WellFormed(c)
  PROVE  AppliesOnce(s, c, Apply(s, c).store, s.sessions[c.client].lastSeq)
<1>1. /\ s.sessions \in [Client -> Session] /\ s.sessions[c.client] \in Session
      /\ c.client \in Client /\ c.seq \in Nat
  BY DEF SoundStore, Store, WellFormed, Command
<1>2. s.sessions[c.client].lastSeq \in Nat
  BY <1>1 DEF Session
<1>3. CASE c.seq = s.sessions[c.client].lastSeq
  BY <1>1, <1>2, <1>3 DEF Apply, Session, AppliesOnce
<1>4. CASE c.seq < s.sessions[c.client].lastSeq
  BY <1>1, <1>2, <1>4 DEF Apply, AppliesOnce
<1>5. CASE c.seq > s.sessions[c.client].lastSeq
  BY <1>1, <1>2, <1>5 DEF Apply, AppliesOnce
<1>6. QED
  BY <1>1, <1>2, <1>3, <1>4, <1>5

\* A store restored from its snapshot is the store that was saved, sessions
\* included (Snapshot and RestoreStore of kv/codec.go).
LEMMA RestoreEncode ==
  ASSUME NEW s, SoundStore(s)
  PROVE  RestoreStore(Encode(s)) = s
<1> DEFINE b == Encode(s)
           r == RestoreStore(b)
<1>1. /\ s = [data |-> s.data, sessions |-> s.sessions]
      /\ s.data \in [Key -> Value \cup {Absent}] /\ s.sessions \in [Client -> Session]
  BY DEF SoundStore, Store, Data
<1>2. \A p : p \in b.pairs <=> \E k \in Key : s.data[k] # Absent /\ p = <<k, s.data[k]>>
  BY DEF Encode
<1>3. \A t : t \in b.sessions <=>
        \E c \in Client : /\ s.sessions[c].lastSeq # 0
                          /\ t = <<c, s.sessions[c].lastSeq, s.sessions[c].lastResult>>
  BY DEF Encode
<1> HIDE DEF b
<1>4. ASSUME NEW k \in Key PROVE r.data[k] = s.data[k]
  <2>0. r.data[k] = IF \E p \in b.pairs : p[1] = k
                    THEN (CHOOSE p \in b.pairs : p[1] = k)[2] ELSE Absent
    BY DEF RestoreStore
  <2>1. \A p \in b.pairs : p[1] = k => s.data[k] # Absent /\ p[2] = s.data[k]
    BY <1>2
  <2>2. s.data[k] # Absent => <<k, s.data[k]>> \in b.pairs /\ <<k, s.data[k]>>[1] = k
    BY <1>2
  <2>3. QED
    BY <2>0, <2>1, <2>2
<1>5. ASSUME NEW c \in Client PROVE r.sessions[c] = s.sessions[c]
  <2>0. r.sessions[c] =
          IF \E t \in b.sessions : t[1] = c
          THEN [lastSeq |-> (CHOOSE u \in b.sessions : u[1] = c)[2],
                lastResult |-> (CHOOSE u \in b.sessions : u[1] = c)[3]]
          ELSE NoSession
    BY DEF RestoreStore
  <2>1. \A t \in b.sessions : t[1] = c =>
          /\ s.sessions[c].lastSeq # 0
          /\ t[2] = s.sessions[c].lastSeq /\ t[3] = s.sessions[c].lastResult
    BY <1>3
  <2> DEFINE u == <<c, s.sessions[c].lastSeq, s.sessions[c].lastResult>>
  <2>2. s.sessions[c].lastSeq # 0 => u \in b.sessions /\ u[1] = c
    BY <1>3
  <2>3. s.sessions[c] = [lastSeq |-> s.sessions[c].lastSeq,
                         lastResult |-> s.sessions[c].lastResult]
    BY <1>1 DEF Session
  <2>4. CASE \E t \in b.sessions : t[1] = c
    BY <2>0, <2>1, <2>3, <2>4
  <2>5. CASE ~\E t \in b.sessions : t[1] = c
    BY <2>0, <2>2, <2>5 DEF SoundStore
  <2>6. QED
    BY <2>4, <2>5
<1>6. /\ r = [data |-> r.data, sessions |-> r.sessions]
      /\ r.data = [k \in Key |-> r.data[k]] /\ r.sessions = [c \in Client |-> r.sessions[c]]
  BY DEF RestoreStore
<1> HIDE DEF r
<1>7. r.data = s.data
  BY <1>1, <1>4, <1>6
<1>8. r.sessions = s.sessions
  BY <1>1, <1>5, <1>6
<1>9. QED
  BY <1>1, <1>6, <1>7, <1>8 DEF r, b

-----------------------------------------------------------------------------
(* Types *)

\* Whatever is on its way into the log, or in it, is something to execute.
WellFormedCommands ==
  /\ \A c \in Client : client[c].inflight => WellFormed(client[c].cmd)
  /\ \A m \in net : m.type = "creq" => WellFormed(m.cmd)
  /\ \A o \in offers : WellFormed(o.cmd)
  /\ \A k \in DOMAIN log : log[k] = Noop \/ WellFormed(log[k])

\* Stores are sound, wherever they are.
SoundStores ==
  /\ \A i \in Server : SoundStore(store[i])
  /\ \A k \in DOMAIN stores : SoundStore(stores[k])

\* Snapshots encode sound stores.
SoundSnapshots ==
  /\ \A i \in Server : \E s : SoundStore(s) /\ disk[i] = Encode(s)
  /\ \A snap \in snaps : \E s : SoundStore(s) /\ snap.data = Encode(s)

TInv ==
  /\ TypeOK /\ WellFormedCommands /\ SoundStores /\ SoundSnapshots
  /\ Len(stores) = Len(log) + 1

\* The encoding of a store lists pairs and sessions (Snapshot of kv/codec.go).
LEMMA EncodeType ==
  ASSUME NEW s, SoundStore(s)
  PROVE  Encode(s) \in Encoded
<1>1. s.data \in [Key -> Value \cup {Absent}] /\ s.sessions \in [Client -> Session]
  BY DEF SoundStore, Store, Data
<1>2. \A k \in Key : s.data[k] # Absent => <<k, s.data[k]>> \in Key \X Value
  BY <1>1
<1>3. \A c \in Client :
        <<c, s.sessions[c].lastSeq, s.sessions[c].lastResult>> \in Client \X Nat \X Result
  BY <1>1 DEF Session
<1>4. QED
  BY <1>2, <1>3 DEF Encode, Encoded

\* Restoring from the encoding of a sound store gives a sound store
\* (RestoreStore of kv/codec.go).
LEMMA RestoreSound ==
  ASSUME NEW b, \E s : SoundStore(s) /\ b = Encode(s)
  PROVE  SoundStore(RestoreStore(b))
  BY RestoreEncode

LEMMA InitTyped == Init => TInv
<1> SUFFICES ASSUME Init PROVE TInv
  OBVIOUS
<1> USE DEF Init, Raft!Init
<1>0. SoundStore(NewStore) /\ NewStore \in Store /\ Encode(NewStore) \in Encoded
  BY NewStoreSound, EncodeType DEF SoundStore
<1>1. /\ log \in Seq(LogItem) /\ log = <<>> /\ stores \in Seq(Store)
      /\ stores # <<>> /\ \A k \in DOMAIN stores : stores[k] = NewStore
  BY <1>0
<1>2. client \in [Client -> ClientState]
  BY DEF NewClient, ClientState, NoResult, Result, OptValue, OptServer
<1>3. TypeOK
  BY <1>0, <1>1, <1>2, ServiceAssumption DEF TypeOK, NoPending, OptServer
<1>4. WellFormedCommands
  BY <1>1 DEF WellFormedCommands, NewClient
<1>5. SoundStores
  BY <1>0, <1>1 DEF SoundStores
<1>6. SoundSnapshots
  BY <1>0 DEF SoundSnapshots
<1>7. QED
  BY <1>1, <1>3, <1>4, <1>5, <1>6 DEF TInv

\* The log, the applications and the snapshots stay sequences of entries.
LEMMA StepTyped ==
  ASSUME TypeOK, NEW i \in Server, NEW new \in Seq(LogItem), NEW k, NEW s,
         Raft!Step(i, new, k, s)
  PROVE  /\ log' \in Seq(LogItem) /\ up' \in SUBSET Server
         /\ app' \in [Server -> Seq(LogItem)] /\ saved' \in [Server -> Seq(LogItem)]
         /\ log' = log \o new
         /\ k \in Nat /\ s \in Nat
<1>1. /\ log \in Seq(LogItem) /\ up \in SUBSET Server /\ app[i] \in Seq(LogItem)
      /\ saved[i] \in Seq(LogItem)
      /\ app \in [Server -> Seq(LogItem)] /\ saved \in [Server -> Seq(LogItem)]
  BY DEF TypeOK
<1>2. /\ log' = log \o new /\ log' \in Seq(LogItem) /\ up' = up
      /\ k \in Len(app[i]) .. Len(log') /\ s \in Len(saved[i]) .. k
      /\ app' = [app EXCEPT ![i] = SubSeq(log', 1, k)]
      /\ saved' = [saved EXCEPT ![i] = SubSeq(log', 1, s)]
  BY <1>1 DEF Raft!Step
<1>3. k \in 0 .. Len(log') /\ s \in 0 .. Len(log')
  BY <1>1, <1>2
<1>4. SubSeq(log', 1, k) \in Seq(LogItem) /\ SubSeq(log', 1, s) \in Seq(LogItem)
  BY <1>2, <1>3
<1>5. QED
  BY <1>1, <1>2, <1>3, <1>4

\* A crash, which may come after a commitment.
LEMMA FailTyped ==
  ASSUME TypeOK, NEW i \in Server, NEW new \in Seq(LogItem),
         Raft!Fail(i, new, Len(saved[i]))
  PROVE  /\ log' \in Seq(LogItem) /\ log' = log \o new /\ Len(log') = Len(log) + Len(new)
         /\ up' \in SUBSET Server
         /\ app' \in [Server -> Seq(LogItem)] /\ saved' \in [Server -> Seq(LogItem)]
         /\ app' = [app EXCEPT ![i] = <<>>]
         /\ \A j \in Server : Len(saved'[j]) = Len(saved[j])
<1>1. /\ log \in Seq(LogItem) /\ saved[i] \in Seq(LogItem) /\ up \in SUBSET Server
      /\ app \in [Server -> Seq(LogItem)] /\ saved \in [Server -> Seq(LogItem)]
  BY DEF TypeOK
<1> DEFINE s == Len(saved[i])
<1>2. /\ log' = log \o new /\ s \in s .. Len(log')
      /\ up' = up \ {i} /\ app' = [app EXCEPT ![i] = <<>>]
      /\ saved' = [saved EXCEPT ![i] = SubSeq(log', 1, s)]
  BY DEF Raft!Fail
<1>3. log' \in Seq(LogItem) /\ Len(log') = Len(log) + Len(new) /\ s \in Nat
  BY <1>1, <1>2
<1> DEFINE cut == SubSeq(log', 1, s)
<1>4. cut \in Seq(LogItem) /\ Len(cut) = s /\ <<>> \in Seq(LogItem)
  BY <1>2, <1>3
<1> HIDE DEF cut
<1>5. saved' = [saved EXCEPT ![i] = cut]
  BY <1>2 DEF cut
<1>6. /\ app' \in [Server -> Seq(LogItem)] /\ saved' \in [Server -> Seq(LogItem)]
      /\ \A j \in Server : Len(saved'[j]) = Len(saved[j])
  BY <1>1, <1>2, <1>4, <1>5
<1>7. QED
  BY <1>1, <1>2, <1>3, <1>6

\* The empty entry leaves the store alone, a command does what Apply says.
After(s, e) == IF e = Noop THEN s ELSE Apply(s, e).store

LEMMA AfterSound ==
  ASSUME NEW s, SoundStore(s), NEW e, e = Noop \/ WellFormed(e)
  PROVE  SoundStore(After(s, e))
  BY ApplySound DEF After

LEMMA OutcomeStore ==
  ASSUME NEW s, NEW e
  PROVE  Outcome(s, e).store = After(s, e)
  BY DEF Outcome, After

\* A command takes effect where it is fresh; the history of effects stays one.
LEMMA NewEffectsAre ==
  ASSUME NEW i, NEW k, NEW e
  PROVE  \/ NewEffects(i, k, e) = {}
         \/ /\ e # Noop /\ Apply(store[i], e).fresh
            /\ NewEffects(i, k, e) = {[cmd |-> e, at |-> k]}
  BY DEF NewEffects, Outcome

LEMMA NewEffectsTyped ==
  ASSUME TypeOK, NEW i, NEW k \in Nat, NEW e, e = Noop \/ WellFormed(e)
  PROVE  effectAt \cup NewEffects(i, k, e) \in SUBSET [cmd : Command, at : Nat]
  BY NewEffectsAre DEF TypeOK, WellFormed

\* The answer is one, and nobody starts to wait.
LEMMA AnswerTyped ==
  ASSUME TInv, NEW i \in Server, NEW e, e = Noop \/ WellFormed(e)
  PROVE  /\ Answer(i, e) \in SUBSET Response
         /\ StillWaiting(i, e) \in [Server -> [Client -> Nat]]
<1>1. pending \in [Server -> [Client -> Nat]]
  BY DEF TInv, TypeOK
<1>2. CASE Waits(i, e)
  <2>1. WellFormed(e) /\ e.client \in Client /\ e.seq \in Nat
    BY <1>2 DEF Waits, WellFormed, Command
  <2>2. Apply(store[i], e).res \in Result
    BY <2>1, ApplySound DEF TInv, SoundStores
  <2>3. OkResp(e.client, e.seq, Apply(store[i], e).res) \in Response
    BY <2>1, <2>2 DEF OkResp, Response, OptServer
  <2>4. Answer(i, e) \in SUBSET Response
    BY <1>2, <2>3 DEF Answer
  <2>5. StillWaiting(i, e) \in [Server -> [Client -> Nat]]
    BY <1>1, <1>2, <2>1 DEF StillWaiting
  <2>6. QED
    BY <2>4, <2>5
<1>3. CASE ~Waits(i, e)
  BY <1>1, <1>3 DEF Answer, StillWaiting
<1>4. QED
  BY <1>2, <1>3

\* What applying the entry e as the k-th does to a server's application and its
\* snapshot.
Applied(i, k, e, last) ==
  /\ store' = [store EXCEPT ![i] = After(store[i], e)]
  /\ SoundStore(After(store[i], e))
  /\ \/ disk' = disk /\ snaps' = snaps /\ ~(last /\ SnapshotDue(i, k))
     \/ /\ disk' = [disk EXCEPT ![i] = Encode(After(store[i], e))]
        /\ snaps' = snaps \cup {[upto |-> k, data |-> Encode(After(store[i], e))]}
        /\ last /\ SnapshotDue(i, k)
  /\ effectAt' = effectAt \cup NewEffects(i, k, e)

\* The application of an entry (appApply and maybeSnapshot of sim/app.go).
LEMMA AppApplied ==
  ASSUME TInv, NEW i \in Server, NEW k \in Nat, NEW e, e = Noop \/ WellFormed(e),
         NEW last \in BOOLEAN, AppApply(i, k, e, last)
  PROVE  Applied(i, k, e, last)
<1> DEFINE s     == After(store[i], e)
           taken == last /\ SnapshotDue(i, k)
<1>1. SoundStore(s)
  BY AfterSound DEF TInv, SoundStores
<1>2. /\ store' = [store EXCEPT ![i] = s]
      /\ effectAt' = effectAt \cup NewEffects(i, k, e)
      /\ disk' = [disk EXCEPT ![i] = IF taken THEN Encode(s) ELSE @]
      /\ snaps' = snaps \cup (IF taken THEN {[upto |-> k, data |-> Encode(s)]} ELSE {})
  BY OutcomeStore DEF AppApply
<1> HIDE DEF s, taken
<1>3. CASE taken
  BY <1>1, <1>2, <1>3 DEF s, taken, Applied
<1>4. CASE ~taken
  <2>1. disk' = disk /\ snaps' = snaps
    BY <1>2, <1>4 DEF TInv, TypeOK
  <2>2. QED
    BY <1>1, <1>2, <1>4, <2>1 DEF s, taken, Applied
<1>5. QED
  BY <1>3, <1>4

LEMMA AppApplyTyped ==
  ASSUME TInv, NEW i \in Server, NEW k \in Nat, NEW e, e = Noop \/ WellFormed(e),
         NEW last \in BOOLEAN, AppApply(i, k, e, last)
  PROVE  /\ store' \in [Server -> Store] /\ \A j \in Server : SoundStore(store'[j])
         /\ disk' \in [Server -> Encoded] /\ snaps' \in SUBSET Snapshot
         /\ effectAt' \in SUBSET [cmd : Command, at : Nat]
         /\ SoundSnapshots'
<1> DEFINE s == After(store[i], e)
<1>1. /\ store \in [Server -> Store] /\ disk \in [Server -> Encoded]
      /\ snaps \in SUBSET Snapshot /\ effectAt \in SUBSET [cmd : Command, at : Nat]
  BY DEF TInv, TypeOK
<1>2. /\ store' = [store EXCEPT ![i] = s] /\ SoundStore(s)
      /\ \/ disk' = disk /\ snaps' = snaps
         \/ /\ disk' = [disk EXCEPT ![i] = Encode(s)]
            /\ snaps' = snaps \cup {[upto |-> k, data |-> Encode(s)]}
      /\ effectAt' = effectAt \cup NewEffects(i, k, e)
  BY AppApplied DEF Applied
<1> HIDE DEF s
<1>3. s \in Store /\ Encode(s) \in Encoded
  BY <1>2, EncodeType DEF SoundStore
<1>4. store' \in [Server -> Store] /\ \A j \in Server : SoundStore(store'[j])
  BY <1>1, <1>2, <1>3 DEF TInv, SoundStores
<1>5. disk' \in [Server -> Encoded] /\ snaps' \in SUBSET Snapshot
  BY <1>1, <1>2, <1>3 DEF Snapshot
<1>6. effectAt' \in SUBSET [cmd : Command, at : Nat]
  BY <1>2, NewEffectsTyped DEF TInv
<1>7. SoundSnapshots'
  BY <1>1, <1>2 DEF TInv, SoundSnapshots
<1>8. QED
  BY <1>4, <1>5, <1>6, <1>7

-----------------------------------------------------------------------------
(* Types: the steps of the clients *)

LEMMA SendReqTyped ==
  ASSUME TypeOK, NEW p, p.cmd \in Command, NEW to \in Server, SendReq(p, to)
  PROVE  /\ net' \in SUBSET (Request \cup Response)
         /\ net' = net \cup {[type |-> "creq", to |-> to, cmd |-> p.cmd]}
  BY DEF SendReq, TypeOK, Request

\* A step of a client touches only the clients and the network.
LEMMA ClientStepTyped ==
  ASSUME TInv, UNCHANGED unchangedByClients,
         client' \in [Client -> ClientState],
         net' \in SUBSET (Request \cup Response),
         \A c \in Client : client'[c].inflight => WellFormed(client'[c].cmd),
         \A m \in net' : m.type = "creq" => WellFormed(m.cmd)
  PROVE  TInv'
  BY DEF TInv, TypeOK, WellFormedCommands, SoundStores, SoundSnapshots,
         unchangedByClients, raft

LEMMA StartNextOpTyped ==
  ASSUME TInv, NEW c \in Client, NEW op \in {"Get", "Put", "CAS"}, NEW k \in Key,
         StartNextOp(c, op, k)
  PROVE  TInv'
<1> DEFINE seq == client[c].seq + 1
           cmd == [client |-> c, seq |-> seq, op |-> op, key |-> k,
                   value  |-> IF op = "Get" THEN NoValue ELSE <<c, seq>>,
                   expect |-> IF op = "CAS" THEN client[c].lastSeen[k] ELSE NoValue]
           p == [client[c] EXCEPT !.seq = seq, !.inflight = TRUE, !.cmd = cmd,
                                  !.target = None]
<1>1. client \in [Client -> ClientState] /\ client[c] \in ClientState
  BY DEF TInv, TypeOK
<1>2. seq \in Nat \ {0} /\ client[c].lastSeen[k] \in OptValue
  BY <1>1 DEF ClientState
<1>3. cmd \in Command /\ WellFormed(cmd)
  BY <1>2 DEF Command, WellFormed, OptValue, Value
<1>4. /\ client' = [client EXCEPT ![c] = p]
      /\ \E to \in Server : SendReq(p, to)
      /\ UNCHANGED unchangedByClients
  BY DEF StartNextOp
<1>5. p.cmd = cmd /\ p.inflight
  BY <1>1 DEF ClientState
<1> HIDE DEF cmd, seq
<1>6. p \in ClientState
  BY <1>1, <1>2, <1>3 DEF ClientState, OptServer
<1> HIDE DEF p
<1>7. client' \in [Client -> ClientState]
  BY <1>1, <1>4, <1>6
<1>8. PICK to \in Server : SendReq(p, to)
  BY <1>4
<1>9. /\ net' \in SUBSET (Request \cup Response)
      /\ net' = net \cup {[type |-> "creq", to |-> to, cmd |-> cmd]}
  BY <1>3, <1>5, <1>8, SendReqTyped DEF TInv
<1>10. \A d \in Client : client'[d].inflight => WellFormed(client'[d].cmd)
  BY <1>1, <1>3, <1>4, <1>5 DEF TInv, WellFormedCommands
<1>11. \A m \in net' : m.type = "creq" => WellFormed(m.cmd)
  BY <1>3, <1>9 DEF TInv, WellFormedCommands
<1>12. QED
  BY <1>4, <1>7, <1>9, <1>10, <1>11, ClientStepTyped

\* The client's operation stays what it is, and its request may be sent.
LEMMA ResendTyped ==
  ASSUME TInv, NEW c \in Client, NEW p \in ClientState,
         p.inflight = client[c].inflight, p.cmd = client[c].cmd,
         client' = [client EXCEPT ![c] = p], UNCHANGED unchangedByClients,
         \/ UNCHANGED net
         \/ p.inflight /\ \E to \in Server : SendReq(p, to)
  PROVE  TInv'
<1>1. client \in [Client -> ClientState]
  BY DEF TInv, TypeOK
<1>2. client' \in [Client -> ClientState]
  BY <1>1
<1>3. \A d \in Client : client'[d].inflight => WellFormed(client'[d].cmd)
  BY <1>1 DEF TInv, WellFormedCommands
<1>4. /\ net' \in SUBSET (Request \cup Response)
      /\ \A m \in net' : m.type = "creq" => WellFormed(m.cmd)
  <2>1. CASE UNCHANGED net
    BY <2>1 DEF TInv, TypeOK, WellFormedCommands
  <2>2. CASE p.inflight /\ \E to \in Server : SendReq(p, to)
    <3>1. WellFormed(p.cmd) /\ p.cmd \in Command
      BY <2>2 DEF TInv, WellFormedCommands, WellFormed
    <3>2. PICK to \in Server : SendReq(p, to)
      BY <2>2
    <3>3. /\ net' \in SUBSET (Request \cup Response)
          /\ net' = net \cup {[type |-> "creq", to |-> to, cmd |-> p.cmd]}
      BY <3>1, <3>2, SendReqTyped DEF TInv
    <3>4. QED
      BY <3>1, <3>3 DEF TInv, WellFormedCommands
  <2>3. QED
    BY <2>1, <2>2
<1>5. QED
  BY <1>2, <1>3, <1>4, ClientStepTyped

LEMMA WatchdogTyped ==
  ASSUME TInv, NEW c \in Client, NEW to \in Server, Watchdog(c, to)
  PROVE  TInv'
<1> DEFINE p == [client[c] EXCEPT !.target = None]
<1>1. client[c] \in ClientState
  BY DEF TInv, TypeOK
<1>2. p \in ClientState /\ p.inflight = client[c].inflight /\ p.cmd = client[c].cmd
  BY <1>1 DEF ClientState, OptServer
<1>3. /\ p.inflight /\ client' = [client EXCEPT ![c] = p] /\ SendReq(p, to)
      /\ UNCHANGED unchangedByClients
  BY DEF Watchdog
<1> HIDE DEF p
<1>4. QED
  BY <1>2, <1>3, ResendTyped

LEMMA RetryTyped ==
  ASSUME TInv, NEW c \in Client, Retry(c)
  PROVE  TInv'
<1> DEFINE p == [client[c] EXCEPT !.retry = 0]
<1>1. client[c] \in ClientState
  BY DEF TInv, TypeOK
<1>2. p \in ClientState /\ p.inflight = client[c].inflight /\ p.cmd = client[c].cmd
  BY <1>1 DEF ClientState
<1>3. /\ client' = [client EXCEPT ![c] = p]
      /\ UNCHANGED unchangedByClients
      /\ UNCHANGED net \/ (p.inflight /\ \E to \in Server : SendReq(p, to))
  BY DEF Retry
<1> HIDE DEF p
<1>4. QED
  BY <1>2, <1>3, ResendTyped

LEMMA HandleRespTyped ==
  ASSUME TInv, NEW m \in net, HandleResp(m)
  PROVE  TInv'
<1> DEFINE c == m.to
           p == client[c]
           redirected == [p EXCEPT !.target = IF m.hint # p.target THEN m.hint ELSE None,
                                   !.retry = IF p.retry = 0 THEN p.seq ELSE p.retry]
           answered == [p EXCEPT !.inflight = FALSE, !.out = m.res,
                                 !.lastSeen[p.cmd.key] = Seen(p, m.res)]
<1>1. m \in Response /\ c \in Client
  BY DEF HandleResp, TInv, TypeOK, Request, Response
<1>2. client \in [Client -> ClientState] /\ p \in ClientState
  BY <1>1 DEF TInv, TypeOK
<1>3. /\ net' \subseteq net /\ UNCHANGED unchangedByClients
      /\ client' = [client EXCEPT ![c] =
                      IF ~AnswersCurrent(p, m) THEN p
                      ELSE IF ~m.ok THEN redirected ELSE answered]
  BY DEF HandleResp, Exchange, Delivered
<1>4. redirected \in ClientState /\ redirected.inflight = p.inflight /\ redirected.cmd = p.cmd
  BY <1>1, <1>2 DEF ClientState, Response, OptServer
<1>5. CASE AnswersCurrent(p, m) /\ m.ok
  <2>1. WellFormed(p.cmd) /\ p.cmd \in Command
    BY <1>1, <1>5 DEF AnswersCurrent, TInv, WellFormedCommands, WellFormed
  <2>2. m.res \in Result /\ p.cmd.key \in Key
    BY <1>1, <2>1 DEF Response, Command
  <2>3. Seen(p, m.res) \in OptValue
    BY <2>1, <2>2 DEF Seen, Command, Result
  <2>4. answered \in ClientState /\ ~answered.inflight
    BY <1>2, <2>2, <2>3 DEF ClientState
  <2>5. client' = [client EXCEPT ![c] = answered]
    BY <1>3, <1>5
  <2> HIDE DEF answered, c, p
  <2>6. client' \in [Client -> ClientState]
    BY <1>2, <2>4, <2>5
  <2>7. \A d \in Client : client'[d].inflight => WellFormed(client'[d].cmd)
    BY <1>2, <2>4, <2>5 DEF TInv, WellFormedCommands
  <2>8. QED
    BY <1>3, <2>6, <2>7, ClientStepTyped DEF TInv, TypeOK, WellFormedCommands
<1>6. CASE ~(AnswersCurrent(p, m) /\ m.ok)
  <2>1. \E q \in {p, redirected} : client' = [client EXCEPT ![c] = q]
    BY <1>3, <1>6
  <2> HIDE DEF redirected, answered
  <2>2. client' \in [Client -> ClientState]
    BY <1>1, <1>2, <1>4, <2>1
  <2>3. \A d \in Client : client'[d].inflight => WellFormed(client'[d].cmd)
    BY <1>1, <1>2, <1>4, <2>1 DEF TInv, WellFormedCommands
  <2>4. QED
    BY <1>3, <2>2, <2>3, ClientStepTyped DEF TInv, TypeOK, WellFormedCommands
<1>7. QED
  BY <1>5, <1>6

-----------------------------------------------------------------------------
(* Types: the steps of the servers *)

LEMMA ExchangeTyped ==
  ASSUME TInv, NEW m, NEW msgs \in SUBSET Response, Exchange(m, msgs)
  PROVE  /\ net' \in SUBSET (Request \cup Response)
         /\ \A q \in net' : q.type = "creq" => WellFormed(q.cmd)
         /\ net' \subseteq net \cup msgs
  BY DEF Exchange, Delivered, TInv, TypeOK, WellFormedCommands, Response

LEMMA NetTyped ==
  ASSUME TInv, NEW msgs \in SUBSET Response, net' = net \cup msgs
  PROVE  /\ net' \in SUBSET (Request \cup Response)
         /\ \A q \in net' : q.type = "creq" => WellFormed(q.cmd)
  BY DEF TInv, TypeOK, WellFormedCommands, Response

LEMMA RequestFields ==
  ASSUME TInv, NEW m \in net, m.type = "creq"
  PROVE  m \in Request /\ m.to \in Server /\ m.cmd \in Command /\ WellFormed(m.cmd)
  BY DEF TInv, TypeOK, Request, Response, WellFormedCommands

\* A client that waits, or none.
LEMMA PendingTyped ==
  ASSUME TypeOK, NEW i \in Server, NEW c \in Client, NEW n \in Nat
  PROVE  /\ [pending EXCEPT ![i][c] = n] \in [Server -> [Client -> Nat]]
         /\ [pending EXCEPT ![i] = NoPending] \in [Server -> [Client -> Nat]]
         /\ [pending EXCEPT ![i] = [NoPending EXCEPT ![c] = n]]
              \in [Server -> [Client -> Nat]]
  BY DEF TypeOK, NoPending

LEMMA ReplyTyped ==
  ASSUME TInv, NEW m \in net, Reply(m)
  PROVE  TInv'
<1> DEFINE i == m.to
           ok == OkResp(m.cmd.client, m.cmd.seq, store[i].sessions[m.cmd.client].lastResult)
<1>1. /\ i \in Server /\ m.cmd \in Command
      /\ m.cmd.client \in Client /\ m.cmd.seq \in Nat
  BY RequestFields DEF Reply, Command
<1>2. believed[i] \in OptServer /\ store[i].sessions[m.cmd.client] \in Session
  BY <1>1 DEF TInv, TypeOK, Store
<1>3. ok \in Response
  BY <1>1, <1>2 DEF OkResp, Response, Session, OptServer
<1>4. \A hint \in OptServer : Redirect(m.cmd, hint) \in Response
  BY <1>1 DEF Redirect, Response, NoResult, Result, OptValue
<1>5. \E msgs \in SUBSET Response : Exchange(m, msgs)
  BY <1>1, <1>2, <1>3, <1>4 DEF Reply, OptServer
<1>6. UNCHANGED unchangedByReply
  BY DEF Reply
<1>7. QED
  BY <1>5, <1>6, ExchangeTyped
  DEF TInv, TypeOK, WellFormedCommands, SoundStores, SoundSnapshots, unchangedByReply, raft

LEMMA ProposeTyped ==
  ASSUME TInv, NEW m \in net, Propose(m)
  PROVE  TInv'
<1>1. /\ m.to \in Server /\ m.cmd \in Command /\ WellFormed(m.cmd)
      /\ m.cmd.client \in Client /\ m.cmd.seq \in Nat
  BY RequestFields DEF Propose, Proposable, Command
<1>2. \E copy \in Nat :
        offers' = offers \cup {[cmd |-> m.cmd, owner |-> m.to, copy |-> copy]}
  BY ServiceAssumption DEF Propose
<1>3. offers' \in SUBSET Offer /\ \A o \in offers' : WellFormed(o.cmd)
  BY <1>1, <1>2 DEF Offer, TInv, TypeOK, WellFormedCommands
<1>4. pending' \in [Server -> [Client -> Nat]]
  BY <1>1, PendingTyped DEF Propose, WaitFor, TInv
<1>5. /\ net' \in SUBSET (Request \cup Response)
      /\ \A q \in net' : q.type = "creq" => WellFormed(q.cmd)
  BY ExchangeTyped DEF Propose
<1>6. UNCHANGED <<raft, believed, store, disk, client, snaps, stores, effectAt,
                  elections, crashes>>
  BY DEF Propose
<1>7. QED
  BY <1>3, <1>4, <1>5, <1>6
  DEF TInv, TypeOK, WellFormedCommands, SoundStores, SoundSnapshots, raft

LEMMA AppCrashTyped ==
  ASSUME TInv, NEW i \in Server, NEW new \in Seq(LogItem), AppCrash(i, new)
  PROVE  /\ log' \in Seq(LogItem) /\ log' = log \o new /\ up' \in SUBSET Server
         /\ app' \in [Server -> Seq(LogItem)] /\ saved' \in [Server -> Seq(LogItem)]
         /\ store' \in [Server -> Store] /\ \A j \in Server : SoundStore(store'[j])
         /\ believed' \in [Server -> OptServer] /\ crashes' \in Nat
<1>1. /\ crashes' = crashes + 1 /\ Raft!Fail(i, new, Len(saved[i]))
      /\ store' = [store EXCEPT ![i] = NewStore]
      /\ believed' = [believed EXCEPT ![i] = None]
  BY DEF AppCrash
<1>2. SoundStore(NewStore) /\ NewStore \in Store
  BY NewStoreSound DEF SoundStore
<1>3. /\ store \in [Server -> Store] /\ believed \in [Server -> OptServer] /\ crashes \in Nat
      /\ \A j \in Server : SoundStore(store[j])
  BY DEF TInv, TypeOK, SoundStores
<1>4. /\ store' \in [Server -> Store] /\ \A j \in Server : SoundStore(store'[j])
      /\ believed' \in [Server -> OptServer] /\ crashes' \in Nat
  BY <1>1, <1>2, <1>3 DEF OptServer
<1>5. QED
  BY <1>1, <1>4, FailTyped DEF TInv

\* A crash that commits nothing leaves the log alone.
LEMMA NothingNew ==
  ASSUME TInv
  PROVE  <<>> \in Seq(LogItem) /\ log \o <<>> = log
  BY DEF TInv, TypeOK

LEMMA CrashTyped ==
  ASSUME TInv, NEW i \in Server, Crash(i)
  PROVE  TInv'
<1>1. pending' \in [Server -> [Client -> Nat]]
  BY DEF Crash, NobodyWaits, TInv, TypeOK, NoPending
<1>2. AppCrash(i, <<>>)
  BY DEF Crash
<1>3. UNCHANGED <<offers, disk, client, net, snaps, stores, effectAt, elections>>
  BY DEF Crash
<1>4. QED
  BY <1>1, <1>2, <1>3, NothingNew, AppCrashTyped
  DEF TInv, TypeOK, WellFormedCommands, SoundStores, SoundSnapshots

LEMMA ProposeCrashTyped ==
  ASSUME TInv, NEW m \in net, ProposeCrash(m)
  PROVE  TInv'
<1>1. m.to \in Server /\ m.cmd.client \in Client /\ m.cmd.seq \in Nat
  BY RequestFields DEF ProposeCrash, Proposable, Command
<1>2. pending' \in [Server -> [Client -> Nat]]
  BY <1>1, PendingTyped DEF ProposeCrash, WaitsThoughDown, TInv
<1>3. AppCrash(m.to, <<>>)
  BY DEF ProposeCrash
<1>4. /\ net' \in SUBSET (Request \cup Response)
      /\ \A q \in net' : q.type = "creq" => WellFormed(q.cmd)
  BY ExchangeTyped DEF ProposeCrash
<1>5. UNCHANGED <<offers, disk, client, snaps, stores, effectAt, elections>>
  BY DEF ProposeCrash
<1>6. QED
  BY <1>1, <1>2, <1>3, <1>4, <1>5, NothingNew, AppCrashTyped
  DEF TInv, TypeOK, WellFormedCommands, SoundStores, SoundSnapshots

LEMMA RestartTyped ==
  ASSUME TInv, NEW i \in Server, Restart(i)
  PROVE  TInv'
<1>1. /\ up' = up \cup {i} /\ app' = [app EXCEPT ![i] = saved[i]] /\ UNCHANGED <<log, saved>>
      /\ store' = [store EXCEPT ![i] = RestoreStore(disk[i])]
      /\ pending' = [pending EXCEPT ![i] = NoPending]
      /\ UNCHANGED <<offers, believed, disk, client, net, snaps, stores, effectAt, elections,
                     crashes>>
  BY DEF Restart, NobodyWaits, Raft!Recover
<1>2. SoundStore(RestoreStore(disk[i])) /\ RestoreStore(disk[i]) \in Store
  BY RestoreSound DEF TInv, SoundSnapshots, SoundStore
<1>3. /\ store \in [Server -> Store] /\ pending \in [Server -> [Client -> Nat]]
      /\ app \in [Server -> Seq(LogItem)] /\ saved \in [Server -> Seq(LogItem)]
      /\ up \in SUBSET Server /\ \A j \in Server : SoundStore(store[j])
  BY DEF TInv, TypeOK, SoundStores
<1>4. /\ store' \in [Server -> Store] /\ \A j \in Server : SoundStore(store'[j])
      /\ pending' \in [Server -> [Client -> Nat]]
      /\ app' \in [Server -> Seq(LogItem)] /\ up' \in SUBSET Server
  BY <1>1, <1>2, <1>3 DEF NoPending
<1>5. QED
  BY <1>1, <1>4 DEF TInv, TypeOK, WellFormedCommands, SoundStores, SoundSnapshots

LEMMA InstallTyped ==
  ASSUME TInv, NEW i \in Server, NEW snap \in snaps, Install(i, snap)
  PROVE  TInv'
<1>1. /\ Raft!Step(i, <<>>, snap.upto, snap.upto)
      /\ store' = [store EXCEPT ![i] = RestoreStore(snap.data)]
      /\ disk' = [disk EXCEPT ![i] = snap.data]
      /\ pending' = [pending EXCEPT ![i] = NoPending]
      /\ UNCHANGED <<offers, believed, client, net, snaps, stores, effectAt, elections,
                     crashes>>
  BY DEF Install, NobodyWaits
<1>2. /\ SoundStore(RestoreStore(snap.data)) /\ RestoreStore(snap.data) \in Store
      /\ \E s : SoundStore(s) /\ snap.data = Encode(s)
  BY RestoreSound DEF TInv, SoundSnapshots, SoundStore
<1>3. snap.data \in Encoded
  BY DEF TInv, TypeOK, Snapshot
<1>4. /\ store \in [Server -> Store] /\ pending \in [Server -> [Client -> Nat]]
      /\ disk \in [Server -> Encoded] /\ \A j \in Server : SoundStore(store[j])
      /\ log \in Seq(LogItem) /\ <<>> \in Seq(LogItem)
  BY DEF TInv, TypeOK, SoundStores
<1>5. /\ store' \in [Server -> Store] /\ \A j \in Server : SoundStore(store'[j])
      /\ pending' \in [Server -> [Client -> Nat]] /\ disk' \in [Server -> Encoded]
  BY <1>1, <1>2, <1>3, <1>4 DEF NoPending
<1>6. /\ log' = log \o <<>> /\ up' \in SUBSET Server
      /\ app' \in [Server -> Seq(LogItem)] /\ saved' \in [Server -> Seq(LogItem)]
  BY <1>1, <1>4, StepTyped DEF TInv
<1>7. log' = log
  BY <1>4, <1>6
<1>8. SoundSnapshots'
  BY <1>1, <1>2, <1>4 DEF TInv, SoundSnapshots
<1>9. QED
  BY <1>1, <1>5, <1>6, <1>7, <1>8 DEF TInv, TypeOK, WellFormedCommands, SoundStores

-----------------------------------------------------------------------------
(* Types: the log and its application *)

\* The log grows by the entry e, and the history of stores with it.
Grown(e) == log' = Append(log, e) /\ stores' = Append(stores, After(stores[Len(stores)], e))

LEMMA CommandIsNotNoop ==
  ASSUME NEW e, WellFormed(e)
  PROVE  e # Noop
  BY DEF WellFormed, Command, Noop

LEMMA GrownTyped ==
  ASSUME TInv, NEW e \in LogItem, e = Noop \/ WellFormed(e), Grown(e)
  PROVE  /\ stores' \in Seq(Store) /\ \A k \in DOMAIN stores' : SoundStore(stores'[k])
         /\ Len(stores') = Len(log') + 1
         /\ \A k \in DOMAIN log' : log'[k] = Noop \/ WellFormed(log'[k])
<1> DEFINE s == After(stores[Len(stores)], e)
<1>1. /\ stores \in Seq(Store) /\ log \in Seq(LogItem) /\ Len(stores) = Len(log) + 1
      /\ \A k \in DOMAIN stores : SoundStore(stores[k])
      /\ \A k \in DOMAIN log : log[k] = Noop \/ WellFormed(log[k])
  BY DEF TInv, TypeOK, SoundStores, WellFormedCommands
<1>2. SoundStore(stores[Len(stores)])
  BY <1>1
<1>3. SoundStore(s) /\ s \in Store
  BY <1>2, AfterSound DEF SoundStore
<1>4. stores' = Append(stores, s) /\ log' = Append(log, e)
  BY DEF Grown
<1> HIDE DEF s
<1>5. stores' \in Seq(Store) /\ Len(stores') = Len(log') + 1
  BY <1>1, <1>3, <1>4
<1>6. \A k \in DOMAIN stores' : SoundStore(stores'[k])
  BY <1>1, <1>3, <1>4
<1>7. \A k \in DOMAIN log' : log'[k] = Noop \/ WellFormed(log'[k])
  BY <1>1, <1>4
<1>8. QED
  BY <1>5, <1>6, <1>7

\* A leader's commitment of the entry e.
LEMMA LeaderCommitTyped ==
  ASSUME TInv, NEW i \in Server, NEW e \in LogItem, e = Noop \/ WellFormed(e),
         LeaderCommit(i, <<e>>),
         stores' = Append(stores, After(stores[Len(stores)], e)),
         offers' \subseteq offers,
         UNCHANGED <<believed, elections>>, UNCHANGED unchangedByRaft
  PROVE  TInv' /\ Grown(e)
<1>1. log \in Seq(LogItem) /\ <<e>> \in Seq(LogItem)
  BY DEF TInv, TypeOK
<1>2. /\ log' \in Seq(LogItem) /\ up' \in SUBSET Server
      /\ app' \in [Server -> Seq(LogItem)] /\ saved' \in [Server -> Seq(LogItem)]
      /\ log' = log \o <<e>>
  BY <1>1, StepTyped DEF LeaderCommit, TInv
<1>3. log' = Append(log, e)
  BY <1>1, <1>2
<1>4. Grown(e)
  BY <1>3 DEF Grown
<1>5. QED
  BY <1>2, <1>4, GrownTyped
  DEF TInv, TypeOK, WellFormedCommands, SoundStores, SoundSnapshots, unchangedByRaft

LEMMA CommitTyped ==
  ASSUME TInv, NEW i \in Server, NEW o \in offers, Commit(i, o)
  PROVE  TInv' /\ Grown(o.cmd)
<1>1. WellFormed(o.cmd) /\ o.cmd \in LogItem
  BY DEF TInv, WellFormedCommands, WellFormed, LogItem
<1>2. stores' = Append(stores, After(stores[Len(stores)], o.cmd))
  BY <1>1, CommandIsNotNoop DEF After, Commit
<1>3. QED
  BY <1>1, <1>2, LeaderCommitTyped DEF Commit

LEMMA CommitNoopTyped ==
  ASSUME TInv, NEW i \in Server, CommitNoop(i)
  PROVE  TInv' /\ Grown(Noop)
<1>1. Noop \in LogItem
  BY DEF LogItem
<1>2. stores' = Append(stores, After(stores[Len(stores)], Noop))
  BY DEF After, CommitNoop
<1>3. QED
  BY <1>1, <1>2, LeaderCommitTyped DEF CommitNoop

LEMMA ProposeAloneTyped ==
  ASSUME TInv, NEW m \in net, ProposeAlone(m)
  PROVE  TInv' /\ Grown(m.cmd)
<1> DEFINE i == m.to
           k == Len(log) + 1
<1>1. /\ i \in Server /\ m.cmd \in Command /\ WellFormed(m.cmd) /\ m.cmd # Noop
      /\ m.cmd.client \in Client /\ m.cmd.seq \in Nat /\ m.cmd \in LogItem
  BY RequestFields, CommandIsNotNoop DEF ProposeAlone, Proposable, Command, LogItem
<1>2. log \in Seq(LogItem) /\ <<m.cmd>> \in Seq(LogItem) /\ k \in Nat /\ k = Len(stores)
  BY <1>1 DEF TInv, TypeOK
<1>3. /\ Raft!Step(i, <<m.cmd>>, k, Covered(i, k, TRUE))
      /\ AppApply(i, k, m.cmd, TRUE)
      /\ stores' = Append(stores, Apply(stores[k], m.cmd).store)
      /\ WaitFor(i, m.cmd) /\ Exchange(m, Answer(i, m.cmd))
      /\ UNCHANGED <<offers, believed, client, elections, crashes>>
  BY DEF ProposeAlone
<1>4. /\ log' \in Seq(LogItem) /\ up' \in SUBSET Server
      /\ app' \in [Server -> Seq(LogItem)] /\ saved' \in [Server -> Seq(LogItem)]
      /\ log' = log \o <<m.cmd>>
  BY <1>1, <1>2, <1>3, StepTyped DEF TInv
<1>5. Grown(m.cmd)
  BY <1>1, <1>2, <1>3, <1>4 DEF Grown, After
<1>6. /\ stores' \in Seq(Store) /\ \A j \in DOMAIN stores' : SoundStore(stores'[j])
      /\ Len(stores') = Len(log') + 1
      /\ \A j \in DOMAIN log' : log'[j] = Noop \/ WellFormed(log'[j])
  BY <1>1, <1>5, GrownTyped
<1>7. /\ store' \in [Server -> Store] /\ \A j \in Server : SoundStore(store'[j])
      /\ disk' \in [Server -> Encoded] /\ snaps' \in SUBSET Snapshot
      /\ effectAt' \in SUBSET [cmd : Command, at : Nat]
      /\ SoundSnapshots'
  BY <1>1, <1>2, <1>3, AppApplyTyped
<1>8. pending' \in [Server -> [Client -> Nat]]
  BY <1>1, <1>3, PendingTyped DEF WaitFor, TInv
<1>9. /\ net' \in SUBSET (Request \cup Response)
      /\ \A q \in net' : q.type = "creq" => WellFormed(q.cmd)
  BY <1>1, <1>3, AnswerTyped, ExchangeTyped
<1> HIDE DEF i, k
<1>10. QED
  BY <1>3, <1>4, <1>5, <1>6, <1>7, <1>8, <1>9
  DEF TInv, TypeOK, WellFormedCommands, SoundStores

LEMMA ProposeAloneCrashTyped ==
  ASSUME TInv, NEW m \in net, ProposeAloneCrash(m)
  PROVE  TInv' /\ Grown(m.cmd)
<1> DEFINE i == m.to
           k == Len(log) + 1
<1>1. /\ i \in Server /\ m.cmd \in Command /\ WellFormed(m.cmd) /\ m.cmd # Noop
      /\ m.cmd.client \in Client /\ m.cmd.seq \in Nat /\ m.cmd \in LogItem
  BY RequestFields, CommandIsNotNoop DEF ProposeAloneCrash, Proposable, Command, LogItem
<1>2. log \in Seq(LogItem) /\ <<m.cmd>> \in Seq(LogItem) /\ k \in Nat /\ k = Len(stores)
  BY <1>1 DEF TInv, TypeOK
<1>3. /\ AppCrash(i, <<m.cmd>>)
      /\ effectAt' = effectAt \cup NewEffects(i, k, m.cmd)
      /\ stores' = Append(stores, Apply(stores[k], m.cmd).store)
      /\ WaitsThoughDown(i, m.cmd) /\ Exchange(m, Answer(i, m.cmd))
      /\ UNCHANGED <<offers, disk, client, snaps, elections>>
  BY DEF ProposeAloneCrash
<1>4. /\ log' \in Seq(LogItem) /\ log' = log \o <<m.cmd>> /\ up' \in SUBSET Server
      /\ app' \in [Server -> Seq(LogItem)] /\ saved' \in [Server -> Seq(LogItem)]
      /\ store' \in [Server -> Store] /\ \A j \in Server : SoundStore(store'[j])
      /\ believed' \in [Server -> OptServer] /\ crashes' \in Nat
  BY <1>1, <1>2, <1>3, AppCrashTyped
<1>5. Grown(m.cmd)
  BY <1>1, <1>2, <1>3, <1>4 DEF Grown, After
<1>6. /\ stores' \in Seq(Store) /\ \A j \in DOMAIN stores' : SoundStore(stores'[j])
      /\ Len(stores') = Len(log') + 1
      /\ \A j \in DOMAIN log' : log'[j] = Noop \/ WellFormed(log'[j])
  BY <1>1, <1>5, GrownTyped
<1>7. effectAt' \in SUBSET [cmd : Command, at : Nat]
  BY <1>1, <1>2, <1>3, NewEffectsTyped DEF TInv
<1>8. pending' \in [Server -> [Client -> Nat]]
  BY <1>1, <1>3, PendingTyped DEF WaitsThoughDown, TInv
<1>9. /\ net' \in SUBSET (Request \cup Response)
      /\ \A q \in net' : q.type = "creq" => WellFormed(q.cmd)
  BY <1>1, <1>3, AnswerTyped, ExchangeTyped
<1> HIDE DEF i, k
<1>10. QED
  BY <1>3, <1>4, <1>5, <1>6, <1>7, <1>8, <1>9
  DEF TInv, TypeOK, WellFormedCommands, SoundStores, SoundSnapshots

\* The entry that a server applies next.
LEMMA NextEntry ==
  ASSUME TInv, NEW i \in Server, Len(app[i]) + 1 <= Len(log)
  PROVE  LET k == Len(app[i]) + 1
         IN  /\ k \in Nat \ {0} /\ k \in Nat /\ k \in DOMAIN log /\ k \in 0 .. Len(log)
             /\ k \in DOMAIN stores /\ k + 1 \in DOMAIN stores
             /\ log[k] = Noop \/ WellFormed(log[k])
<1>1. /\ log \in Seq(LogItem) /\ app[i] \in Seq(LogItem)
      /\ stores \in Seq(Store) /\ Len(stores) = Len(log) + 1
  BY DEF TInv, TypeOK
<1>2. Len(app[i]) + 1 \in DOMAIN log
  BY <1>1
<1>3. QED
  BY <1>1, <1>2 DEF TInv, WellFormedCommands

LEMMA ApplyNextTyped ==
  ASSUME TInv, NEW i \in Server, NEW last \in BOOLEAN, ApplyNext(i, last)
  PROVE  TInv' /\ log' = log
<1> DEFINE k     == Len(app[i]) + 1
           entry == log[k]
<1>1. /\ k <= Len(log) /\ Raft!Step(i, <<>>, k, Covered(i, k, last))
      /\ AppApply(i, k, entry, last)
      /\ pending' = StillWaiting(i, entry) /\ net' = net \cup Answer(i, entry)
      /\ UNCHANGED <<offers, believed, client, stores, elections, crashes>>
  BY DEF ApplyNext
<1>2. k \in Nat /\ (entry = Noop \/ WellFormed(entry))
  BY <1>1, NextEntry
<1> HIDE DEF k, entry
<1>3. /\ log' \in Seq(LogItem) /\ up' \in SUBSET Server
      /\ app' \in [Server -> Seq(LogItem)] /\ saved' \in [Server -> Seq(LogItem)]
      /\ log' = log
  BY <1>1, NothingNew, StepTyped DEF TInv
<1>4. /\ store' \in [Server -> Store] /\ \A j \in Server : SoundStore(store'[j])
      /\ disk' \in [Server -> Encoded] /\ snaps' \in SUBSET Snapshot
      /\ effectAt' \in SUBSET [cmd : Command, at : Nat]
      /\ SoundSnapshots'
  BY <1>1, <1>2, AppApplyTyped
<1>5. /\ pending' \in [Server -> [Client -> Nat]]
      /\ net' \in SUBSET (Request \cup Response)
      /\ \A q \in net' : q.type = "creq" => WellFormed(q.cmd)
  BY <1>1, <1>2, AnswerTyped, NetTyped
<1>6. QED
  BY <1>1, <1>3, <1>4, <1>5
  DEF TInv, TypeOK, WellFormedCommands, SoundStores

LEMMA SnapshotCrashTyped ==
  ASSUME TInv, NEW i \in Server, SnapshotCrash(i)
  PROVE  TInv' /\ log' = log
<1> DEFINE k     == Len(app[i]) + 1
           entry == log[k]
<1>1. /\ k <= Len(log) /\ AppCrash(i, <<>>)
      /\ effectAt' = effectAt \cup NewEffects(i, k, entry)
      /\ net' = net \cup Answer(i, entry) /\ NobodyWaits(i)
      /\ UNCHANGED <<offers, disk, client, snaps, stores, elections>>
  BY DEF SnapshotCrash
<1>2. k \in Nat /\ (entry = Noop \/ WellFormed(entry))
  BY <1>1, NextEntry
<1> HIDE DEF k, entry
<1>3. /\ log' = log /\ up' \in SUBSET Server
      /\ app' \in [Server -> Seq(LogItem)] /\ saved' \in [Server -> Seq(LogItem)]
      /\ store' \in [Server -> Store] /\ \A j \in Server : SoundStore(store'[j])
      /\ believed' \in [Server -> OptServer] /\ crashes' \in Nat
  BY <1>1, NothingNew, AppCrashTyped
<1>4. effectAt' \in SUBSET [cmd : Command, at : Nat]
  BY <1>1, <1>2, NewEffectsTyped DEF TInv
<1>5. /\ net' \in SUBSET (Request \cup Response)
      /\ \A q \in net' : q.type = "creq" => WellFormed(q.cmd)
  BY <1>1, <1>2, AnswerTyped, NetTyped
<1>6. pending' \in [Server -> [Client -> Nat]]
  BY <1>1 DEF NobodyWaits, TInv, TypeOK, NoPending
<1>7. QED
  BY <1>1, <1>3, <1>4, <1>5, <1>6
  DEF TInv, TypeOK, WellFormedCommands, SoundStores, SoundSnapshots

\* What an installation that keeps the log does.
Kept(i, snap, k, entry) ==
  /\ k = Len(app[i]) + 1 /\ k <= Len(log) /\ entry = log[k] /\ snap.upto = k
  /\ Raft!Step(i, <<>>, k, k)
  /\ store' = [store EXCEPT ![i] = After(store[i], entry)]
  /\ disk' = [disk EXCEPT ![i] = snap.data]
  /\ effectAt' = effectAt \cup NewEffects(i, k, entry)
  /\ pending' = StillWaiting(i, entry) /\ net' = net \cup Answer(i, entry)
  /\ UNCHANGED <<log, offers, believed, client, snaps, stores, elections, crashes>>

LEMMA InstallKeptIs ==
  ASSUME TInv, NEW i \in Server, NEW snap, InstallKept(i, snap)
  PROVE  Kept(i, snap, Len(app[i]) + 1, log[Len(app[i]) + 1])
<1> DEFINE k == Len(app[i]) + 1
           e == log[k]
<1>1. /\ snap.upto = k /\ Raft!Step(i, <<>>, k, k)
      /\ store' = [store EXCEPT ![i] = Outcome(store[i], e).store]
      /\ disk' = [disk EXCEPT ![i] = snap.data]
      /\ effectAt' = effectAt \cup NewEffects(i, k, e)
      /\ pending' = StillWaiting(i, e) /\ net' = net \cup Answer(i, e)
      /\ UNCHANGED <<offers, believed, client, snaps, stores, elections, crashes>>
  BY DEF InstallKept
<1>2. log' = log \o <<>> /\ k \in Len(app[i]) .. Len(log')
  BY <1>1 DEF Raft!Step
<1>3. log' = log /\ k <= Len(log)
  BY <1>2, NothingNew DEF TInv, TypeOK
<1> HIDE DEF k, e
<1>4. Kept(i, snap, k, e)
  BY <1>1, <1>3, OutcomeStore DEF Kept, k, e
<1>5. QED
  BY <1>4 DEF k, e

LEMMA InstallKeptTyped ==
  ASSUME TInv, NEW i \in Server, NEW snap \in snaps, InstallKept(i, snap)
  PROVE  TInv'
<1> DEFINE k     == Len(app[i]) + 1
           entry == log[k]
<1>1. Kept(i, snap, k, entry)
  BY InstallKeptIs
<1>2. k \in Nat /\ (entry = Noop \/ WellFormed(entry))
  BY <1>1, NextEntry DEF Kept
<1> HIDE DEF k, entry
<1>3. /\ log' \in Seq(LogItem) /\ up' \in SUBSET Server
      /\ app' \in [Server -> Seq(LogItem)] /\ saved' \in [Server -> Seq(LogItem)]
  BY <1>1, NothingNew, StepTyped DEF TInv, Kept
<1>4. /\ store' \in [Server -> Store] /\ \A j \in Server : SoundStore(store'[j])
  <2> DEFINE s == After(store[i], entry)
  <2>1. SoundStore(s)
    BY <1>2, AfterSound DEF TInv, SoundStores
  <2>2. s \in Store /\ store' = [store EXCEPT ![i] = s] /\ store \in [Server -> Store]
    BY <1>1, <2>1 DEF SoundStore, Kept, TInv, TypeOK
  <2> HIDE DEF s
  <2>3. QED
    BY <2>1, <2>2 DEF TInv, SoundStores
<1>5. /\ disk' = [disk EXCEPT ![i] = snap.data] /\ disk \in [Server -> Encoded]
      /\ snap.data \in Encoded /\ \E s : SoundStore(s) /\ snap.data = Encode(s)
  BY <1>1 DEF Kept, TInv, TypeOK, SoundSnapshots, Snapshot
<1>6. disk' \in [Server -> Encoded] /\ SoundSnapshots'
  BY <1>1, <1>5 DEF Kept, TInv, SoundSnapshots
<1>7. effectAt' \in SUBSET [cmd : Command, at : Nat]
  BY <1>1, <1>2, NewEffectsTyped DEF TInv, Kept
<1>8. /\ pending' \in [Server -> [Client -> Nat]]
      /\ net' \in SUBSET (Request \cup Response)
      /\ \A q \in net' : q.type = "creq" => WellFormed(q.cmd)
  BY <1>1, <1>2, AnswerTyped, NetTyped DEF Kept
<1>9. QED
  BY <1>1, <1>3, <1>4, <1>6, <1>7, <1>8
  DEF TInv, TypeOK, WellFormedCommands, SoundStores, Kept

-----------------------------------------------------------------------------
(* Types: the theorem *)

LEMMA OtherTyped ==
  ASSUME TInv,
         \/ \E m \in net : Lose(m)
         \/ \E o \in offers : LoseOffer(o)
         \/ \E i \in Server, l \in OptServer : ElectionChange(i, l)
         \/ UNCHANGED vars
  PROVE  TInv'
<1> USE DEF TInv, TypeOK, WellFormedCommands, SoundStores, SoundSnapshots, raft
<1>1. CASE \E m \in net : Lose(m)
  BY <1>1 DEF Lose
<1>2. CASE \E o \in offers : LoseOffer(o)
  BY <1>2 DEF LoseOffer, unchangedByRaft
<1>3. CASE \E i \in Server, l \in OptServer : ElectionChange(i, l)
  BY <1>3 DEF ElectionChange, unchangedByRaft
<1>4. CASE UNCHANGED vars
  BY <1>4 DEF vars
<1>5. QED
  BY <1>1, <1>2, <1>3, <1>4

LEMMA NextTyped == TInv /\ [Next]_vars => TInv'
<1> SUFFICES ASSUME TInv, [Next]_vars PROVE TInv'
  OBVIOUS
<1> USE ServiceAssumption
<1>1. ASSUME NEW c \in Client, NEW op \in Kinds[c], NEW k \in Key, StartNextOp(c, op, k)
      PROVE  TInv'
  <2>1. op \in {"Get", "Put", "CAS"}
    OBVIOUS
  <2>2. QED
    BY <1>1, <2>1, StartNextOpTyped
<1>2. QED
  BY <1>1, WatchdogTyped, RetryTyped, HandleRespTyped, ReplyTyped, ProposeTyped,
     ProposeAloneTyped, ProposeCrashTyped, ProposeAloneCrashTyped, ApplyNextTyped,
     CrashTyped, SnapshotCrashTyped, RestartTyped, CommitNoopTyped, InstallTyped,
     InstallKeptTyped, CommitTyped, OtherTyped
  DEF Next

LEMMA Typed == Spec => []TInv
<1>1. Init => TInv
  BY InitTyped
<1>2. TInv /\ [Next]_vars => TInv'
  BY NextTyped
<1>3. QED
  BY <1>1, <1>2, PTL DEF Spec

\* Every variable of the service has its type.
THEOREM ServiceTyped == Spec => []TypeOK
<1>1. TInv => TypeOK
  BY DEF TInv
<1>2. QED
  BY <1>1, Typed, PTL

-----------------------------------------------------------------------------
(* Servers follow the log, and no command takes effect twice *)

\* A session never goes back, and has one state for each of its commands.
Older(a, b) == a.lastSeq <= b.lastSeq /\ (a.lastSeq = b.lastSeq => a = b)

\* The history of stores is that of the log's entries, one after the other.
History ==
  /\ stores[1] = NewStore
  /\ \A k \in DOMAIN log : stores[k + 1] = After(stores[k], log[k])
  /\ \A j, k \in DOMAIN stores : j <= k =>
       \A c \in Client : Older(stores[j].sessions[c], stores[k].sessions[c])

\* An application or a snapshot that results from n entries of the log.
IsStoreAt(s, n) == n \in 0 .. Len(log) /\ s = stores[n + 1]

IsSnapshotAt(d, n) == n \in 0 .. Len(log) /\ d = Encode(stores[n + 1])

Standing ==
  /\ \A i \in Server :
       IsStoreAt(store[i], Len(app[i])) /\ IsSnapshotAt(disk[i], Len(saved[i]))
  /\ \A snap \in snaps : IsSnapshotAt(snap.data, snap.upto)

\* A command took effect where the session had not known it, and knows it since.
Effects ==
  \A e \in effectAt :
    /\ e.at \in DOMAIN log
    /\ stores[e.at].sessions[e.cmd.client].lastSeq < e.cmd.seq
    /\ stores[e.at + 1].sessions[e.cmd.client].lastSeq = e.cmd.seq

FInv == History /\ Standing /\ Effects

LEMMA SessionType ==
  ASSUME NEW s, SoundStore(s), NEW c \in Client
  PROVE  s.sessions[c] \in Session /\ s.sessions[c].lastSeq \in Nat
  BY DEF SoundStore, Store, Session

\* Applying an entry takes every session forward (Store.Apply of kv/kv.go).
LEMMA AfterOlder ==
  ASSUME NEW s, SoundStore(s), NEW e, e = Noop \/ WellFormed(e), NEW c \in Client
  PROVE  Older(s.sessions[c], After(s, e).sessions[c])
<1>1. s.sessions[c].lastSeq \in Nat
  BY SessionType
<1>2. CASE e = Noop
  BY <1>1, <1>2 DEF After, Older
<1>3. CASE e # Noop
  <2>1. WellFormed(e) /\ e.seq \in Nat /\ e.client \in Client /\ After(s, e) = Apply(s, e).store
    BY <1>3 DEF After, WellFormed, Command
  <2>2. s.sessions[e.client].lastSeq \in Nat
    BY <2>1, SessionType
  <2> DEFINE t    == Apply(s, e).store
             last == s.sessions[e.client].lastSeq
  <2>3. AppliesOnce(s, e, t, last)
    BY <2>1, ApplySessions
  <2> HIDE DEF t, last
  <2>4. last \in Nat
    BY <2>2 DEF last
  <2>5. CASE last < e.seq /\ c = e.client
    BY <2>1, <2>2, <2>3, <2>5 DEF Older, AppliesOnce, t, last
  <2>6. CASE ~(last < e.seq /\ c = e.client)
    <3>1. t.sessions[c] = s.sessions[c]
      BY <2>1, <2>3, <2>4, <2>6 DEF AppliesOnce
    <3>2. QED
      BY <1>1, <2>1, <3>1 DEF Older, t
  <2>7. QED
    BY <2>5, <2>6
<1>4. QED
  BY <1>2, <1>3

LEMMA GrownHistory ==
  ASSUME TInv, History, NEW e \in LogItem, e = Noop \/ WellFormed(e), Grown(e)
  PROVE  /\ History'
         /\ Len(log') = Len(log) + 1 /\ Len(stores') = Len(stores) + 1
         /\ \A k \in DOMAIN stores : k \in DOMAIN stores' /\ stores'[k] = stores[k]
         /\ stores'[Len(stores')] = After(stores[Len(stores)], e)
<1> DEFINE s == After(stores[Len(stores)], e)
<1>1. /\ log \in Seq(LogItem) /\ stores \in Seq(Store) /\ Len(stores) = Len(log) + 1
      /\ \A k \in DOMAIN stores : SoundStore(stores[k])
  BY DEF TInv, TypeOK, SoundStores
<1>2. SoundStore(stores[Len(stores)])
  BY <1>1
<1>3. SoundStore(s) /\ s \in Store
  BY <1>2, AfterSound DEF SoundStore
<1>4. \A c \in Client : Older(stores[Len(stores)].sessions[c], s.sessions[c])
  BY <1>2, AfterOlder
<1>5. stores' = Append(stores, s) /\ log' = Append(log, e)
  BY DEF Grown
<1>6. s = After(stores[Len(stores)], e)
  OBVIOUS
<1> HIDE DEF s
<1>7. /\ Len(log') = Len(log) + 1 /\ Len(stores') = Len(stores) + 1
      /\ DOMAIN log = 1 .. Len(log) /\ DOMAIN log' = 1 .. Len(log) + 1
      /\ DOMAIN stores = 1 .. Len(stores) /\ DOMAIN stores' = 1 .. Len(stores) + 1
      /\ \A k \in DOMAIN stores : stores'[k] = stores[k]
      /\ \A k \in DOMAIN log : log'[k] = log[k]
      /\ stores'[Len(stores')] = s /\ log'[Len(log')] = e
  BY <1>1, <1>3, <1>5
<1>8. stores'[1] = NewStore
  BY <1>1, <1>7 DEF History
<1>9. ASSUME NEW k \in DOMAIN log' PROVE stores'[k + 1] = After(stores'[k], log'[k])
  <2>1. CASE k \in DOMAIN log
    BY <1>1, <1>7, <2>1 DEF History
  <2>2. CASE k = Len(log) + 1
    BY <1>1, <1>6, <1>7, <2>2
  <2>3. QED
    BY <1>7, <2>1, <2>2
<1>10. ASSUME NEW j \in DOMAIN stores', NEW k \in DOMAIN stores', j <= k, NEW c \in Client
       PROVE  Older(stores'[j].sessions[c], stores'[k].sessions[c])
  <2>1. CASE k \in DOMAIN stores
    <3>1. j \in DOMAIN stores
      BY <1>1, <1>7, <1>10, <2>1
    <3>2. QED
      BY <1>7, <1>10, <2>1, <3>1 DEF History
  <2>2. CASE k \notin DOMAIN stores /\ j \in DOMAIN stores
    <3>1. k = Len(stores') /\ j <= Len(stores) /\ Len(stores) \in DOMAIN stores
      BY <1>1, <1>7, <2>2
    <3>2. Older(stores[j].sessions[c], stores[Len(stores)].sessions[c])
      BY <2>2, <3>1 DEF History
    <3>3. Older(stores[Len(stores)].sessions[c], s.sessions[c])
      BY <1>4
    <3>4. /\ stores[j].sessions[c].lastSeq \in Nat /\ s.sessions[c].lastSeq \in Nat
          /\ stores[Len(stores)].sessions[c].lastSeq \in Nat
      BY <1>1, <1>3, <2>2, <3>1, SessionType
    <3>5. Older(stores[j].sessions[c], s.sessions[c])
      BY <3>2, <3>3, <3>4 DEF Older
    <3>6. QED
      BY <1>7, <2>2, <3>1, <3>5
  <2>3. CASE k \notin DOMAIN stores /\ j \notin DOMAIN stores
    <3>1. stores'[j] = s /\ stores'[k] = s
      BY <1>1, <1>7, <2>3
    <3>2. s.sessions[c].lastSeq \in Nat
      BY <1>3, SessionType
    <3>3. QED
      BY <3>1, <3>2 DEF Older
  <2>4. QED
    BY <2>1, <2>2, <2>3
<1>11. QED
  BY <1>6, <1>7, <1>8, <1>9, <1>10 DEF History

LEMMA InitFollows == Init => FInv
<1> SUFFICES ASSUME Init PROVE FInv
  OBVIOUS
<1>1. /\ log = <<>> /\ stores = <<NewStore>> /\ effectAt = {} /\ snaps = {}
      /\ \A i \in Server : /\ app[i] = <<>> /\ saved[i] = <<>> /\ store[i] = NewStore
                           /\ disk[i] = Encode(NewStore)
  BY DEF Init, Raft!Init
<1>2. stores[1] = NewStore /\ Len(log) = 0 /\ DOMAIN stores = {1}
  BY <1>1
<1>3. History
  <2>1. \A c \in Client : NewStore.sessions[c].lastSeq \in Nat
    BY NewStoreSound, SessionType
  <2>2. QED
    BY <1>1, <1>2, <2>1 DEF History, Older
<1>4. Standing
  BY <1>1, <1>2 DEF Standing, IsStoreAt, IsSnapshotAt
<1>5. QED
  BY <1>1, <1>3, <1>4 DEF FInv, Effects

\* How far a step takes the server.
Stepped(i, new, k, s) ==
  /\ log' = log \o new /\ Len(log') = Len(log) + Len(new)
  /\ k \in 0 .. Len(log') /\ s \in 0 .. Len(log')
  /\ Len(app'[i]) = k /\ Len(saved'[i]) = s
  /\ \A j \in Server \ {i} : app'[j] = app[j] /\ saved'[j] = saved[j]

LEMMA StepLengths ==
  ASSUME TypeOK, NEW i \in Server, NEW new \in Seq(LogItem), NEW k, NEW s,
         Raft!Step(i, new, k, s)
  PROVE  Stepped(i, new, k, s)
<1>1. /\ log \in Seq(LogItem) /\ app[i] \in Seq(LogItem) /\ saved[i] \in Seq(LogItem)
      /\ app \in [Server -> Seq(LogItem)] /\ saved \in [Server -> Seq(LogItem)]
  BY DEF TypeOK
<1>2. /\ log' = log \o new /\ log' \in Seq(LogItem)
      /\ k \in Len(app[i]) .. Len(log') /\ s \in Len(saved[i]) .. k
      /\ app' = [app EXCEPT ![i] = SubSeq(log', 1, k)]
      /\ saved' = [saved EXCEPT ![i] = SubSeq(log', 1, s)]
  BY <1>1 DEF Raft!Step
<1>3. k \in 0 .. Len(log') /\ s \in 0 .. Len(log')
  BY <1>1, <1>2
<1>4. Len(SubSeq(log', 1, k)) = k /\ Len(SubSeq(log', 1, s)) = s
  BY <1>2, <1>3
<1>5. QED
  BY <1>1, <1>2, <1>3, <1>4 DEF Stepped

\* What a step that leaves the log and the stores alone preserves.
LEMMA StutterFollows ==
  ASSUME TInv, FInv, UNCHANGED <<log, stores, effectAt>>, Standing'
  PROVE  FInv'
  BY DEF FInv, History, Effects

LEMMA IdleFollows ==
  ASSUME TInv, FInv, UNCHANGED <<raft, store, disk, snaps, stores, effectAt>>
  PROVE  FInv'
<1>1. Standing'
  BY DEF FInv, Standing, IsStoreAt, IsSnapshotAt, raft
<1>2. QED
  BY <1>1, StutterFollows DEF raft

LEMMA ClientFollows ==
  ASSUME TInv, FInv,
         \/ \E c \in Client, op \in {"Get", "Put", "CAS"}, k \in Key : StartNextOp(c, op, k)
         \/ \E c \in Client, to \in Server : Watchdog(c, to)
         \/ \E c \in Client : Retry(c)
         \/ \E m \in net : HandleResp(m)
         \/ \E m \in net : Reply(m)
         \/ \E m \in net : Propose(m)
         \/ \E m \in net : Lose(m)
         \/ \E o \in offers : LoseOffer(o)
         \/ \E i \in Server, l \in OptServer : ElectionChange(i, l)
         \/ UNCHANGED vars
  PROVE  FInv' /\ UNCHANGED stores
<1>1. UNCHANGED <<raft, store, disk, snaps, stores, effectAt>>
  BY DEF StartNextOp, Watchdog, Retry, HandleResp, Reply, Propose, Lose, LoseOffer,
         ElectionChange, unchangedByClients, unchangedByReply, unchangedByRaft, vars
<1>2. QED
  BY <1>1, IdleFollows

LEMMA CommitFollows ==
  ASSUME TInv, FInv, NEW i \in Server, NEW e \in LogItem, e = Noop \/ WellFormed(e),
         LeaderCommit(i, <<e>>), Grown(e), UNCHANGED unchangedByRaft
  PROVE  FInv'
<1>1. /\ History' /\ Len(log') = Len(log) + 1 /\ Len(stores') = Len(stores) + 1
      /\ \A k \in DOMAIN stores : k \in DOMAIN stores' /\ stores'[k] = stores[k]
  BY GrownHistory DEF FInv
<1>2. /\ log \in Seq(LogItem) /\ stores \in Seq(Store) /\ Len(stores) = Len(log) + 1
      /\ log' \in Seq(LogItem)
  BY GrownTyped DEF TInv, TypeOK, Grown
<1>3. UNCHANGED <<store, disk, snaps, effectAt>>
  BY DEF unchangedByRaft
<1>4. /\ Len(app'[i]) = Len(app[i]) /\ Len(saved'[i]) = Len(saved[i])
      /\ \A j \in Server \ {i} : app'[j] = app[j] /\ saved'[j] = saved[j]
  <2>1. TypeOK /\ <<e>> \in Seq(LogItem)
    BY DEF TInv
  <2>2. Raft!Step(i, <<e>>, Len(app[i]), Len(saved[i]))
    BY DEF LeaderCommit
  <2>3. Stepped(i, <<e>>, Len(app[i]), Len(saved[i]))
    BY <2>1, <2>2, StepLengths
  <2>4. QED
    BY <2>3 DEF Stepped
<1>5. \A n \in 0 .. Len(log) : n \in 0 .. Len(log') /\ stores'[n + 1] = stores[n + 1]
  BY <1>1, <1>2
<1>6. Standing'
  <2>1. \A j \in Server : Len(app'[j]) = Len(app[j]) /\ Len(saved'[j]) = Len(saved[j])
    BY <1>4
  <2>2. \A j \in Server : IsStoreAt(store[j], Len(app[j]))'
    BY <1>3, <1>5, <2>1 DEF FInv, Standing, IsStoreAt
  <2>3. \A j \in Server : IsSnapshotAt(disk[j], Len(saved[j]))'
    BY <1>3, <1>5, <2>1 DEF FInv, Standing, IsSnapshotAt
  <2>4. \A snap \in snaps' : IsSnapshotAt(snap.data, snap.upto)'
    BY <1>3, <1>5 DEF FInv, Standing, IsSnapshotAt
  <2>5. QED
    BY <2>2, <2>3, <2>4 DEF Standing
<1>7. \A k \in DOMAIN log : k \in DOMAIN log' /\ stores'[k] = stores[k]
                            /\ stores'[k + 1] = stores[k + 1]
  BY <1>1, <1>2
<1>8. Effects'
  BY <1>3, <1>7 DEF FInv, Effects
<1>9. QED
  BY <1>1, <1>6, <1>8 DEF FInv

\* A server that applies the entry e as the k-th gets to where the log gets.
LEMMA AppApplyFollows ==
  ASSUME TInv, Standing, NEW i \in Server, NEW k \in Nat \ {0}, NEW e,
         e = Noop \/ WellFormed(e), NEW last \in BOOLEAN,
         AppApply(i, k, e, last),
         Len(app'[i]) = k, Len(saved'[i]) = Covered(i, k, last),
         \A j \in Server \ {i} : app'[j] = app[j] /\ saved'[j] = saved[j],
         k \in 0 .. Len(log'),
         \A n \in 0 .. Len(log) : n \in 0 .. Len(log') /\ stores'[n + 1] = stores[n + 1],
         stores'[k + 1] = After(store[i], e)
  PROVE  Standing'
<1> DEFINE s == After(store[i], e)
<1>0. k \in Nat
  OBVIOUS
<1>1. /\ store' = [store EXCEPT ![i] = s]
      /\ \/ disk' = disk /\ snaps' = snaps /\ ~(last /\ SnapshotDue(i, k))
         \/ /\ disk' = [disk EXCEPT ![i] = Encode(s)]
            /\ snaps' = snaps \cup {[upto |-> k, data |-> Encode(s)]}
            /\ last /\ SnapshotDue(i, k)
  <2>1. Applied(i, k, e, last)
    BY <1>0, AppApplied
  <2>2. QED
    BY <2>1 DEF Applied
<1>2. /\ store \in [Server -> Store] /\ disk \in [Server -> Encoded]
  BY DEF TInv, TypeOK
<1> HIDE DEF s
<1>3. \A j \in Server : IsStoreAt(store[j], Len(app[j]))' \/ j = i
  BY <1>1, <1>2 DEF Standing, IsStoreAt
<1>4. IsStoreAt(store[i], Len(app[i]))'
  BY <1>1, <1>2 DEF IsStoreAt, s
<1>5. \A j \in Server \ {i} : IsSnapshotAt(disk[j], Len(saved[j]))'
  BY <1>1, <1>2 DEF Standing, IsSnapshotAt
<1>6. /\ IsSnapshotAt(disk[i], Len(saved[i]))'
      /\ \A snap \in snaps' : IsSnapshotAt(snap.data, snap.upto)'
  <2>1. CASE disk' = disk /\ snaps' = snaps /\ ~(last /\ SnapshotDue(i, k))
    <3>1. Len(saved'[i]) = Len(saved[i])
      BY <2>1 DEF Covered
    <3>2. QED
      BY <2>1, <3>1 DEF Standing, IsSnapshotAt
  <2>2. CASE /\ disk' = [disk EXCEPT ![i] = Encode(s)]
             /\ snaps' = snaps \cup {[upto |-> k, data |-> Encode(s)]}
             /\ last /\ SnapshotDue(i, k)
    <3>1. Len(saved'[i]) = k
      BY <2>2 DEF Covered
    <3>2. disk'[i] = Encode(stores'[k + 1])
      BY <1>2, <2>2 DEF s
    <3>3. \A snap \in snaps' : snap \in snaps \/ (snap.upto = k /\ snap.data = Encode(stores'[k + 1]))
      BY <2>2 DEF s
    <3>4. QED
      BY <3>1, <3>2, <3>3 DEF Standing, IsSnapshotAt
  <2>3. QED
    BY <1>1, <2>1, <2>2
<1>7. QED
  BY <1>3, <1>4, <1>5, <1>6 DEF Standing

\* The effects of the entry e, where it stands in the log.
LEMMA NewEffectsHold ==
  ASSUME TInv, Effects, NEW i \in Server, NEW k \in DOMAIN log', NEW e,
         e = Noop \/ WellFormed(e),
         effectAt' = effectAt \cup NewEffects(i, k, e),
         store[i] = stores'[k], stores'[k + 1] = After(store[i], e),
         \A j \in DOMAIN log : /\ j \in DOMAIN log' /\ stores'[j] = stores[j]
                              /\ stores'[j + 1] = stores[j + 1]
  PROVE  Effects'
<1>1. CASE effectAt' = effectAt
  BY <1>1 DEF Effects
<1>2. CASE /\ e # Noop /\ Apply(store[i], e).fresh
           /\ effectAt' = effectAt \cup {[cmd |-> e, at |-> k]}
  <2>1. WellFormed(e) /\ SoundStore(store[i]) /\ e.client \in Client
    BY <1>2 DEF TInv, SoundStores, WellFormed, Command
  <2>2. AppliesOnce(store[i], e, stores'[k + 1], store[i].sessions[e.client].lastSeq)
    BY <1>2, <2>1, ApplySessions DEF After
  <2>3. /\ stores'[k].sessions[e.client].lastSeq < e.seq
        /\ stores'[k + 1].sessions[e.client].lastSeq = e.seq
    BY <1>2, <2>2 DEF AppliesOnce
  <2>4. \A x \in effectAt' : x \in effectAt \/ (x.cmd = e /\ x.at = k)
    BY <1>2
  <2>5. QED
    BY <2>3, <2>4 DEF Effects
<1>3. QED
  BY <1>1, <1>2, NewEffectsAre

LEMMA ApplyNextFollows ==
  ASSUME TInv, FInv, NEW i \in Server, NEW last \in BOOLEAN, ApplyNext(i, last)
  PROVE  FInv' /\ UNCHANGED <<log, stores>>
<1> DEFINE k == Len(app[i]) + 1
           e == log[k]
<1>1. /\ k <= Len(log) /\ Raft!Step(i, <<>>, k, Covered(i, k, last))
      /\ AppApply(i, k, e, last) /\ UNCHANGED stores
  BY DEF ApplyNext
<1>2. log' = log
  BY ApplyNextTyped
<1>3. /\ log \in Seq(LogItem) /\ app[i] \in Seq(LogItem) /\ <<>> \in Seq(LogItem)
      /\ stores \in Seq(Store) /\ Len(stores) = Len(log) + 1
  BY DEF TInv, TypeOK
<1>4. k \in Nat \ {0} /\ k \in DOMAIN log /\ k \in 0 .. Len(log)
      /\ (e = Noop \/ WellFormed(e))
  BY <1>1, <1>3 DEF TInv, WellFormedCommands
<1>5. store[i] = stores[k] /\ stores[k + 1] = After(store[i], e)
  BY <1>4 DEF FInv, Standing, IsStoreAt, History
<1>6. /\ Len(app'[i]) = k /\ Len(saved'[i]) = Covered(i, k, last)
      /\ \A j \in Server \ {i} : app'[j] = app[j] /\ saved'[j] = saved[j]
  <2>1. TypeOK /\ Raft!Step(i, <<>>, k, Covered(i, k, last))
    BY <1>1 DEF TInv
  <2> HIDE DEF k
  <2>2. Stepped(i, <<>>, k, Covered(i, k, last))
    BY <1>3, <2>1, StepLengths
  <2>3. QED
    BY <2>2 DEF Stepped
<1> HIDE DEF k, e
<1>7. Standing'
  BY <1>1, <1>2, <1>4, <1>5, <1>6, AppApplyFollows DEF FInv
<1>8. Effects'
  <2>1. Applied(i, k, e, last)
    BY <1>1, <1>4, AppApplied
  <2>2. QED
    BY <1>1, <1>2, <1>4, <1>5, <2>1, NewEffectsHold DEF Applied, FInv
<1>9. History'
  BY <1>1, <1>2 DEF FInv, History
<1>10. QED
  BY <1>1, <1>2, <1>7, <1>8, <1>9 DEF FInv

LEMMA ProposeAloneFollows ==
  ASSUME TInv, FInv, NEW m \in net, ProposeAlone(m)
  PROVE  FInv'
<1> DEFINE i == m.to
           e == m.cmd
           k == Len(log) + 1
<1>1. /\ i \in Server /\ WellFormed(e) /\ e # Noop /\ e.client \in Client
      /\ e \in LogItem /\ Grown(e)
  BY RequestFields, CommandIsNotNoop, ProposeAloneTyped
  DEF ProposeAlone, Proposable, Command, LogItem
<1>2. /\ Raft!Step(i, <<e>>, k, Covered(i, k, TRUE)) /\ AppApply(i, k, e, TRUE)
      /\ Len(app[i]) = Len(log)
  BY DEF ProposeAlone
<1>3. /\ log \in Seq(LogItem) /\ stores \in Seq(Store) /\ Len(stores) = Len(log) + 1
      /\ <<e>> \in Seq(LogItem) /\ k \in Nat \ {0} /\ k \in Nat
  BY <1>1 DEF TInv, TypeOK
<1> HIDE DEF i, e, k
<1>4. /\ History' /\ Len(log') = Len(log) + 1 /\ Len(stores') = Len(stores) + 1
      /\ \A j \in DOMAIN stores : j \in DOMAIN stores' /\ stores'[j] = stores[j]
      /\ stores'[Len(stores')] = After(stores[Len(stores)], e)
  BY <1>1, GrownHistory DEF FInv
<1>5. /\ Len(app'[i]) = k /\ Len(saved'[i]) = Covered(i, k, TRUE)
      /\ \A j \in Server \ {i} : app'[j] = app[j] /\ saved'[j] = saved[j]
  <2>1. TypeOK
    BY DEF TInv
  <2>2. Stepped(i, <<e>>, k, Covered(i, k, TRUE))
    BY <1>1, <1>2, <1>3, <2>1, StepLengths
  <2>3. QED
    BY <2>2 DEF Stepped
<1>6. store[i] = stores[k]
  BY <1>1, <1>2 DEF FInv, Standing, IsStoreAt, k
<1>7. /\ k = Len(stores) /\ k \in 0 .. Len(log') /\ stores'[k + 1] = After(store[i], e)
      /\ \A n \in 0 .. Len(log) : n \in 0 .. Len(log') /\ stores'[n + 1] = stores[n + 1]
      /\ stores'[k] = stores[k] /\ k \in DOMAIN log' /\ k \in DOMAIN stores
  BY <1>1, <1>3, <1>4, <1>6, GrownTyped DEF k, Grown
<1>8. Standing'
  BY <1>1, <1>2, <1>3, <1>5, <1>7, AppApplyFollows DEF FInv
<1>9. Effects'
  <2>1. \A j \in DOMAIN log : j \in DOMAIN log' /\ stores'[j] = stores[j]
                              /\ stores'[j + 1] = stores[j + 1]
    BY <1>3, <1>4 DEF Grown
  <2>2. Applied(i, k, e, TRUE)
    BY <1>1, <1>2, <1>3, AppApplied
  <2>3. QED
    BY <1>1, <1>6, <1>7, <2>1, <2>2, NewEffectsHold DEF Applied, FInv
<1>10. QED
  BY <1>4, <1>8, <1>9 DEF FInv

\* The crashed server stands at the beginning of the log again.
LEMMA AppCrashStanding ==
  ASSUME TInv, FInv, NEW i \in Server, NEW new \in Seq(LogItem), AppCrash(i, new),
         UNCHANGED <<disk, snaps>>, stores'[1] = NewStore,
         \A n \in 0 .. Len(log) : n \in 0 .. Len(log') /\ stores'[n + 1] = stores[n + 1]
  PROVE  Standing'
<1>1. Raft!Fail(i, new, Len(saved[i])) /\ store' = [store EXCEPT ![i] = NewStore]
  BY DEF AppCrash
<1>2. /\ app' = [app EXCEPT ![i] = <<>>] /\ Len(log') \in Nat
      /\ \A j \in Server : Len(saved'[j]) = Len(saved[j])
  BY <1>1, FailTyped DEF TInv
<1>3. app \in [Server -> Seq(LogItem)] /\ store \in [Server -> Store]
  BY DEF TInv, TypeOK
<1>4. IsStoreAt(store[i], Len(app[i]))'
  <2>1. Len(app'[i]) = 0 /\ store'[i] = NewStore
    BY <1>1, <1>2, <1>3
  <2>2. QED
    BY <1>2, <2>1 DEF IsStoreAt
<1>5. \A j \in Server \ {i} : IsStoreAt(store[j], Len(app[j]))'
  BY <1>1, <1>2, <1>3 DEF FInv, Standing, IsStoreAt
<1>6. \A j \in Server : IsSnapshotAt(disk[j], Len(saved[j]))'
  BY <1>2 DEF FInv, Standing, IsSnapshotAt
<1>7. \A snap \in snaps' : IsSnapshotAt(snap.data, snap.upto)'
  BY DEF FInv, Standing, IsSnapshotAt
<1>8. QED
  BY <1>4, <1>5, <1>6, <1>7 DEF Standing

\* A crash that commits nothing.
LEMMA AppCrashFollows ==
  ASSUME TInv, FInv, NEW i \in Server, AppCrash(i, <<>>), UNCHANGED <<disk, snaps, stores>>
  PROVE  Standing' /\ History' /\ UNCHANGED <<log, stores>>
<1>1. <<>> \in Seq(LogItem) /\ log' = log
  BY NothingNew, AppCrashTyped
<1>2. Standing'
  BY <1>1, AppCrashStanding DEF FInv, History
<1>3. QED
  BY <1>1, <1>2 DEF FInv, History

LEMMA CrashFollows ==
  ASSUME TInv, FInv, NEW i \in Server, Crash(i)
  PROVE  FInv' /\ UNCHANGED <<log, stores>>
  BY AppCrashFollows, StutterFollows DEF Crash

LEMMA ProposeCrashFollows ==
  ASSUME TInv, FInv, NEW m \in net, ProposeCrash(m)
  PROVE  FInv' /\ UNCHANGED <<log, stores>>
<1>1. m.to \in Server
  BY RequestFields DEF ProposeCrash, Proposable
<1>2. QED
  BY <1>1, AppCrashFollows, StutterFollows DEF ProposeCrash

\* The entry that a server applies next takes its store one step along the history.
LEMMA NextStore ==
  ASSUME TInv, FInv, NEW i \in Server, Len(app[i]) + 1 <= Len(log)
  PROVE  LET k == Len(app[i]) + 1
         IN  store[i] = stores[k] /\ stores[k + 1] = After(store[i], log[k])
  BY NextEntry DEF FInv, Standing, IsStoreAt, History

LEMMA SnapshotCrashFollows ==
  ASSUME TInv, FInv, NEW i \in Server, SnapshotCrash(i)
  PROVE  FInv' /\ UNCHANGED <<log, stores>>
<1> DEFINE k == Len(app[i]) + 1
           e == log[k]
<1>1. /\ k <= Len(log) /\ AppCrash(i, <<>>) /\ UNCHANGED <<disk, snaps, stores>>
      /\ effectAt' = effectAt \cup NewEffects(i, k, e)
  BY DEF SnapshotCrash
<1>2. k \in DOMAIN log /\ (e = Noop \/ WellFormed(e))
  BY <1>1, NextEntry
<1>3. store[i] = stores[k] /\ stores[k + 1] = After(store[i], e)
  BY <1>1, NextStore
<1> HIDE DEF k, e
<1>4. Standing' /\ History' /\ UNCHANGED <<log, stores>>
  BY <1>1, AppCrashFollows
<1>5. Effects'
  BY <1>1, <1>2, <1>3, <1>4, NewEffectsHold DEF FInv
<1>6. QED
  BY <1>4, <1>5 DEF FInv

LEMMA ProposeAloneCrashFollows ==
  ASSUME TInv, FInv, NEW m \in net, ProposeAloneCrash(m)
  PROVE  FInv'
<1> DEFINE i == m.to
           e == m.cmd
           k == Len(log) + 1
<1>1. /\ i \in Server /\ WellFormed(e) /\ e # Noop /\ e \in LogItem /\ Grown(e)
  BY RequestFields, CommandIsNotNoop, ProposeAloneCrashTyped
  DEF ProposeAloneCrash, Proposable, LogItem
<1>2. /\ AppCrash(i, <<e>>) /\ Len(app[i]) = Len(log) /\ UNCHANGED <<disk, snaps>>
      /\ effectAt' = effectAt \cup NewEffects(i, k, e)
  BY DEF ProposeAloneCrash
<1>3. /\ log \in Seq(LogItem) /\ stores \in Seq(Store) /\ Len(stores) = Len(log) + 1
      /\ <<e>> \in Seq(LogItem) /\ k \in Nat
  BY <1>1 DEF TInv, TypeOK
<1> HIDE DEF i, e, k
<1>4. /\ History' /\ Len(log') = Len(log) + 1 /\ Len(stores') = Len(stores) + 1
      /\ \A j \in DOMAIN stores : j \in DOMAIN stores' /\ stores'[j] = stores[j]
      /\ stores'[Len(stores')] = After(stores[Len(stores)], e)
  BY <1>1, GrownHistory DEF FInv
<1>5. store[i] = stores[k]
  BY <1>1, <1>2 DEF FInv, Standing, IsStoreAt, k
<1>6. /\ k = Len(stores) /\ stores'[k + 1] = After(store[i], e)
      /\ \A n \in 0 .. Len(log) : n \in 0 .. Len(log') /\ stores'[n + 1] = stores[n + 1]
      /\ stores'[k] = stores[k] /\ k \in DOMAIN log'
  BY <1>1, <1>3, <1>4, <1>5, GrownTyped DEF k, Grown
<1>7. Standing'
  BY <1>1, <1>2, <1>3, <1>4, <1>6, AppCrashStanding DEF History
<1>8. Effects'
  <2>1. \A j \in DOMAIN log : j \in DOMAIN log' /\ stores'[j] = stores[j]
                              /\ stores'[j + 1] = stores[j + 1]
    BY <1>3, <1>4 DEF Grown
  <2>2. QED
    BY <1>1, <1>2, <1>5, <1>6, <2>1, NewEffectsHold DEF FInv
<1>9. QED
  BY <1>4, <1>7, <1>8 DEF FInv

LEMMA RestartFollows ==
  ASSUME TInv, FInv, NEW i \in Server, Restart(i)
  PROVE  FInv' /\ UNCHANGED <<log, stores>>
<1>1. /\ app' = [app EXCEPT ![i] = saved[i]] /\ UNCHANGED <<log, saved>>
      /\ store' = [store EXCEPT ![i] = RestoreStore(disk[i])]
      /\ UNCHANGED <<disk, snaps, stores, effectAt>>
  BY DEF Restart, Raft!Recover
<1>2. /\ app \in [Server -> Seq(LogItem)] /\ store \in [Server -> Store]
      /\ stores \in Seq(Store) /\ Len(stores) = Len(log) + 1
  BY DEF TInv, TypeOK
<1> DEFINE n == Len(saved[i])
<1>3. n \in 0 .. Len(log) /\ disk[i] = Encode(stores[n + 1])
  BY DEF FInv, Standing, IsSnapshotAt
<1>4. n + 1 \in DOMAIN stores
  BY <1>2, <1>3
<1>5. RestoreStore(disk[i]) = stores[n + 1]
  BY <1>3, <1>4, RestoreEncode DEF TInv, SoundStores
<1>6. \A j \in Server : IsStoreAt(store[j], Len(app[j]))'
  BY <1>1, <1>2, <1>3, <1>5 DEF FInv, Standing, IsStoreAt
<1>7. Standing'
  BY <1>1, <1>6 DEF FInv, Standing, IsSnapshotAt
<1>8. QED
  BY <1>1, <1>7, StutterFollows

LEMMA InstallFollows ==
  ASSUME TInv, FInv, NEW i \in Server, NEW snap \in snaps, Install(i, snap)
  PROVE  FInv' /\ UNCHANGED <<log, stores>>
<1> DEFINE n == snap.upto
<1>1. /\ Raft!Step(i, <<>>, n, n)
      /\ store' = [store EXCEPT ![i] = RestoreStore(snap.data)]
      /\ disk' = [disk EXCEPT ![i] = snap.data]
      /\ UNCHANGED <<snaps, stores, effectAt>>
  BY DEF Install
<1>2. /\ log \in Seq(LogItem) /\ <<>> \in Seq(LogItem) /\ stores \in Seq(Store)
      /\ Len(stores) = Len(log) + 1 /\ TypeOK
      /\ store \in [Server -> Store] /\ disk \in [Server -> Encoded]
  BY DEF TInv, TypeOK
<1>3. n \in 0 .. Len(log) /\ snap.data = Encode(stores[n + 1])
  BY DEF FInv, Standing, IsSnapshotAt
<1>4. RestoreStore(snap.data) = stores[n + 1]
  BY <1>2, <1>3, RestoreEncode DEF TInv, SoundStores
<1> HIDE DEF n
<1>5. /\ log' = log \o <<>> /\ Len(app'[i]) = n /\ Len(saved'[i]) = n
      /\ \A j \in Server \ {i} : app'[j] = app[j] /\ saved'[j] = saved[j]
  <2>1. Stepped(i, <<>>, n, n)
    BY <1>1, <1>2, StepLengths
  <2>2. QED
    BY <2>1 DEF Stepped
<1>6. log' = log
  BY <1>2, <1>5
<1>7. \A j \in Server : IsStoreAt(store[j], Len(app[j]))'
  BY <1>1, <1>2, <1>3, <1>4, <1>5, <1>6 DEF FInv, Standing, IsStoreAt
<1>8. \A j \in Server : IsSnapshotAt(disk[j], Len(saved[j]))'
  BY <1>1, <1>2, <1>3, <1>5, <1>6 DEF FInv, Standing, IsSnapshotAt
<1>9. Standing'
  BY <1>1, <1>6, <1>7, <1>8 DEF FInv, Standing, IsSnapshotAt
<1>10. QED
  BY <1>1, <1>6, <1>9, StutterFollows

LEMMA InstallKeptFollows ==
  ASSUME TInv, FInv, NEW i \in Server, NEW snap \in snaps, InstallKept(i, snap)
  PROVE  FInv' /\ UNCHANGED <<log, stores>>
<1> DEFINE k == Len(app[i]) + 1
           e == log[k]
<1>1. Kept(i, snap, k, e)
  BY InstallKeptIs
<1>2. k \in DOMAIN log /\ k \in 0 .. Len(log) /\ (e = Noop \/ WellFormed(e))
  BY <1>1, NextEntry DEF Kept
<1>3. store[i] = stores[k] /\ stores[k + 1] = After(store[i], e)
  BY <1>1, NextStore DEF Kept
<1> HIDE DEF k, e
<1>4. snap.upto = k /\ snap.data = Encode(stores[k + 1])
  BY <1>1 DEF Kept, FInv, Standing, IsSnapshotAt
<1>5. /\ Len(app'[i]) = k /\ Len(saved'[i]) = k
      /\ \A j \in Server \ {i} : app'[j] = app[j] /\ saved'[j] = saved[j]
  <2>1. Stepped(i, <<>>, k, k)
    BY <1>1, NothingNew, StepLengths DEF Kept, TInv
  <2>2. QED
    BY <2>1 DEF Stepped
<1>6. /\ store' = [store EXCEPT ![i] = stores[k + 1]] /\ store \in [Server -> Store]
      /\ disk' = [disk EXCEPT ![i] = snap.data] /\ disk \in [Server -> Encoded]
      /\ UNCHANGED <<log, stores, snaps>>
      /\ effectAt' = effectAt \cup NewEffects(i, k, e)
  BY <1>1, <1>3 DEF Kept, TInv, TypeOK
<1>7. \A j \in Server : IsStoreAt(store[j], Len(app[j]))'
  BY <1>2, <1>5, <1>6 DEF FInv, Standing, IsStoreAt
<1>8. \A j \in Server : IsSnapshotAt(disk[j], Len(saved[j]))'
  BY <1>2, <1>4, <1>5, <1>6 DEF FInv, Standing, IsSnapshotAt
<1>9. Standing'
  BY <1>6, <1>7, <1>8 DEF FInv, Standing, IsSnapshotAt
<1>10. Effects'
  BY <1>2, <1>3, <1>6, NewEffectsHold DEF FInv
<1>11. QED
  BY <1>6, <1>9, <1>10 DEF FInv, History

LEMMA NextFollows == TInv /\ FInv /\ [Next]_vars => FInv'
<1> SUFFICES ASSUME TInv, FInv, [Next]_vars PROVE FInv'
  OBVIOUS
<1>1. ASSUME NEW c \in Client, NEW op \in Kinds[c], NEW k \in Key, StartNextOp(c, op, k)
      PROVE  FInv'
  <2>1. op \in {"Get", "Put", "CAS"}
    BY ServiceAssumption
  <2>2. QED
    BY <1>1, <2>1, ClientFollows
<1>2. ASSUME NEW i \in Server, CommitNoop(i) PROVE FInv'
  BY <1>2, CommitNoopTyped, CommitFollows DEF CommitNoop, LogItem
<1>3. ASSUME NEW i \in Server, NEW o \in offers, Commit(i, o) PROVE FInv'
  <2>1. WellFormed(o.cmd) /\ o.cmd \in LogItem
    BY DEF TInv, WellFormedCommands, WellFormed, LogItem
  <2>2. QED
    BY <1>3, <2>1, CommitTyped, CommitFollows DEF Commit
<1>4. QED
  BY <1>1, <1>2, <1>3, ClientFollows, ProposeAloneFollows, ProposeCrashFollows,
     ProposeAloneCrashFollows, ApplyNextFollows, CrashFollows, SnapshotCrashFollows,
     RestartFollows, InstallFollows, InstallKeptFollows
  DEF Next

LEMMA Follows == Spec => [](TInv /\ FInv)
<1>1. Init => FInv
  BY InitFollows
<1>2. TInv /\ FInv /\ [Next]_vars => FInv'
  BY NextFollows
<1>3. QED
  BY <1>1, <1>2, Typed, PTL DEF Spec

\* Every server's store is the one that the log's entries result in, and every
\* snapshot restores to such a store, whatever crashed, restarted from a
\* snapshot or had one installed (StoreFollowsLog).
THEOREM ServiceFollowsLog == Spec => []StoreFollowsLog
<1>1. TInv /\ FInv => StoreFollowsLog
  <2> SUFFICES ASSUME TInv, FInv, NEW i \in Server
               PROVE  /\ store[i] = stores[Len(app[i]) + 1]
                      /\ RestoreStore(disk[i]) = stores[Len(saved[i]) + 1]
    BY DEF StoreFollowsLog
  <2>1. /\ stores \in Seq(Store) /\ Len(stores) = Len(log) + 1
        /\ Len(saved[i]) \in 0 .. Len(log) /\ Len(log) \in Nat
        /\ disk[i] = Encode(stores[Len(saved[i]) + 1])
    BY DEF TInv, TypeOK, FInv, Standing, IsSnapshotAt
  <2>2. SoundStore(stores[Len(saved[i]) + 1])
    BY <2>1 DEF TInv, SoundStores
  <2>3. QED
    BY <2>1, <2>2, RestoreEncode DEF FInv, Standing, IsStoreAt
<1>2. QED
  BY <1>1, Follows, PTL

\* A command changes the store at one index of the log, however often it is in
\* the log (ExactlyOnce).
THEOREM ServiceExactlyOnce == Spec => []ExactlyOnce
<1>1. TInv /\ FInv => ExactlyOnce
  <2> SUFFICES ASSUME TInv, FInv,
                      NEW e \in effectAt, NEW f \in effectAt,
                      e.cmd.client = f.cmd.client, e.cmd.seq = f.cmd.seq
               PROVE  ~(e.at < f.at) /\ e.at \in Nat /\ f.at \in Nat
    BY DEF ExactlyOnce
  <2> DEFINE c == e.cmd.client
  <2>1. /\ c \in Client /\ e.cmd.seq \in Nat /\ e.at \in Nat /\ f.at \in Nat
        /\ stores \in Seq(Store) /\ log \in Seq(LogItem) /\ Len(stores) = Len(log) + 1
    BY DEF TInv, TypeOK, Command
  <2>2. /\ e.at \in DOMAIN log /\ f.at \in DOMAIN log
        /\ stores[e.at + 1].sessions[c].lastSeq = e.cmd.seq
        /\ stores[f.at].sessions[c].lastSeq < e.cmd.seq
    BY DEF FInv, Effects
  <2>3. ASSUME e.at < f.at PROVE FALSE
    <3>1. e.at + 1 \in DOMAIN stores /\ f.at \in DOMAIN stores /\ e.at + 1 <= f.at
      BY <2>1, <2>2, <2>3
    <3>2. stores[e.at + 1].sessions[c].lastSeq <= stores[f.at].sessions[c].lastSeq
      BY <2>1, <3>1 DEF FInv, History, Older
    <3>3. stores[f.at].sessions[c].lastSeq \in Nat
      BY <2>1, <3>1, SessionType DEF TInv, SoundStores
    <3>4. QED
      BY <2>1, <2>2, <3>2, <3>3
  <2>4. QED
    BY <2>1, <2>3
<1>2. QED
  BY <1>1, Follows, PTL

-----------------------------------------------------------------------------
(* The service implements an atomic map *)

\* A command of the current operation is that operation's command.
Issued(cmd) ==
  /\ cmd.seq <= client[cmd.client].seq
  /\ cmd.seq = client[cmd.client].seq => cmd = client[cmd.client].cmd

OnlyIssued ==
  /\ \A m \in net : m.type = "creq" => Issued(m.cmd)
  /\ \A o \in offers : Issued(o.cmd)
  /\ \A k \in DOMAIN log : log[k] = Noop \/ Issued(log[k])

\* Sessions are at the client's operation, or at the one before while it is in
\* flight.
SessionsKeepUp ==
  \A c \in Client :
    /\ Committed.sessions[c].lastSeq <= client[c].seq
    /\ \/ Committed.sessions[c].lastSeq = client[c].seq
       \/ client[c].inflight /\ Committed.sessions[c].lastSeq + 1 = client[c].seq
    /\ client[c].inflight => client[c].cmd.client = c /\ client[c].cmd.seq = client[c].seq

\* An answer to the current operation is the session's.
TrueAnswer(m) ==
  /\ m.seq <= client[m.to].seq
  /\ m.ok /\ m.seq = client[m.to].seq =>
       /\ Committed.sessions[m.to].lastSeq = m.seq
       /\ Committed.sessions[m.to].lastResult = m.res

TrueAnswers == \A m \in net : m.type = "cresp" => TrueAnswer(m)

LInv == OnlyIssued /\ SessionsKeepUp /\ TrueAnswers

LEMMA CommittedSound ==
  ASSUME TInv
  PROVE  SoundStore(Committed) /\ Len(stores) \in DOMAIN stores
<1>1. stores \in Seq(Store) /\ log \in Seq(LogItem) /\ Len(stores) = Len(log) + 1
  BY DEF TInv, TypeOK
<1>2. Len(stores) \in DOMAIN stores
  BY <1>1
<1>3. QED
  BY <1>2 DEF TInv, SoundStores, Committed

LEMMA ClientFields ==
  ASSUME TInv, NEW c \in Client
  PROVE  /\ client[c] \in ClientState /\ client[c].seq \in Nat
         /\ client[c].inflight \in BOOLEAN
         /\ Committed.sessions[c].lastSeq \in Nat
  BY CommittedSound, SessionType DEF TInv, TypeOK, ClientState

LEMMA InitLinear == Init => LInv /\ Atomic!Init
<1> SUFFICES ASSUME Init PROVE LInv /\ Atomic!Init
  OBVIOUS
<1>1. /\ log = <<>> /\ stores = <<NewStore>> /\ net = {} /\ offers = {}
      /\ client = [c \in Client |-> NewClient]
  BY DEF Init, Raft!Init
<1>2. Committed = NewStore
  BY <1>1 DEF Committed
<1>3. \A c \in Client : Committed.sessions[c] = NoSession /\ client[c] = NewClient
  BY <1>1, <1>2 DEF NewStore
<1>4. NoSession.lastSeq = 0 /\ NewClient.seq = 0 /\ ~NewClient.inflight
      /\ NewClient.cmd = NoCommand /\ NewClient.out = NoResult
  BY DEF NoSession, NewClient
<1>5. LInv
  <2>1. OnlyIssued /\ TrueAnswers
    BY <1>1 DEF OnlyIssued, TrueAnswers
  <2>2. \A c \in Client : /\ Committed.sessions[c].lastSeq = 0 /\ client[c].seq = 0
                          /\ ~client[c].inflight
    BY <1>3, <1>4
  <2>3. SessionsKeepUp
    <3> SUFFICES ASSUME NEW c \in Client
                 PROVE  /\ Committed.sessions[c].lastSeq <= client[c].seq
                        /\ Committed.sessions[c].lastSeq = client[c].seq
                        /\ ~client[c].inflight
      BY DEF SessionsKeepUp
    <3>1. Committed.sessions[c].lastSeq = 0 /\ client[c].seq = 0 /\ ~client[c].inflight
      BY <2>2
    <3>2. QED
      BY <3>1
  <2>4. QED
    BY <2>1, <2>3 DEF LInv
<1>6. Atomic!Init
  <2>1. \A c \in Client : /\ CallStatus(c) = "idle" /\ CallResult(c) = NoResult
                          /\ client[c].cmd = NoCommand
    BY <1>3, <1>4 DEF CallStatus, CallResult
  <2>2. Committed.data = NoData
    BY <1>2 DEF NewStore
  <2>3. QED
    BY <2>1, <2>2
    DEF Atomic!Init, Atomic!NoData, NoData, Atomic!NoCommand, NoCommand, Atomic!NoResult,
        NoResult
<1>7. QED
  BY <1>5, <1>6

\* The atomic map executes a command as the store does.
LEMMA AtomicExecute == \A data, cmd : Atomic!Execute(data, cmd) = Execute(data, cmd)
  BY DEF Atomic!Execute, Execute, Atomic!Writes, Writes, Atomic!Lookup, Lookup

\* Steps in which no operation starts, takes effect or ends.
LEMMA SilentLinear ==
  ASSUME TInv, LInv, UNCHANGED <<client, stores, log>>,
         \A o \in offers' : Issued(o.cmd),
         \A m \in net' : m \in net \/ (m.type = "cresp" /\ TrueAnswer(m))
  PROVE  LInv' /\ UNCHANGED Atomic!vars
<1>1. Committed' = Committed
  BY DEF Committed
<1>2. \A cmd : Issued(cmd) => Issued(cmd)'
  BY DEF Issued
<1>3. \A m : TrueAnswer(m) => TrueAnswer(m)'
  BY <1>1 DEF TrueAnswer
<1>4. OnlyIssued'
  BY <1>2 DEF LInv, OnlyIssued, Issued
<1>5. SessionsKeepUp'
  BY <1>1 DEF LInv, SessionsKeepUp
<1>6. TrueAnswers'
  BY <1>3 DEF LInv, TrueAnswers, TrueAnswer
<1>7. UNCHANGED Atomic!vars
  BY <1>1 DEF Atomic!vars, CallStatus, CallResult, TookEffect
<1>8. QED
  BY <1>4, <1>5, <1>6, <1>7 DEF LInv

\* The entry e is committed: its command takes effect, unless it is known.
LEMMA GrownLinear ==
  ASSUME TInv, LInv, NEW e, e = Noop \/ (WellFormed(e) /\ Issued(e)), Grown(e),
         UNCHANGED client, offers' \subseteq offers,
         \A m \in net' : m \in net \/ (m.type = "cresp" /\ TrueAnswer(m)')
  PROVE  LInv' /\ [Atomic!Next]_Atomic!vars
<1>1. /\ stores \in Seq(Store) /\ log \in Seq(LogItem) /\ Len(stores) = Len(log) + 1
      /\ SoundStore(Committed)
  BY CommittedSound DEF TInv, TypeOK
<1>2. Committed' = After(Committed, e) /\ log' = Append(log, e)
  <2>1. stores' = Append(stores, After(stores[Len(stores)], e)) /\ log' = Append(log, e)
    BY DEF Grown
  <2>2. Len(stores') = Len(stores) + 1 /\ stores'[Len(stores) + 1] = After(stores[Len(stores)], e)
    BY <1>1, <2>1
  <2>3. QED
    BY <2>1, <2>2 DEF Committed
<1>3. \A cmd : Issued(cmd) => Issued(cmd)'
  BY DEF Issued
<1>4. OnlyIssued'
  <2>1. \A k \in DOMAIN log' : log'[k] = e \/ (k \in DOMAIN log /\ log'[k] = log[k])
    BY <1>1, <1>2
  <2>2. QED
    BY <1>3, <2>1 DEF LInv, OnlyIssued, Issued
<1>5. CASE Committed' = Committed
  <2>1. SessionsKeepUp' /\ TrueAnswers'
    BY <1>5 DEF LInv, SessionsKeepUp, TrueAnswers, TrueAnswer
  <2>2. UNCHANGED Atomic!vars
    BY <1>5 DEF Atomic!vars, CallStatus, CallResult, TookEffect
  <2>3. QED
    BY <1>4, <2>1, <2>2 DEF LInv
<1>6. CASE Committed' # Committed
  <2> DEFINE c    == e.client
             last == Committed.sessions[c].lastSeq
             x    == Execute(Committed.data, e)
  <2>1. e # Noop /\ WellFormed(e) /\ Issued(e) /\ c \in Client /\ e.seq \in Nat
        /\ Committed' = Apply(Committed, e).store
    BY <1>2, <1>6 DEF After, WellFormed, Command
  <2>2. last \in Nat /\ client[c].seq \in Nat
    BY <2>1, ClientFields
  <2>3. AppliesOnce(Committed, e, Committed', last)
    BY <1>1, <2>1, ApplySessions
  <2>4. last < e.seq
    BY <1>6, <2>1, <2>2, <2>3 DEF AppliesOnce
  <2>5. /\ \A d \in Client \ {c} : Committed'.sessions[d] = Committed.sessions[d]
        /\ Committed'.sessions[c].lastSeq = e.seq
        /\ Committed'.sessions[c].lastResult = x.res
        /\ Committed'.data = x.data
    BY <2>3, <2>4 DEF AppliesOnce
  <2>6. client[c].inflight /\ e.seq = client[c].seq /\ last # client[c].seq
    BY <2>1, <2>2, <2>4 DEF LInv, SessionsKeepUp, Issued
  <2>7. e = client[c].cmd
    BY <2>1, <2>6 DEF Issued
  <2> HIDE DEF c, last, x
  <2>8. SessionsKeepUp'
    <3> SUFFICES ASSUME NEW d \in Client
                 PROVE  /\ Committed'.sessions[d].lastSeq <= client[d].seq
                        /\ \/ Committed'.sessions[d].lastSeq = client[d].seq
                           \/ /\ client[d].inflight
                              /\ Committed'.sessions[d].lastSeq + 1 = client[d].seq
                        /\ client[d].inflight =>
                             client[d].cmd.client = d /\ client[d].cmd.seq = client[d].seq
      BY DEF SessionsKeepUp
    <3>1. CASE d = c
      BY <2>1, <2>2, <2>5, <2>6, <3>1 DEF LInv, SessionsKeepUp
    <3>2. CASE d # c
      BY <2>5, <3>2 DEF LInv, SessionsKeepUp
    <3>3. QED
      BY <3>1, <3>2
  <2>9. TrueAnswers'
    <3> SUFFICES ASSUME NEW m \in net, m.type = "cresp"
                 PROVE  TrueAnswer(m)'
      BY DEF TrueAnswers, TrueAnswer
    <3>1. m.to \in Client /\ TrueAnswer(m)
      BY DEF TInv, TypeOK, Request, Response, LInv, TrueAnswers
    <3>2. CASE m.to = c
      BY <2>6, <3>1, <3>2 DEF TrueAnswer, last
    <3>3. CASE m.to # c
      BY <2>5, <3>1, <3>3 DEF TrueAnswer
    <3>4. QED
      BY <3>2, <3>3
  <2>10. /\ CallStatus(c) = "waiting" /\ CallStatus(c)' = "done"
         /\ CallResult(c)' = x.res
    BY <2>5, <2>6 DEF CallStatus, CallResult, TookEffect, last
  <2>11. \A d \in Client \ {c} : CallStatus(d)' = CallStatus(d) /\ CallResult(d)' = CallResult(d)
    BY <2>5 DEF CallStatus, CallResult, TookEffect
  <2>12. Atomic!TakeEffect(c)
    <3>1. x = Execute(Committed.data, client[c].cmd)
      BY <2>7 DEF x
    <3>2. [d \in Client |-> CallStatus(d)]' = [[d \in Client |-> CallStatus(d)] EXCEPT ![c] = "done"]
      BY <2>1, <2>10, <2>11
    <3>3. [d \in Client |-> CallResult(d)]' = [[d \in Client |-> CallResult(d)] EXCEPT ![c] = x.res]
      BY <2>1, <2>10, <2>11
    <3>4. [d \in Client |-> CallStatus(d)][c] = "waiting"
      BY <2>1, <2>10 DEF c
    <3>5. [d \in Client |-> client[d].cmd][c] = client[c].cmd
      BY <2>1 DEF c
    <3>6. Committed'.data = x.data /\ [d \in Client |-> client[d].cmd]' = [d \in Client |-> client[d].cmd]
      BY <2>5
    <3>7. QED
      BY <3>1, <3>2, <3>3, <3>4, <3>5, <3>6, AtomicExecute DEF Atomic!TakeEffect
  <2>13. c \in Client
    BY <2>1 DEF c
  <2>14. QED
    BY <1>4, <2>8, <2>9, <2>12, <2>13 DEF LInv, Atomic!Next
<1>7. QED
  BY <1>5, <1>6

\* A leader alone answers, as it commits the entry, what the session then holds.
LEMMA AloneAnswers ==
  ASSUME TInv, LInv, NEW i \in Server, NEW e, WellFormed(e), Issued(e), Grown(e),
         UNCHANGED client, store[i] = Committed
  PROVE  \A m \in Answer(i, e) : m.type = "cresp" /\ TrueAnswer(m)'
<1> DEFINE c == e.client
           res == Apply(Committed, e).res
<1>1. /\ c \in Client /\ e.seq \in Nat /\ e # Noop
      /\ SoundStore(Committed)
  BY CommittedSound, CommandIsNotNoop DEF WellFormed, Command
<1>2. Committed' = Apply(Committed, e).store
  <2>1. stores' = Append(stores, After(stores[Len(stores)], e)) /\ stores \in Seq(Store)
    BY DEF Grown, TInv, TypeOK
  <2>2. Len(stores') = Len(stores) + 1 /\ stores'[Len(stores) + 1] = After(stores[Len(stores)], e)
    BY <2>1
  <2>3. QED
    BY <1>1, <2>2 DEF Committed, After
<1>3. AppliesOnce(Committed, e, Committed', Committed.sessions[c].lastSeq)
  BY <1>1, <1>2, ApplySessions
<1>4. /\ e.seq <= client[c].seq /\ Committed.sessions[c].lastSeq <= client[c].seq
      /\ Committed.sessions[c].lastSeq \in Nat /\ client[c].seq \in Nat
  BY <1>1, ClientFields DEF LInv, SessionsKeepUp, Issued
<1>5. e.seq = client[c].seq =>
        /\ Committed'.sessions[c].lastSeq = e.seq
        /\ Committed'.sessions[c].lastResult = res
  BY <1>3, <1>4 DEF AppliesOnce
<1>6. \A m \in Answer(i, e) : /\ m.type = "cresp" /\ m.to = c /\ m.seq = e.seq
                             /\ m.res = res
  BY DEF Answer, OkResp
<1> HIDE DEF c, res
<1>7. client' = client
  OBVIOUS
<1>8. QED
  BY <1>4, <1>5, <1>6, <1>7 DEF TrueAnswer

-----------------------------------------------------------------------------
(* The service implements an atomic map: the steps *)

\* A client's operation in flight is sent again.
LEMMA ResendLinear ==
  ASSUME TInv, FInv, LInv, NEW c \in Client, NEW p \in ClientState,
         p.inflight = client[c].inflight, p.cmd = client[c].cmd, p.seq = client[c].seq,
         p.out = client[c].out,
         client' = [client EXCEPT ![c] = p], UNCHANGED unchangedByClients,
         \A m \in net' :
           m \in net \/ (p.inflight /\ m.type = "creq" /\ m.cmd = p.cmd)
  PROVE  LInv' /\ UNCHANGED Atomic!vars
<1>1. Committed' = Committed /\ UNCHANGED <<offers, log>>
  BY DEF Committed, unchangedByClients, raft
<1>2. client \in [Client -> ClientState]
  BY DEF TInv, TypeOK
<1>3. \A d \in Client : /\ client'[d].inflight = client[d].inflight
                        /\ client'[d].cmd = client[d].cmd /\ client'[d].seq = client[d].seq
                        /\ client'[d].out = client[d].out
  BY <1>2
<1>4. \A cmd : cmd.client \in Client /\ Issued(cmd) => Issued(cmd)'
  BY <1>3 DEF Issued
<1>5. /\ \A m \in net : m.type = "creq" => m.cmd.client \in Client
      /\ \A m \in net : m.type = "cresp" => m.to \in Client
      /\ \A o \in offers : o.cmd.client \in Client
      /\ \A k \in DOMAIN log : log[k] = Noop \/ log[k].client \in Client
  BY DEF TInv, TypeOK, WellFormedCommands, WellFormed, Command, Request, Response
<1>6. p.inflight => Issued(p.cmd) /\ p.cmd.client \in Client
  <2>1. p.inflight => p.cmd.client = c /\ p.cmd.seq = client[c].seq
    BY DEF LInv, SessionsKeepUp
  <2>2. client[c].seq \in Nat
    BY ClientFields
  <2>3. QED
    BY <2>1, <2>2 DEF Issued
<1>7. OnlyIssued'
  <2>1. \A m \in net' : m.type = "creq" => Issued(m.cmd)'
    BY <1>4, <1>5, <1>6 DEF LInv, OnlyIssued
  <2>2. \A o \in offers' : Issued(o.cmd)'
    BY <1>1, <1>4, <1>5 DEF LInv, OnlyIssued
  <2>3. \A k \in DOMAIN log' : log'[k] = Noop \/ Issued(log[k])'
    BY <1>1, <1>4, <1>5 DEF LInv, OnlyIssued
  <2>4. QED
    BY <1>1, <2>1, <2>2, <2>3 DEF OnlyIssued, Issued
<1>8. SessionsKeepUp'
  BY <1>1, <1>3 DEF LInv, SessionsKeepUp
<1>9. TrueAnswers'
  <2>1. \A m \in net' : m.type = "cresp" => m \in net
    OBVIOUS
  <2>2. QED
    BY <1>1, <1>3, <1>5, <2>1 DEF LInv, TrueAnswers, TrueAnswer
<1>10. UNCHANGED Atomic!vars
  BY <1>1, <1>3 DEF Atomic!vars, CallStatus, CallResult, TookEffect
<1>11. QED
  BY <1>7, <1>8, <1>9, <1>10 DEF LInv

LEMMA WatchdogLinear ==
  ASSUME TInv, FInv, LInv, NEW c \in Client, NEW to \in Server, Watchdog(c, to)
  PROVE  LInv' /\ UNCHANGED Atomic!vars
<1> DEFINE p == [client[c] EXCEPT !.target = None]
<1>1. client[c] \in ClientState
  BY DEF TInv, TypeOK
<1>2. /\ p \in ClientState /\ p.inflight = client[c].inflight /\ p.cmd = client[c].cmd
      /\ p.seq = client[c].seq /\ p.out = client[c].out
  BY <1>1 DEF ClientState, OptServer
<1>3. /\ p.inflight /\ client' = [client EXCEPT ![c] = p] /\ SendReq(p, to)
      /\ UNCHANGED unchangedByClients
  BY DEF Watchdog
<1> HIDE DEF p
<1>4. \A m \in net' : m \in net \/ (m.type = "creq" /\ m.cmd = p.cmd)
  BY <1>3 DEF SendReq
<1>5. QED
  BY <1>2, <1>3, <1>4, ResendLinear

LEMMA RetryLinear ==
  ASSUME TInv, FInv, LInv, NEW c \in Client, Retry(c)
  PROVE  LInv' /\ UNCHANGED Atomic!vars
<1> DEFINE p == [client[c] EXCEPT !.retry = 0]
<1>1. client[c] \in ClientState
  BY DEF TInv, TypeOK
<1>2. /\ p \in ClientState /\ p.inflight = client[c].inflight /\ p.cmd = client[c].cmd
      /\ p.seq = client[c].seq /\ p.out = client[c].out
  BY <1>1 DEF ClientState
<1>3. /\ client' = [client EXCEPT ![c] = p]
      /\ UNCHANGED unchangedByClients
      /\ UNCHANGED net \/ (p.inflight /\ \E to \in Server : SendReq(p, to))
  BY DEF Retry
<1> HIDE DEF p
<1>4. \A m \in net' : m \in net \/ (p.inflight /\ m.type = "creq" /\ m.cmd = p.cmd)
  BY <1>3 DEF SendReq
<1>5. QED
  BY <1>2, <1>3, <1>4, ResendLinear

\* An operation starts.
LEMMA StartNextOpLinear ==
  ASSUME TInv, FInv, LInv, NEW c \in Client, NEW op \in {"Get", "Put", "CAS"}, NEW k \in Key,
         StartNextOp(c, op, k)
  PROVE  LInv' /\ Atomic!Invoke(c)
<1> DEFINE seq == client[c].seq + 1
           cmd == [client |-> c, seq |-> seq, op |-> op, key |-> k,
                   value  |-> IF op = "Get" THEN NoValue ELSE <<c, seq>>,
                   expect |-> IF op = "CAS" THEN client[c].lastSeen[k] ELSE NoValue]
           p == [client[c] EXCEPT !.seq = seq, !.inflight = TRUE, !.cmd = cmd,
                                  !.target = None]
<1>1. client \in [Client -> ClientState] /\ client[c] \in ClientState
      /\ client[c].seq \in Nat
  BY DEF TInv, TypeOK, ClientState
<1>2. /\ ~client[c].inflight /\ client' = [client EXCEPT ![c] = p]
      /\ \E to \in Server : SendReq(p, to)
      /\ UNCHANGED unchangedByClients
  BY DEF StartNextOp
<1>3. p.cmd = cmd /\ p.inflight /\ p.seq = seq /\ p.out = client[c].out
  BY <1>1 DEF ClientState
<1>4. cmd.client = c /\ cmd.seq = seq
  OBVIOUS
<1>5. cmd \in Command
  <2>1. seq \in Nat \ {0} /\ client[c].lastSeen[k] \in OptValue
    BY <1>1 DEF ClientState
  <2>2. QED
    BY <2>1 DEF Command, OptValue, Value
<1>6. Committed' = Committed /\ UNCHANGED <<offers, log>>
  BY <1>2 DEF Committed, unchangedByClients, raft
<1>7. \A m \in net' : m \in net \/ (m.type = "creq" /\ m.cmd = cmd)
  BY <1>2, <1>3 DEF SendReq
<1> HIDE DEF p, cmd
<1>8. /\ client'[c].cmd = cmd /\ client'[c].inflight /\ client'[c].seq = seq
      /\ client'[c].out = client[c].out
      /\ \A d \in Client \ {c} : client'[d] = client[d]
  BY <1>1, <1>2, <1>3
<1>9. \A x : x.client \in Client /\ x.seq \in Nat /\ Issued(x) => Issued(x)'
  BY <1>1, <1>8 DEF Issued
<1>10. /\ \A m \in net : m.type = "creq" => m.cmd.client \in Client /\ m.cmd.seq \in Nat
       /\ \A m \in net : m.type = "cresp" => m.to \in Client /\ m.seq \in Nat
       /\ \A o \in offers : o.cmd.client \in Client /\ o.cmd.seq \in Nat
       /\ \A j \in DOMAIN log :
            log[j] = Noop \/ (log[j].client \in Client /\ log[j].seq \in Nat)
  BY DEF TInv, TypeOK, WellFormedCommands, WellFormed, Command, Request, Response
<1>11. \A x : x = cmd => Issued(x)'
  BY <1>1, <1>4, <1>8 DEF Issued
<1>12. OnlyIssued'
  <2>1. \A m \in net' : m.type = "creq" => Issued(m.cmd)'
    BY <1>7, <1>9, <1>10, <1>11 DEF LInv, OnlyIssued
  <2>2. \A o \in offers' : Issued(o.cmd)'
    BY <1>6, <1>9, <1>10 DEF LInv, OnlyIssued
  <2>3. \A j \in DOMAIN log' : log'[j] = Noop \/ Issued(log[j])'
    BY <1>6, <1>9, <1>10 DEF LInv, OnlyIssued
  <2>4. QED
    BY <1>6, <2>1, <2>2, <2>3 DEF OnlyIssued, Issued
<1>13. Committed.sessions[c].lastSeq = client[c].seq
  BY <1>2 DEF LInv, SessionsKeepUp
<1>14. SessionsKeepUp'
  <2> SUFFICES ASSUME NEW d \in Client
               PROVE  /\ Committed.sessions[d].lastSeq <= client'[d].seq
                      /\ \/ Committed.sessions[d].lastSeq = client'[d].seq
                         \/ /\ client'[d].inflight
                            /\ Committed.sessions[d].lastSeq + 1 = client'[d].seq
                      /\ client'[d].inflight =>
                           client'[d].cmd.client = d /\ client'[d].cmd.seq = client'[d].seq
    BY <1>6 DEF SessionsKeepUp
  <2>1. CASE d = c
    BY <1>1, <1>4, <1>8, <1>13, <2>1
  <2>2. CASE d # c
    BY <1>8, <2>2 DEF LInv, SessionsKeepUp
  <2>3. QED
    BY <2>1, <2>2
<1>15. TrueAnswers'
  <2> SUFFICES ASSUME NEW m \in net, m.type = "cresp"
               PROVE  TrueAnswer(m)'
    BY <1>7 DEF TrueAnswers
  <2>1. m.to \in Client /\ m.seq \in Nat /\ TrueAnswer(m)
    BY <1>10 DEF LInv, TrueAnswers
  <2>2. CASE m.to = c
    BY <1>1, <1>8, <2>1, <2>2 DEF TrueAnswer
  <2>3. CASE m.to # c
    BY <1>6, <1>8, <2>1, <2>3 DEF TrueAnswer
  <2>4. QED
    BY <2>2, <2>3
<1>16. Atomic!Invoke(c)
  <2>1. CallStatus(c) = "idle" /\ CallStatus(c)' = "waiting" /\ CallResult(c)' = CallResult(c)
    BY <1>1, <1>2, <1>6, <1>8, <1>13 DEF CallStatus, CallResult, TookEffect
  <2>2. \A d \in Client \ {c} : CallStatus(d)' = CallStatus(d) /\ CallResult(d)' = CallResult(d)
    BY <1>6, <1>8 DEF CallStatus, CallResult, TookEffect
  <2>3. [d \in Client |-> CallStatus(d)]' =
          [[d \in Client |-> CallStatus(d)] EXCEPT ![c] = "waiting"]
    BY <2>1, <2>2
  <2>4. [d \in Client |-> CallResult(d)]' = [d \in Client |-> CallResult(d)]
    BY <2>1, <2>2
  <2>5. [d \in Client |-> CallStatus(d)][c] = "idle"
    BY <2>1
  <2>6. [d \in Client |-> client[d].cmd]' =
          [[d \in Client |-> client[d].cmd] EXCEPT ![c] = cmd]
    BY <1>8
  <2>7. [d \in Client |-> client[d].cmd]'[c] = cmd
    BY <1>8
  <2>8. Atomic!Command = Command
    BY DEF Atomic!Command, Command, Atomic!OptValue, OptValue, Atomic!Value, Value
  <2>9. QED
    BY <1>5, <1>6, <2>3, <2>4, <2>5, <2>6, <2>7, <2>8 DEF Atomic!Invoke
<1>17. QED
  BY <1>12, <1>14, <1>15, <1>16 DEF LInv

\* An answer arrives: it is dropped, redirects the client or ends its operation.
LEMMA HandleRespLinear ==
  ASSUME TInv, FInv, LInv, NEW m \in net, HandleResp(m)
  PROVE  LInv' /\ [Atomic!Next]_Atomic!vars
<1> DEFINE c == m.to
           p == client[c]
           redirected == [p EXCEPT !.target = IF m.hint # p.target THEN m.hint ELSE None,
                                   !.retry = IF p.retry = 0 THEN p.seq ELSE p.retry]
           answered == [p EXCEPT !.inflight = FALSE, !.out = m.res,
                                 !.lastSeen[p.cmd.key] = Seen(p, m.res)]
<1>1. m \in Response /\ c \in Client /\ m.type = "cresp"
  BY DEF HandleResp, TInv, TypeOK, Request, Response
<1>2. client \in [Client -> ClientState] /\ p \in ClientState
  BY <1>1 DEF TInv, TypeOK
<1>3. /\ net' \subseteq net /\ UNCHANGED unchangedByClients
      /\ client' = [client EXCEPT ![c] =
                      IF ~AnswersCurrent(p, m) THEN p
                      ELSE IF ~m.ok THEN redirected ELSE answered]
  BY DEF HandleResp, Exchange, Delivered
<1>4. CASE ~(AnswersCurrent(p, m) /\ m.ok)
  <2>1. PICK q \in {p, redirected} : client' = [client EXCEPT ![c] = q]
    BY <1>3, <1>4
  <2>2. /\ redirected \in ClientState /\ redirected.inflight = p.inflight
        /\ redirected.cmd = p.cmd /\ redirected.seq = p.seq /\ redirected.out = p.out
    BY <1>1, <1>2 DEF ClientState, Response, OptServer
  <2>3. /\ q \in ClientState /\ q.inflight = client[c].inflight /\ q.cmd = client[c].cmd
        /\ q.seq = client[c].seq /\ q.out = client[c].out
    BY <1>2, <2>2
  <2> HIDE DEF c, p, redirected, answered
  <2>4. LInv' /\ UNCHANGED Atomic!vars
    BY <1>1, <1>3, <2>1, <2>3, ResendLinear
  <2>5. QED
    BY <2>4
<1>5. CASE AnswersCurrent(p, m) /\ m.ok
  <2>1. /\ client' = [client EXCEPT ![c] = answered]
        /\ p.inflight /\ m.seq = p.seq
    BY <1>3, <1>5 DEF AnswersCurrent
  <2>2. /\ ~answered.inflight /\ answered.out = m.res /\ answered.cmd = p.cmd
        /\ answered.seq = p.seq
    BY <1>2 DEF ClientState
  <2>3. /\ Committed.sessions[c].lastSeq = p.seq
        /\ Committed.sessions[c].lastResult = m.res
    BY <1>1, <1>5, <2>1 DEF LInv, TrueAnswers, TrueAnswer
  <2>4. Committed' = Committed /\ UNCHANGED <<offers, log>>
    BY <1>3 DEF Committed, unchangedByClients, raft
  <2>5. /\ p = client[c]
        /\ client'[c].cmd = client[c].cmd /\ client'[c].seq = client[c].seq
        /\ ~client'[c].inflight /\ client'[c].out = m.res
        /\ \A d \in Client \ {c} : client'[d] = client[d]
    BY <1>1, <1>2, <2>1, <2>2
  <2> HIDE DEF answered, redirected, c, p
  <2>6. \A d \in Client : client'[d].cmd = client[d].cmd /\ client'[d].seq = client[d].seq
    BY <2>5
  <2>7. \A x : x.client \in Client /\ Issued(x) => Issued(x)'
    BY <2>6 DEF Issued
  <2>8. /\ \A r \in net : r.type = "creq" => r.cmd.client \in Client
        /\ \A r \in net : r.type = "cresp" => r.to \in Client
        /\ \A o \in offers : o.cmd.client \in Client
        /\ \A k \in DOMAIN log : log[k] = Noop \/ log[k].client \in Client
    BY DEF TInv, TypeOK, WellFormedCommands, WellFormed, Command, Request, Response
  <2>9. OnlyIssued'
    <3>1. \A r \in net' : r.type = "creq" => Issued(r.cmd)'
      BY <1>3, <2>7, <2>8 DEF LInv, OnlyIssued
    <3>2. \A o \in offers' : Issued(o.cmd)'
      BY <2>4, <2>7, <2>8 DEF LInv, OnlyIssued
    <3>3. \A j \in DOMAIN log' : log'[j] = Noop \/ Issued(log[j])'
      BY <2>4, <2>7, <2>8 DEF LInv, OnlyIssued
    <3>4. QED
      BY <2>4, <3>1, <3>2, <3>3 DEF OnlyIssued, Issued
  <2>10. SessionsKeepUp'
    <3> SUFFICES ASSUME NEW d \in Client
                 PROVE  /\ Committed.sessions[d].lastSeq <= client'[d].seq
                        /\ \/ Committed.sessions[d].lastSeq = client'[d].seq
                           \/ /\ client'[d].inflight
                              /\ Committed.sessions[d].lastSeq + 1 = client'[d].seq
                        /\ client'[d].inflight =>
                             client'[d].cmd.client = d /\ client'[d].cmd.seq = client'[d].seq
      BY <2>4 DEF SessionsKeepUp
    <3>1. CASE d = c
      BY <2>3, <2>5, <3>1, ClientFields
    <3>2. CASE d # c
      BY <2>5, <3>2 DEF LInv, SessionsKeepUp
    <3>3. QED
      BY <3>1, <3>2
  <2>11. TrueAnswers'
    BY <1>3, <2>4, <2>6, <2>8 DEF LInv, TrueAnswers, TrueAnswer
  <2>12. Atomic!Return(c)
    <3>1. /\ CallStatus(c) = "done" /\ CallStatus(c)' = "idle"
          /\ CallResult(c)' = CallResult(c)
      BY <2>1, <2>3, <2>4, <2>5 DEF CallStatus, CallResult, TookEffect
    <3>2. \A d \in Client \ {c} :
            CallStatus(d)' = CallStatus(d) /\ CallResult(d)' = CallResult(d)
      BY <2>4, <2>5 DEF CallStatus, CallResult, TookEffect
    <3>3. [d \in Client |-> CallStatus(d)]' =
            [[d \in Client |-> CallStatus(d)] EXCEPT ![c] = "idle"]
      BY <3>1, <3>2
    <3>4. [d \in Client |-> CallResult(d)]' = [d \in Client |-> CallResult(d)]
      BY <3>1, <3>2
    <3>5. [d \in Client |-> CallStatus(d)][c] = "done"
      BY <1>1, <3>1 DEF c
    <3>6. [d \in Client |-> client[d].cmd]' = [d \in Client |-> client[d].cmd]
      BY <2>6
    <3>7. QED
      BY <2>4, <3>3, <3>4, <3>5, <3>6 DEF Atomic!Return
  <2>13. QED
    BY <1>1, <2>9, <2>10, <2>11, <2>12 DEF LInv, Atomic!Next
<1>6. QED
  BY <1>4, <1>5

\* What the server knows of the client's current operation is what is committed.
LEMMA StoreAnswersTruly ==
  ASSUME TInv, FInv, LInv, NEW j \in DOMAIN stores, NEW c \in Client,
         stores[j].sessions[c].lastSeq = client[c].seq
  PROVE  Committed.sessions[c] = stores[j].sessions[c]
<1>1. /\ stores \in Seq(Store) /\ j <= Len(stores) /\ Len(stores) \in DOMAIN stores
      /\ SoundStore(stores[j])
  BY CommittedSound DEF TInv, TypeOK, SoundStores
<1>2. Older(stores[j].sessions[c], Committed.sessions[c])
  BY <1>1 DEF FInv, History, Committed
<1>3. /\ stores[j].sessions[c].lastSeq \in Nat /\ Committed.sessions[c].lastSeq \in Nat
      /\ Committed.sessions[c].lastSeq <= client[c].seq
  BY <1>1, SessionType, ClientFields DEF LInv, SessionsKeepUp
<1>4. QED
  BY <1>2, <1>3 DEF Older

LEMMA ReplyLinear ==
  ASSUME TInv, FInv, LInv, NEW m \in net, Reply(m)
  PROVE  LInv' /\ UNCHANGED Atomic!vars
<1> DEFINE i == m.to
           c == m.cmd.client
           ok == OkResp(c, m.cmd.seq, store[i].sessions[c].lastResult)
<1>1. /\ i \in Server /\ c \in Client /\ m.cmd.seq \in Nat /\ m.type = "creq"
      /\ m.cmd.seq <= client[c].seq
  BY RequestFields DEF Reply, Command, LInv, OnlyIssued, Issued
<1>2. \A hint : Redirect(m.cmd, hint).type = "cresp" /\ TrueAnswer(Redirect(m.cmd, hint))
  BY <1>1 DEF Redirect, TrueAnswer
<1>3. HasCached(store[i], c, m.cmd.seq) => ok.type = "cresp" /\ TrueAnswer(ok)
  <2> SUFFICES ASSUME HasCached(store[i], c, m.cmd.seq)
               PROVE  ok.type = "cresp" /\ TrueAnswer(ok)
    OBVIOUS
  <2>1. PICK j \in DOMAIN stores : store[i] = stores[j]
    <3>1. /\ stores \in Seq(Store) /\ Len(stores) = Len(log) + 1 /\ Len(log) \in Nat
          /\ Len(app[i]) \in 0 .. Len(log) /\ store[i] = stores[Len(app[i]) + 1]
      BY <1>1 DEF FInv, Standing, IsStoreAt, TInv, TypeOK
    <3>2. Len(app[i]) + 1 \in DOMAIN stores
      BY <3>1
    <3>3. QED
      BY <3>1, <3>2
  <2>2. stores[j].sessions[c].lastSeq = m.cmd.seq
    BY <2>1 DEF HasCached
  <2>3. m.cmd.seq = client[c].seq => Committed.sessions[c] = stores[j].sessions[c]
    BY <1>1, <2>2, StoreAnswersTruly
  <2>4. /\ ok.type = "cresp" /\ ok.to = c /\ ok.seq = m.cmd.seq
        /\ ok.res = stores[j].sessions[c].lastResult
    BY <2>1 DEF OkResp
  <2> HIDE DEF ok
  <2>5. QED
    BY <1>1, <2>2, <2>3, <2>4 DEF TrueAnswer
<1>4. \A r \in net' : r \in net \/ (r.type = "cresp" /\ TrueAnswer(r))
  BY <1>2, <1>3 DEF Reply, Exchange, Delivered
<1>5. UNCHANGED <<client, stores, log, offers>>
  BY DEF Reply, unchangedByReply, raft
<1>6. QED
  BY <1>4, <1>5, SilentLinear DEF LInv, OnlyIssued

\* So is what it answers when it applies the next entry.
LEMMA AppliedAnswers ==
  ASSUME TInv, FInv, LInv, NEW i \in Server, NEW k, NEW e,
         k = Len(app[i]) + 1, k <= Len(log), e = log[k]
  PROVE  \A r \in Answer(i, e) : r.type = "cresp" /\ TrueAnswer(r)
<1> SUFFICES ASSUME Waits(i, e), NEW r, r = OkResp(e.client, e.seq, Apply(store[i], e).res)
             PROVE  r.type = "cresp" /\ TrueAnswer(r)
  BY DEF Answer
<1> DEFINE c == e.client
<1>1. /\ k \in DOMAIN log /\ k \in DOMAIN stores /\ k + 1 \in DOMAIN stores
      /\ (e = Noop \/ WellFormed(e))
  BY NextEntry
<1>2. store[i] = stores[k] /\ stores[k + 1] = After(stores[k], e)
  BY NextStore
<1>3. /\ WellFormed(e) /\ Issued(e) /\ c \in Client /\ e.seq \in Nat /\ e # Noop
      /\ SoundStore(stores[k]) /\ SoundStore(stores[k + 1])
  BY <1>1 DEF Waits, TInv, SoundStores, LInv, OnlyIssued, WellFormed, Command
<1>4. AppliesOnce(stores[k], e, stores[k + 1], stores[k].sessions[c].lastSeq)
  BY <1>2, <1>3, ApplySessions DEF After
<1>5. /\ r.type = "cresp" /\ r.to = c /\ r.seq = e.seq
      /\ r.res = Apply(stores[k], e).res
  BY <1>2 DEF OkResp
<1>6. e.seq <= client[c].seq
  BY <1>3 DEF Issued
<1>7. ASSUME e.seq = client[c].seq
      PROVE  /\ Committed.sessions[c].lastSeq = e.seq
             /\ Committed.sessions[c].lastResult = Apply(stores[k], e).res
  <2>1. /\ stores[k].sessions[c].lastSeq \in Nat /\ Committed.sessions[c].lastSeq \in Nat
        /\ Committed.sessions[c].lastSeq <= client[c].seq
    BY <1>3, SessionType, ClientFields DEF LInv, SessionsKeepUp
  <2>2. k <= Len(stores) /\ Len(stores) \in DOMAIN stores
    BY <1>1, CommittedSound DEF TInv, TypeOK
  <2>3. stores[k].sessions[c].lastSeq <= Committed.sessions[c].lastSeq
    BY <1>1, <1>3, <2>2 DEF FInv, History, Committed, Older
  <2>4. /\ stores[k + 1].sessions[c].lastSeq = e.seq
        /\ stores[k + 1].sessions[c].lastResult = Apply(stores[k], e).res
    <3>1. e.seq \in Nat /\ stores[k].sessions[c].lastSeq <= e.seq
      BY <1>3, <1>7, <2>1, <2>3
    <3>2. QED
      BY <1>4, <3>1 DEF AppliesOnce
  <2> DEFINE j == k + 1
  <2>5. j \in DOMAIN stores /\ c \in Client /\ stores[j].sessions[c].lastSeq = client[c].seq
    BY <1>1, <1>3, <1>7, <2>4
  <2> HIDE DEF j, c
  <2>6. Committed.sessions[c] = stores[j].sessions[c]
    BY <2>5, StoreAnswersTruly
  <2>7. QED
    BY <2>4, <2>6 DEF j
<1> HIDE DEF c
<1>8. QED
  BY <1>5, <1>6, <1>7 DEF TrueAnswer

\* The steps that apply an entry that was committed before.
LEMMA ApplyLinear ==
  ASSUME TInv, FInv, LInv, NEW i \in Server,
         \/ \E last \in BOOLEAN : ApplyNext(i, last)
         \/ SnapshotCrash(i)
         \/ \E snap \in snaps : InstallKept(i, snap)
  PROVE  LInv' /\ UNCHANGED Atomic!vars
<1> DEFINE k == Len(app[i]) + 1
           e == log[k]
<1>1. /\ k <= Len(log) /\ UNCHANGED <<offers, client, stores, log>>
      /\ net' = net \cup Answer(i, e)
  <2>1. CASE \E last \in BOOLEAN : ApplyNext(i, last)
    BY <2>1, ApplyNextTyped DEF ApplyNext
  <2>2. CASE SnapshotCrash(i)
    BY <2>2, SnapshotCrashTyped DEF SnapshotCrash
  <2>3. CASE \E snap \in snaps : InstallKept(i, snap)
    BY <2>3, InstallKeptIs DEF Kept
  <2>4. QED
    BY <2>1, <2>2, <2>3
<1>2. \A r \in Answer(i, e) : r.type = "cresp" /\ TrueAnswer(r)
  BY <1>1, AppliedAnswers
<1> HIDE DEF k, e
<1>3. \A r \in net' : r \in net \/ (r.type = "cresp" /\ TrueAnswer(r))
  BY <1>1, <1>2
<1>4. QED
  BY <1>1, <1>3, SilentLinear DEF LInv, OnlyIssued

\* Steps that neither answer nor change what is committed.
LEMMA OtherLinear ==
  ASSUME TInv, FInv, LInv,
         \/ \E m \in net : Lose(m) \/ Propose(m) \/ ProposeCrash(m)
         \/ \E o \in offers : LoseOffer(o)
         \/ \E i \in Server : Crash(i) \/ Restart(i)
         \/ \E i \in Server, snap \in snaps : Install(i, snap)
         \/ \E i \in Server, l \in OptServer : ElectionChange(i, l)
         \/ UNCHANGED vars
  PROVE  LInv' /\ UNCHANGED Atomic!vars
<1>1. UNCHANGED <<client, stores>>
  BY DEF Lose, Propose, ProposeCrash, LoseOffer, Crash, Restart, Install, ElectionChange,
         unchangedByRaft, vars
<1>2. log' = log
  <2>1. CASE \E m \in net : ProposeCrash(m)
    BY <2>1, ProposeCrashFollows
  <2>2. CASE \E i \in Server : Crash(i) \/ Restart(i)
    BY <2>2, CrashFollows, RestartFollows
  <2>3. CASE \E i \in Server, snap \in snaps : Install(i, snap)
    BY <2>3, InstallFollows
  <2>4. CASE \E m \in net : Lose(m) \/ Propose(m)
    BY <2>4 DEF Lose, Propose, raft
  <2>5. QED
    BY <2>1, <2>2, <2>3, <2>4 DEF LoseOffer, ElectionChange, raft, vars
<1>3. net' \subseteq net
  BY DEF Lose, Propose, ProposeCrash, Exchange, LoseOffer, Crash, Restart, Install,
         ElectionChange, unchangedByRaft, vars
<1>4. \A o \in offers' : Issued(o.cmd)
  <2>1. ASSUME NEW m \in net, Propose(m) PROVE \A o \in offers' : Issued(o.cmd)
    <3>1. Issued(m.cmd)
      BY <2>1 DEF Propose, Proposable, LInv, OnlyIssued
    <3>2. \A o \in offers' : o \in offers \/ o.cmd = m.cmd
      BY <2>1 DEF Propose
    <3>3. QED
      BY <3>1, <3>2 DEF LInv, OnlyIssued
  <2>2. CASE ~\E m \in net : Propose(m)
    <3>1. offers' \subseteq offers
      BY <2>2 DEF Lose, ProposeCrash, LoseOffer, Crash, Restart, Install, ElectionChange, vars
    <3>2. QED
      BY <3>1 DEF LInv, OnlyIssued
  <2>3. QED
    BY <2>1, <2>2
<1>5. QED
  BY <1>1, <1>2, <1>3, <1>4, SilentLinear

LEMMA NextLinear == TInv /\ FInv /\ LInv /\ [Next]_vars => LInv' /\ [Atomic!Next]_Atomic!vars
<1> SUFFICES ASSUME TInv, FInv, LInv, [Next]_vars PROVE LInv' /\ [Atomic!Next]_Atomic!vars
  OBVIOUS
<1>1. ASSUME NEW c \in Client, NEW op \in Kinds[c], NEW k \in Key, StartNextOp(c, op, k)
      PROVE  LInv' /\ [Atomic!Next]_Atomic!vars
  <2>1. op \in {"Get", "Put", "CAS"}
    BY ServiceAssumption
  <2>2. QED
    BY <1>1, <2>1, StartNextOpLinear DEF Atomic!Next
<1>2. ASSUME NEW i \in Server, CommitNoop(i)
      PROVE  LInv' /\ [Atomic!Next]_Atomic!vars
  <2>1. Grown(Noop)
    BY <1>2, CommitNoopTyped
  <2>2. UNCHANGED <<client, offers, net>>
    BY <1>2 DEF CommitNoop, unchangedByRaft
  <2>3. QED
    BY <2>1, <2>2, GrownLinear
<1>3. ASSUME NEW i \in Server, NEW o \in offers, Commit(i, o)
      PROVE  LInv' /\ [Atomic!Next]_Atomic!vars
  <2>1. Grown(o.cmd) /\ WellFormed(o.cmd) /\ Issued(o.cmd)
    BY <1>3, CommitTyped DEF TInv, WellFormedCommands, LInv, OnlyIssued
  <2>2. UNCHANGED <<client, net>> /\ offers' \subseteq offers
    BY <1>3 DEF Commit, unchangedByRaft
  <2>3. QED
    BY <2>1, <2>2, GrownLinear
<1>4. ASSUME NEW m \in net, ProposeAlone(m) \/ ProposeAloneCrash(m)
      PROVE  LInv' /\ [Atomic!Next]_Atomic!vars
  <2> DEFINE i == m.to
             e == m.cmd
  <2>1. i \in Server /\ Grown(e) /\ WellFormed(e) /\ Issued(e)
    BY <1>4, ProposeAloneTyped, ProposeAloneCrashTyped, RequestFields
    DEF ProposeAlone, ProposeAloneCrash, Proposable, LInv, OnlyIssued
  <2>2. /\ UNCHANGED <<client, offers>> /\ net' \subseteq net \cup Answer(i, e)
        /\ Len(app[i]) = Len(log)
    BY <1>4 DEF ProposeAlone, ProposeAloneCrash, Exchange
  <2> HIDE DEF i, e
  <2>3. store[i] = Committed
    BY <2>1, <2>2 DEF FInv, Standing, IsStoreAt, TInv, SoundStores, TypeOK, Committed
  <2>4. \A r \in Answer(i, e) : r.type = "cresp" /\ TrueAnswer(r)'
    BY <2>1, <2>2, <2>3, AloneAnswers
  <2>5. \A r \in net' : r \in net \/ (r.type = "cresp" /\ TrueAnswer(r)')
    BY <2>2, <2>4
  <2>6. QED
    BY <2>1, <2>2, <2>5, GrownLinear
<1>5. ASSUME \/ \E c \in Client, to \in Server : Watchdog(c, to)
             \/ \E c \in Client : Retry(c)
             \/ \E m \in net : Reply(m)
             \/ \E i \in Server : \/ \E last \in BOOLEAN : ApplyNext(i, last)
                                 \/ SnapshotCrash(i)
                                 \/ \E snap \in snaps : InstallKept(i, snap)
      PROVE  LInv' /\ [Atomic!Next]_Atomic!vars
  BY <1>5, WatchdogLinear, RetryLinear, ReplyLinear, ApplyLinear
<1>6. QED
  BY <1>1, <1>2, <1>3, <1>4, <1>5, HandleRespLinear, OtherLinear DEF Next

\* Clients see an atomic map: every operation takes effect once, between its
\* invocation and its response, and the response is the result it had then,
\* whatever is lost, repeated, retried, redirected or crashes (Linearizable).
THEOREM ServiceLinearizable == Spec => Linearizable
<1>1. Init => LInv /\ Atomic!Init
  BY InitLinear
<1>2. TInv /\ FInv /\ LInv /\ [Next]_vars => LInv' /\ [Atomic!Next]_Atomic!vars
  BY NextLinear
<1>3. Spec => [](TInv /\ FInv)
  BY Follows
<1>4. QED
  BY <1>1, <1>2, <1>3, PTL DEF Spec, Linearizable, Atomic!Spec

-----------------------------------------------------------------------------
(* The service runs over a replicated log *)

LEMMA GrowthIs ==
  ASSUME TypeOK, NEW new \in Seq(LogItem), log' = log \o new
  PROVE  Raft!Growth = new
<1>1. log \in Seq(LogItem) /\ log' \in Seq(LogItem) /\ Len(log') = Len(log) + Len(new)
  BY DEF TypeOK
<1>2. SubSeq(log', Len(log) + 1, Len(log')) = new
  BY <1>1
<1>3. QED
  BY <1>2 DEF Raft!Growth

LEMMA StepIsNext ==
  ASSUME TypeOK, NEW i \in Server, NEW new \in Seq(LogItem), NEW k, NEW s,
         Raft!Step(i, new, k, s)
  PROVE  Raft!Next
<1>1. Stepped(i, new, k, s)
  BY StepLengths
<1>2. log' = log \o new /\ k \in 0 .. Len(log') /\ s \in 0 .. Len(log')
  BY <1>1 DEF Stepped
<1>3. Raft!Growth = new
  BY <1>2, GrowthIs
<1>4. Raft!Step(i, Raft!Growth, k, s)
  BY <1>3
<1>5. QED
  BY <1>2, <1>3, <1>4 DEF Raft!Next

LEMMA CrashIsNext ==
  ASSUME TypeOK, NEW i \in Server, NEW new \in Seq(LogItem), AppCrash(i, new)
  PROVE  Raft!Next
<1>1. Raft!Fail(i, new, Len(saved[i])) /\ log' = log \o new
      /\ Len(saved[i]) \in Len(saved[i]) .. Len(log')
  BY DEF AppCrash, Raft!Fail
<1>2. Raft!Growth = new
  BY <1>1, GrowthIs
<1>3. Len(saved[i]) \in 0 .. Len(log')
  BY <1>1 DEF TypeOK
<1>4. QED
  BY <1>1, <1>2, <1>3 DEF Raft!Next

LEMMA ServiceStepsLog == TInv /\ [Next]_vars => [Raft!Next]_Raft!vars
<1> SUFFICES ASSUME TInv, [Next]_vars PROVE [Raft!Next]_Raft!vars
  OBVIOUS
<1>0. TypeOK /\ <<>> \in Seq(LogItem)
  BY DEF TInv
<1>1. ASSUME UNCHANGED raft PROVE [Raft!Next]_Raft!vars
  BY <1>1 DEF raft, Raft!vars
<1>2. ASSUME NEW i \in Server, NEW last \in BOOLEAN, ApplyNext(i, last) PROVE Raft!Next
  BY <1>0, <1>2, StepIsNext DEF ApplyNext
<1>3. ASSUME NEW i \in Server, NEW snap \in snaps, Install(i, snap) \/ InstallKept(i, snap)
      PROVE  Raft!Next
  BY <1>0, <1>3, StepIsNext DEF Install, InstallKept
<1>4. ASSUME NEW i \in Server, NEW e \in LogItem, LeaderCommit(i, <<e>>) PROVE Raft!Next
  <2>1. <<e>> \in Seq(LogItem)
    OBVIOUS
  <2>2. QED
    BY <1>0, <1>4, <2>1, StepIsNext DEF LeaderCommit
<1>5. ASSUME NEW m \in net, ProposeAlone(m) PROVE Raft!Next
  <2>1. m.to \in Server /\ <<m.cmd>> \in Seq(LogItem)
    BY <1>5, RequestFields DEF ProposeAlone, Proposable, LogItem
  <2>2. QED
    BY <1>0, <1>5, <2>1, StepIsNext DEF ProposeAlone
<1>6. ASSUME NEW m \in net, ProposeCrash(m) \/ ProposeAloneCrash(m) PROVE Raft!Next
  <2>1. m.to \in Server /\ <<m.cmd>> \in Seq(LogItem)
    BY <1>6, RequestFields DEF ProposeCrash, ProposeAloneCrash, Proposable, LogItem
  <2>2. QED
    BY <1>0, <1>6, <2>1, CrashIsNext DEF ProposeCrash, ProposeAloneCrash
<1>7. ASSUME NEW i \in Server, Crash(i) \/ SnapshotCrash(i) PROVE Raft!Next
  BY <1>0, <1>7, CrashIsNext DEF Crash, SnapshotCrash
<1>8. ASSUME NEW i \in Server, Restart(i) PROVE Raft!Next
  BY <1>8 DEF Restart, Raft!Next
<1>9. ASSUME NEW i \in Server, CommitNoop(i) \/ \E o \in offers : Commit(i, o)
      PROVE  Raft!Next
  <2>1. \E e \in LogItem : LeaderCommit(i, <<e>>)
    BY <1>0, <1>9 DEF CommitNoop, Commit, TypeOK, Offer, LogItem
  <2>2. QED
    BY <1>4, <2>1
<1>10. ASSUME \/ \E c \in Client : \E op \in Kinds[c], k \in Key : StartNextOp(c, op, k)
              \/ \E c \in Client, to \in Server : Watchdog(c, to)
              \/ \E c \in Client : Retry(c)
              \/ \E m \in net : HandleResp(m) \/ Reply(m) \/ Propose(m) \/ Lose(m)
              \/ \E o \in offers : LoseOffer(o)
              \/ \E i \in Server, l \in OptServer : ElectionChange(i, l)
              \/ UNCHANGED vars
       PROVE  UNCHANGED raft
  BY <1>10
  DEF StartNextOp, Watchdog, Retry, HandleResp, Reply, Propose, Lose, LoseOffer,
      ElectionChange, unchangedByClients, unchangedByReply, vars
<1>11. QED
  BY <1>1, <1>2, <1>3, <1>5, <1>6, <1>7, <1>8, <1>9, <1>10 DEF Next

\* Of Raft the service uses what ReplicatedLog promises and nothing else
\* (Server.step and handleOutput of sim/server.go).
THEOREM ServiceUsesLog == Spec => Raft!Spec
<1>1. Init => Raft!Init
  BY DEF Init
<1>2. TInv /\ [Next]_vars => [Raft!Next]_Raft!vars
  BY ServiceStepsLog
<1>3. QED
  BY <1>1, <1>2, Typed, PTL DEF Spec, Raft!Spec
=============================================================================
