------------------------------- MODULE KVStore -------------------------------
(***************************************************************************)
(* The key-value store that raftsim replicates, with the client sessions   *)
(* that suppress repeated commands (kv/kv.go), and the snapshot it is      *)
(* saved to and restored from (kv/codec.go).                               *)
(***************************************************************************)
EXTENDS Naturals

CONSTANTS
    Client,    \* client identifiers, 1 and up
    Key,       \* the keys of Options.Keys
    NoValue,   \* the empty string
    Absent     \* no entry in the map

ASSUME StoreAssumption == /\ NoValue \notin Client \X Nat
                          /\ Absent \notin (Client \X Nat) \cup {NoValue}

\* startNextOp writes the client and the sequence number into the value.
Value == Client \X Nat

OptValue == Value \cup {NoValue}

Command ==
  [client : Client, seq : Nat \ {0}, op : {"Get", "Put", "CAS"}, key : Key,
   value : OptValue, expect : OptValue]

\* A client that has not issued any command yet.
NoCommand == [op |-> "None"]

Result == [value : OptValue, ok : BOOLEAN]

NoResult == [value |-> NoValue, ok |-> FALSE]

\* lastSeq is 0 for a client whose session is nil.
Session == [lastSeq : Nat, lastResult : Result]

NoSession == [lastSeq |-> 0, lastResult |-> NoResult]

Data == [Key -> Value \cup {Absent}]

NoData == [k \in Key |-> Absent]

Store == [data : Data, sessions : [Client -> Session]]

NewStore == [data |-> NoData, sessions |-> [c \in Client |-> NoSession]]

(***************************************************************************)
(* Store.Apply                                                             *)
(***************************************************************************)
\* Faulty variant: the lookup of a key that is not there gives no value at all.
LookupEntry(data, k) == data[k]

\* What the map lookup returns for a key: the zero value when there is none.
Lookup(data, k) == IF data[k] = Absent THEN NoValue ELSE data[k]

Writes(data, c) ==
  c.op = "Put" \/ (c.op = "CAS" /\ data[c.key] # Absent /\ data[c.key] = c.expect)

Execute(data, c) ==
  IF Writes(data, c)
  THEN [data |-> [data EXCEPT ![c.key] = c.value],
        res  |-> [value |-> NoValue, ok |-> TRUE]]
  ELSE [data |-> data,
        res  |-> [value |-> Lookup(data, c.key),
                  ok    |-> c.op = "Get" /\ data[c.key] # Absent]]

\* Faulty variant: a command is executed whenever it is applied.
ApplyAgain(s, c) ==
  LET x == Execute(s.data, c)
  IN  [store |-> [data     |-> x.data,
                  sessions |-> [s.sessions EXCEPT ![c.client] =
                                  [lastSeq |-> c.seq, lastResult |-> x.res]]],
       res |-> x.res, fresh |-> TRUE]

\* Applies a command once: a repetition of the session's last command gives
\* its result again, an older one gives nothing.
Apply(s, c) ==
  LET last == s.sessions[c.client]
      x    == Execute(s.data, c)
  IN  IF c.seq = last.lastSeq THEN [store |-> s, res |-> last.lastResult, fresh |-> FALSE]
      ELSE IF c.seq < last.lastSeq THEN [store |-> s, res |-> NoResult, fresh |-> FALSE]
      ELSE [store |-> [data     |-> x.data,
                       sessions |-> [s.sessions EXCEPT ![c.client] =
                                       [lastSeq |-> c.seq, lastResult |-> x.res]]],
            res |-> x.res, fresh |-> TRUE]

\* CachedResult's second value; the first is the session's lastResult.
HasCached(s, c, seq) == s.sessions[c].lastSeq = seq

(***************************************************************************)
(* Snapshot and RestoreStore.  A snapshot lists the keys with their values *)
(* and the sessions; what it does not list is absent from the restored     *)
(* store.                                                                  *)
(***************************************************************************)
Encoded ==
  [pairs : SUBSET (Key \X Value), sessions : SUBSET (Client \X Nat \X Result)]

\* Faulty variant: the sessions are not saved.
EncodeData(s) ==
  [pairs    |-> {<<k, s.data[k]>> : k \in {j \in Key : s.data[j] # Absent}},
   sessions |-> {}]

Encode(s) ==
  [pairs    |-> {<<k, s.data[k]>> : k \in {j \in Key : s.data[j] # Absent}},
   sessions |-> {<<c, s.sessions[c].lastSeq, s.sessions[c].lastResult>> :
                   c \in {d \in Client : s.sessions[d].lastSeq # 0}}]

RestoreStore(b) ==
  [data     |-> [k \in Key |->
                   IF \E p \in b.pairs : p[1] = k
                   THEN (CHOOSE p \in b.pairs : p[1] = k)[2] ELSE Absent],
   sessions |-> [c \in Client |->
                   IF \E t \in b.sessions : t[1] = c
                   THEN LET t == CHOOSE u \in b.sessions : u[1] = c
                        IN  [lastSeq |-> t[2], lastResult |-> t[3]]
                   ELSE NoSession]]
==============================================================================
