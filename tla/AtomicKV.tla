------------------------------- MODULE AtomicKV -------------------------------
(***************************************************************************)
(* What the service promises its clients (package comment of kv/kv.go): a  *)
(* linearizable map with exactly-once operations.  Each operation takes    *)
(* effect once, atomically, between its invocation and its response, and   *)
(* the response is the result it had then.                                 *)
(***************************************************************************)
EXTENDS KVStore

VARIABLES
    data,     \* the map
    status,   \* where each client is with its current operation
    call,     \* the client's current or last operation
    result    \* its result, once it has taken effect

vars == <<data, status, call, result>>

Init ==
  /\ data = NoData
  /\ status = [c \in Client |-> "idle"]
  /\ call = [c \in Client |-> NoCommand]
  /\ result = [c \in Client |-> NoResult]

Invoke(c) ==
  /\ status[c] = "idle"
  /\ status' = [status EXCEPT ![c] = "waiting"]
  /\ call'[c] \in Command
  /\ call' = [call EXCEPT ![c] = call'[c]]
  /\ UNCHANGED <<data, result>>

TakeEffect(c) ==
  LET x == Execute(data, call[c]) IN
  /\ status[c] = "waiting"
  /\ status' = [status EXCEPT ![c] = "done"]
  /\ data' = x.data
  /\ result' = [result EXCEPT ![c] = x.res]
  /\ UNCHANGED call

Return(c) ==
  /\ status[c] = "done"
  /\ status' = [status EXCEPT ![c] = "idle"]
  /\ UNCHANGED <<data, call, result>>

Next == \E c \in Client : Invoke(c) \/ TakeEffect(c) \/ Return(c)

Spec == Init /\ [][Next]_vars
==============================================================================
