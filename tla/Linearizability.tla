--------------------------- MODULE Linearizability ---------------------------
(***************************************************************************)
(* The linearizability checker (checker/linear.go) on the histories that   *)
(* the clients of the simulator record (sim/client.go).  The history is    *)
(* recorded first, with any answers, right or wrong; then it is searched,  *)
(* one key after the other: an action is one call of dfs or one turn of    *)
(* its loop.                                                               *)
(***************************************************************************)
EXTENDS KVStore, Sequences, FiniteSetsExt

CONSTANTS
    NoKey,     \* no key is being checked
    Kinds,     \* the operations that each client issues in a run
    MaxOps,    \* bound: operations in a history
    MaxTime    \* bound: instants at which something happens

ASSUME LinearizabilityAssumption ==
  /\ MaxOps \in Nat /\ MaxTime \in Nat /\ NoKey \notin Key
  /\ Kinds \in [Client -> SUBSET {"Get", "Put", "CAS"}]

\* An operation that is not complete has no response and no output yet.
LinOp == [cmd : Command, invoke : Nat, complete : BOOLEAN, response : Nat, out : Result]

VARIABLES
    history,     \* Simulator.history, in the order of the invocations
    clock,       \* the simulated time
    mode,        \* "record", "pick" a key, "enter" dfs, its "loop", or "done"
    todo,        \* the keys that CheckLinearizable has still to check
    key,         \* the key that checkKey works on
    linearized,  \* the operations on it that are linearized
    st,          \* the register after them
    visited,     \* the memo: pairs <<linearized, st>> that dfs has been called with
    stack,       \* the open calls of dfs: what each linearized, and st before
    next,        \* where the loop of the innermost call stands
    verdict      \* what CheckLinearizable returns

vars == <<history, clock, mode, todo, key, linearized, st, visited, stack, next, verdict>>

search == <<key, linearized, st, visited, stack, next>>

Init ==
  /\ history = <<>> /\ clock = 1
  /\ mode = "record" /\ verdict = "none"
  /\ todo = {} /\ key = NoKey
  /\ linearized = {} /\ st = Absent /\ visited = {} /\ stack = <<>> /\ next = 1

(***************************************************************************)
(* Recording                                                               *)
(***************************************************************************)
OpsOf(c) == {i \in DOMAIN history : history[i].cmd.client = c}

\* Bound: an instant at which nothing happened does not count.
Tick ==
  /\ mode = "record" /\ clock < MaxTime
  /\ \E i \in DOMAIN history : clock \in {history[i].invoke, history[i].response}
  /\ clock' = clock + 1
  /\ UNCHANGED <<history, mode, todo, search, verdict>>

\* startNextOp runs when the client has no operation in flight, later than the
\* response to its last one.  A CAS expects a value that some command wrote to
\* the key, whether or not this client has seen it, as in the histories of
\* checker/linear_test.go.
Invoke(c, op, k, e) ==
  LET n == Cardinality(OpsOf(c)) + 1
  IN  /\ mode = "record" /\ Len(history) < MaxOps /\ op \in Kinds[c]
      /\ \A i \in OpsOf(c) : history[i].complete /\ history[i].response < clock
      /\ history' = Append(history,
           [cmd |-> [client |-> c, seq |-> n, op |-> op, key |-> k,
                     value  |-> IF op = "Get" THEN NoValue ELSE <<c, n>>,
                     expect |-> IF op = "CAS" THEN e ELSE NoValue],
            invoke |-> clock, complete |-> FALSE, response |-> 0, out |-> NoResult])
      /\ UNCHANGED <<clock, mode, todo, search, verdict>>

Written(k) ==
  {history[i].cmd.value : i \in {j \in DOMAIN history : history[j].cmd.key = k}} \ {NoValue}

\* The shapes an answer may have, whatever the store holds.
Answers(cmd) ==
  {r \in [value : Written(cmd.key) \cup {NoValue}, ok : BOOLEAN] :
     CASE cmd.op = "Get" -> r.ok <=> r.value # NoValue
       [] cmd.op = "Put" -> r.ok /\ r.value = NoValue
       [] cmd.op = "CAS" -> r.ok => r.value = NoValue}

Respond(i, r) ==
  /\ mode = "record"
  /\ ~history[i].complete /\ history[i].invoke < clock
  /\ history' = [history EXCEPT ![i].complete = TRUE, ![i].response = clock, ![i].out = r]
  /\ UNCHANGED <<clock, mode, todo, search, verdict>>

(***************************************************************************)
(* applyOp and outputMatches                                               *)
(***************************************************************************)
Shown(r) == IF r = Absent THEN NoValue ELSE r

\* Faulty variant: a key that is not there is taken for one with no value.
AppliedLoosely(r, c) ==
  IF c.op = "Put" \/ (c.op = "CAS" /\ Shown(r) = c.expect)
  THEN [reg |-> c.value, value |-> NoValue, ok |-> TRUE]
  ELSE [reg |-> r, value |-> Shown(r), ok |-> c.op = "Get" /\ r # Absent]

ApplyOp(r, c) ==
  IF c.op = "Put" \/ (c.op = "CAS" /\ r # Absent /\ r = c.expect)
  THEN [reg |-> c.value, value |-> NoValue, ok |-> TRUE]
  ELSE [reg |-> r, value |-> Shown(r), ok |-> c.op = "Get" /\ r # Absent]

OutputMatches(o, x) ==
  CASE o.cmd.op = "Get" -> o.out.ok = x.ok /\ o.out.value = x.value
    [] o.cmd.op = "Put" -> TRUE
    [] o.cmd.op = "CAS" -> o.out.ok = x.ok /\ (~x.ok => o.out.value = x.value)

(***************************************************************************)
(* checkKey.  The history is in the order of the invocations, which is the *)
(* order checkKey sorts it into, so that positions in it stand for         *)
(* positions in the sorted one.                                            *)
(***************************************************************************)
KeyOps == {i \in DOMAIN history : history[i].cmd.key = key}

\* The complete operations that are not linearized yet.
Remaining == {i \in KeyOps \ linearized : history[i].complete}

\* Faulty variant: an operation invoked at the instant of a response follows it.
StrictlyInTime(i) == \A j \in Remaining \ {i} : history[i].invoke < history[j].response

\* The operation was not invoked after a remaining one had its response.
InTime(i) == \A j \in Remaining : history[i].invoke <= history[j].response

\* The operations that the loop has still to try in this call.
Candidates ==
  {i \in KeyOps \ linearized :
     /\ i >= next /\ InTime(i)
     /\ history[i].complete => OutputMatches(history[i], ApplyOp(st, history[i].cmd))}

Seen(l, r) == <<l, r>> \in visited

StartCheck ==
  /\ mode = "record"
  /\ mode' = "pick"
  /\ todo' = {history[i].cmd.key : i \in DOMAIN history}
  /\ clock' = 0
  /\ UNCHANGED <<history, search, verdict>>

PickKey(k) ==
  /\ mode = "pick" /\ k \in todo
  /\ mode' = "enter"
  /\ todo' = todo \ {k}
  /\ key' = k
  /\ linearized' = {} /\ st' = Absent /\ visited' = {} /\ stack' = <<>> /\ next' = 1
  /\ UNCHANGED <<history, clock, verdict>>

\* Every complete operation is linearized: all the calls return true.
KeyIsFine ==
  /\ mode = "enter" /\ Remaining = {}
  /\ mode' = "pick"
  /\ UNCHANGED <<history, clock, todo, search, verdict>>

Enter ==
  /\ mode = "enter" /\ Remaining # {}
  /\ ~Seen(linearized, st)
  /\ visited' = visited \cup {<<linearized, st>>}
  /\ next' = 1
  /\ mode' = "loop"
  /\ UNCHANGED <<history, clock, todo, key, linearized, st, stack, verdict>>

Linearize ==
  /\ mode = "loop" /\ Candidates # {}
  /\ LET i == Min(Candidates)
     IN  /\ stack' = Append(stack, [op |-> i, old |-> st])
         /\ linearized' = linearized \cup {i}
         /\ st' = ApplyOp(st, history[i].cmd).reg
  /\ mode' = "enter"
  /\ UNCHANGED <<history, clock, todo, key, visited, next, verdict>>

\* The innermost call returns false; its caller takes its choice back.
ReturnFalse ==
  /\ \/ mode = "enter" /\ Remaining # {} /\ Seen(linearized, st)
     \/ mode = "loop" /\ Candidates = {}
  /\ IF stack = <<>>
     THEN /\ mode' = "done" /\ verdict' = "violation"
          /\ UNCHANGED search
     ELSE LET call == stack[Len(stack)]
          IN  /\ mode' = "loop"
              /\ stack' = SubSeq(stack, 1, Len(stack) - 1)
              /\ linearized' = linearized \ {call.op}
              /\ st' = call.old
              /\ next' = call.op + 1
              /\ UNCHANGED <<key, visited, verdict>>
  /\ UNCHANGED <<history, clock, todo>>

AllKeysFine ==
  /\ mode = "pick" /\ todo = {}
  /\ mode' = "done" /\ verdict' = "linearizable"
  /\ UNCHANGED <<history, clock, todo, search>>

Next ==
  \/ Tick
  \/ \E c \in Client, op \in {"Get", "Put"}, k \in Key : Invoke(c, op, k, NoValue)
  \/ \E c \in Client, k \in Key : \E e \in Written(k) \cup {NoValue} : Invoke(c, "CAS", k, e)
  \/ \E i \in DOMAIN history : \E r \in Answers(history[i].cmd) : Respond(i, r)
  \/ StartCheck
  \/ \E k \in Key : PickKey(k)
  \/ KeyIsFine
  \/ Enter
  \/ Linearize
  \/ ReturnFalse
  \/ AllKeysFine

Spec == Init /\ [][Next]_vars

(***************************************************************************)
(* The definition the checker decides (package comment of kv/kv.go): the   *)
(* complete operations, and some of the others, can be put in one order    *)
(* that respects real time and in which the store, executing them one by   *)
(* one, gives the results that were recorded.                              *)
(***************************************************************************)
Orders ==
  LET Complete == {i \in DOMAIN history : history[i].complete}
      Included == {S \in SUBSET DOMAIN history : Complete \subseteq S}
  IN  UNION {{f \in [1 .. Cardinality(S) -> S] : \A i, j \in DOMAIN f : i # j => f[i] # f[j]} :
               S \in Included}

RespectsRealTime(f) ==
  \A i, j \in DOMAIN f :
    LET a == history[f[i]]
        b == history[f[j]]
    IN  a.complete /\ a.response < b.invoke => i < j

GivesRecordedResults(f) ==
  LET data[n \in 0 .. Len(f)] ==
        IF n = 0 THEN NoData ELSE Execute(data[n - 1], history[f[n]].cmd).data
  IN  \A n \in DOMAIN f :
        LET o == history[f[n]]
        IN  o.complete => Execute(data[n - 1], o.cmd).res = o.out

Linearizable == \E f \in Orders : RespectsRealTime(f) /\ GivesRecordedResults(f)

\* A history that the checker accepts is linearizable, although it looks at
\* each key apart, follows only candidates in invocation order and gives up
\* wherever its memo says so (CheckLinearizable, checkKey).
AcceptsOnlyLinearizable == verdict = "linearizable" => Linearizable

\* A history that the checker rejects is not linearizable: neither the cut of
\* the loop at the earliest response nor the memo loses the order that would
\* explain it, one that makes use of incomplete operations included.
RejectsOnlyIllegal == verdict = "violation" => ~Linearizable
==============================================================================
