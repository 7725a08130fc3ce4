---------------------------- MODULE ReplicatedLog ----------------------------
(***************************************************************************)
(* What the Raft cluster promises the application above it: one sequence   *)
(* of committed entries, which every server applies from the beginning,    *)
(* without gaps and without repetition, as far as it has got.  A crash     *)
(* takes a server back to its saved snapshot.                              *)
(***************************************************************************)
EXTENDS Naturals, Sequences

CONSTANTS
    Server,
    Item        \* what a log entry may be

VARIABLES
    log,        \* the committed entries
    up,         \* the running servers
    app,        \* the entries each server's application results from
    saved       \* the entries each server's snapshot on disk results from

vars == <<log, up, app, saved>>

Init ==
  /\ log = <<>>
  /\ up = Server
  /\ app = [i \in Server |-> <<>>]
  /\ saved = [i \in Server |-> <<>>]

\* A step of server i commits new entries, brings its application up to entry
\* k and its snapshot up to entry s; each of these may stay as it is.
Step(i, new, k, s) ==
  /\ i \in up
  /\ log' = log \o new
  /\ k \in Len(app[i]) .. Len(log')
  /\ s \in Len(saved[i]) .. k
  /\ app' = [app EXCEPT ![i] = SubSeq(log', 1, k)]
  /\ saved' = [saved EXCEPT ![i] = SubSeq(log', 1, s)]
  /\ UNCHANGED up

\* Server i stops, possibly after a step.
Fail(i, new, s) ==
  /\ i \in up
  /\ log' = log \o new
  /\ s \in Len(saved[i]) .. Len(log')
  /\ up' = up \ {i}
  /\ app' = [app EXCEPT ![i] = <<>>]
  /\ saved' = [saved EXCEPT ![i] = SubSeq(log', 1, s)]

Recover(i) ==
  /\ i \in Server \ up
  /\ up' = up \cup {i}
  /\ app' = [app EXCEPT ![i] = saved[i]]
  /\ UNCHANGED <<log, saved>>

\* The entries that a step adds to the log.
Growth == SubSeq(log', Len(log) + 1, Len(log'))

Next ==
  \E i \in Server :
    \/ Growth \in Seq(Item) /\ \E k, s \in 0 .. Len(log') : Step(i, Growth, k, s)
    \/ Growth \in Seq(Item) /\ \E s \in 0 .. Len(log') : Fail(i, Growth, s)
    \/ Recover(i)

Spec == Init /\ [][Next]_vars

TypeOK ==
  /\ log \in Seq(Item) /\ up \in SUBSET Server
  /\ app \in [Server -> Seq(Item)] /\ saved \in [Server -> Seq(Item)]

\* Applications are prefixes of the log, and so of each other; a snapshot never
\* gets ahead of the application of a running server.
PrefixInv ==
  \A i \in Server :
    /\ Len(app[i]) <= Len(log) /\ app[i] = SubSeq(log, 1, Len(app[i]))
    /\ Len(saved[i]) <= Len(log) /\ saved[i] = SubSeq(log, 1, Len(saved[i]))
    /\ i \in up => Len(saved[i]) <= Len(app[i])
==============================================================================
