----------------------------- MODULE MCService -----------------------------
(***************************************************************************)
(* Instances of Service for TLC.                                           *)
(***************************************************************************)
EXTENDS Service

MCClient == 1 .. 2
OneClient == {1}

\* Operations per client.
OneEach == [c \in Client |-> 1]

\* What they are.
PutsAndGets == [c \in Client |-> IF c = 1 THEN {"Put"} ELSE {"Get", "Put"}]
Puts == [c \in Client |-> {"Put"}]

(***************************************************************************)
(* Where messages are never forgotten, two states with the same view have  *)
(* the same future: a watchdog may fire at any time and sends to any       *)
(* server, so that the target, the scheduled retry, the redirects, whom a  *)
(* follower believes to lead and the requests of the operation in flight   *)
(* add nothing to what can happen; and an answer counts only while its     *)
(* operation is in flight.                                                 *)
(***************************************************************************)
InFlight(c, seq) == client[c].inflight /\ client[c].seq = seq

Matters(m) ==
  IF m.type = "creq" THEN ~InFlight(m.cmd.client, m.cmd.seq)
                     ELSE m.ok /\ InFlight(m.to, m.seq)

View ==
  <<raft, offers, {i \in Server : Leads(i)}, store, disk, pending, snaps, stores, effectAt, elections,
    crashes, {m \in net : Matters(m)},
    [c \in Client |-> [client[c] EXCEPT !.target = None, !.retry = 0]]>>
==============================================================================
