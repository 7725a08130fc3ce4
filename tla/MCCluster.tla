------------------------------ MODULE MCCluster ------------------------------
(***************************************************************************)
(* Instances of Cluster for TLC.                                           *)
(***************************************************************************)
EXTENDS ClusterProperties, TLC

CONSTANTS s1, s2, s3, s4   \* servers

(* Links *)

\* Every two distinct servers are connected.
AllLinks == {l \in Server \X Server : l[1] # l[2]}

\* s1 and s2 are cut off from each other.
StarLinks == {l \in AllLinks : {l[1], l[2]} # {s1, s2}}

\* Everything goes through s1.
HubLinks == {l \in AllLinks : s1 \in {l[1], l[2]}}

\* s1 and s2 are cut off from each other, and so are s3 and s4.
SquareLinks == {l \in StarLinks : {l[1], l[2]} # {s3, s4}}

(* Elections started by a timeout *)

\* s1 and s2 in any term; s1 in any term; s1 once.
AnyOfTwo == {s1, s2} \X (1 .. MaxTerm)

OnlyS1 == {s1} \X (1 .. MaxTerm)

Once == {<<s1, 1>>}

\* s1 in the odd terms; s2 in the even ones, and before it has heard of any.
Alternating == {<<IF t % 2 = 1 THEN s1 ELSE s2, t>> : t \in 1 .. MaxTerm}
                 \cup {<<s2, 1>>}

(* Membership changes *)

AddVia(at, s) == [at |-> at, type |-> "AddServer", id |-> s]

RemoveVia(at, s) == [at |-> at, type |-> "RemoveServer", id |-> s]

NoChanges == {}

\* A third server joins, and the leader removes either voter.
JoinAndLeave == {AddVia(s1, s3), RemoveVia(s1, s1), RemoveVia(s1, s2)}

\* Two leaders of consecutive terms each remove a server.
RivalRemovals == {RemoveVia(s1, s4), RemoveVia(s2, s1)}

(* Symmetry and view *)

SymmetricPair == Permutations({s1, s2})

SymmetricFollowers == Permutations({s2, s3})

(***************************************************************************)
(* The network never forgets a message, so that a message can be lost,     *)
(* delayed, reordered and delivered many times.  Most answers soon become  *)
(* such that their receiver ignores them in every later state: its term    *)
(* has passed theirs, or it no longer has, nor can have again in that term,*)
(* the role they answer to.  Two states that differ only in such answers   *)
(* have the same future and are one state for TLC.                         *)
(***************************************************************************)
Ignored(m) ==
  LET t  == durable[m.to].term
      st == node[m.to].state
  IN  CASE m.type = "VoteResp" /\ m.preVote /\ m.granted -> m.term <= t
        [] m.type = "VoteResp" /\ m.preVote /\ ~m.granted -> m.term < t
        [] m.type = "VoteResp" /\ ~m.preVote ->
             m.term < t \/ (m.term = t /\ st # "Candidate")
        [] m.type \in {"AppResp", "SnapResp"} ->
             m.term < t \/ (m.term = t /\ st \in {"Follower", "PreCandidate"})
        [] m.type = "TimeoutNow" -> m.term < t
        [] OTHER -> FALSE

View == <<node, up, durable, app, {m \in net : ~Ignored(m)}, crashes, leaders, committed>>
==============================================================================
