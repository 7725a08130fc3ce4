------------------------------- MODULE RaftLog -------------------------------
(***************************************************************************)
(* The data a Raft node of raftsim keeps on disk and in memory, and the    *)
(* operators on it: the log of entries that follow the last snapshot       *)
(* (raft/log.go), the history of configurations (raft/conf.go) and the     *)
(* simulated durable store (storage/storage.go).                           *)
(*                                                                         *)
(* Entries, snapshots and configuration records all carry an index, and    *)
(* the Go code keeps every slice of them in ascending index order; the     *)
(* operators below take that order for granted exactly where the code does.*)
(***************************************************************************)
EXTENDS Integers, Sequences, FiniteSets, FiniteSetsExt

CONSTANTS
    Server,          \* the servers of the simulation, voters and spares
    None,            \* raft.None: no server
    Value,           \* what a client may propose
    InitialVoters    \* Params.Voters: the configuration every node starts from

ASSUME ServerAssumption == IsFiniteSet(Server) /\ None \notin Server
ASSUME VotersAssumption == InitialVoters \subseteq Server /\ InitialVoters # {}

(***************************************************************************)
(* Types.  Entry.Data is a client command, nothing for the no-op of a new  *)
(* leader, or an encoded configuration.                                    *)
(***************************************************************************)
Entry ==
       [index : Nat, term : Nat, type : {"Normal"}, data : Value]
  \cup [index : Nat, term : Nat, type : {"Noop"},   data : {None}]
  \cup [index : Nat, term : Nat, type : {"Config"}, data : SUBSET Server]

Log == [snapIndex : Nat, snapTerm : Nat, entries : Seq(Entry)]

ConfRecord == [index : Nat, cfg : SUBSET Server]

\* Snapshot.Data encodes the application state; here it is the sequence of
\* entries the application has applied to reach that state.
Snapshot == [index : Nat, term : Nat, config : SUBSET Server, data : Seq(Entry)]

NoSnapshot == [index |-> 0, term |-> 0, config |-> {}, data |-> <<>>]

(***************************************************************************)
(* raft/log.go                                                             *)
(***************************************************************************)
FirstIndex(l) == l.snapIndex + 1

LastIndex(l) == l.snapIndex + Len(l.entries)

\* term(i) returns (term, ok): HasTerm is ok, and TermAt is 0 when it is not.
HasTerm(l, i) == i \in l.snapIndex .. LastIndex(l)

TermAt(l, i) ==
  IF ~HasTerm(l, i) THEN 0
  ELSE IF i = l.snapIndex THEN l.snapTerm
  ELSE l.entries[i - l.snapIndex].term

LastTerm(l) == TermAt(l, LastIndex(l))

\* The entries of [lo, hi), at most max of them unless max is 0.
Slice(l, lo, hi, max) ==
  LET end == Min({hi - 1, LastIndex(l)})
      cut == IF max > 0 THEN Min({end, lo + max - 1}) ELSE end
  IN  IF lo < FirstIndex(l) THEN <<>>
      ELSE SubSeq(l.entries, lo - l.snapIndex, cut - l.snapIndex)

AppendLog(l, ents) == [l EXCEPT !.entries = @ \o ents]

TruncateFrom(l, i) == [l EXCEPT !.entries = SubSeq(@, 1, i - l.snapIndex - 1)]

Compact(l, i, t) ==
  IF i <= l.snapIndex THEN l
  ELSE [snapIndex |-> i, snapTerm |-> t,
        entries   |-> SubSeq(l.entries, i - l.snapIndex + 1, Len(l.entries))]

ResetLog(i, t) == [snapIndex |-> i, snapTerm |-> t, entries |-> <<>>]

\* Scans backwards from an index known to have term t.
FirstIndexOfTerm(l, from, t) ==
  Min({from} \cup {i \in FirstIndex(l) .. from :
                     \A j \in i .. from : TermAt(l, j) = t})

\* Scans backwards from the end and gives up at the first smaller term.
LastIndexOfTerm(l, t) ==
  Max({0} \cup {i \in FirstIndex(l) .. LastIndex(l) :
                  /\ TermAt(l, i) = t
                  /\ \A j \in i .. LastIndex(l) : TermAt(l, j) >= t})

(***************************************************************************)
(* Sequences of records in ascending index order.                          *)
(***************************************************************************)
CountUpTo(s, i) == Cardinality({k \in 1 .. Len(s) : s[k].index <= i})

UpTo(s, i) == SubSeq(s, 1, CountUpTo(s, i))

After(s, i) == SubSeq(s, CountUpTo(s, i) + 1, Len(s))

(***************************************************************************)
(* raft/conf.go.  The history is the set of the records the code keeps in  *)
(* a slice; their indexes differ, so the newest and the oldest are single  *)
(* records.  The configuration in force is that of the newest one          *)
(* (Node.config and Node.configIndex).                                     *)
(***************************************************************************)
Newest(h) == {r \in h : \A q \in h : q.index <= r.index}

Oldest(h) == {r \in h : \A q \in h : r.index <= q.index}

CfgOf(h) == UNION {r.cfg : r \in Newest(h)}

\* setConfig for every configuration entry among ents.
ConfigRecords(ents) ==
  {[index |-> e.index, cfg |-> e.data] :
     e \in {ents[k] : k \in {j \in 1 .. Len(ents) : ents[j].type = "Config"}}}

InitConfHistory(i, cfg) == { [index |-> i, cfg |-> cfg] }

\* The records at or before i, or the oldest one when there is none.
UpToOrOldest(h, i) ==
  IF \E r \in h : r.index <= i THEN {r \in h : r.index <= i} ELSE Oldest(h)

\* Faulty variant: a truncated configuration stays in force.
KeepsConfigs(h, i) == h

\* Pops the records at or after i, never the last remaining one.
TruncateConfigsFrom(h, i) == UpToOrOldest(h, i - 1)

\* Faulty variant: the configuration in force, committed or not.
NewestConfig(h, i) == CfgOf(h)

ConfigAt(h, i) == CfgOf(UpToOrOldest(h, i))

\* Drops every record that a later one supersedes at or before i.
PruneConfHistory(h, i) == {r \in h : r.index > i} \cup Newest(UpToOrOldest(h, i))

Quorum(cfg) == Cardinality(cfg) \div 2 + 1

(***************************************************************************)
(* storage/storage.go.  One Persist instruction is one fsync: either all   *)
(* of it becomes durable or nothing.  p.hs says whether the hard state is  *)
(* part of it, p.snap whether the snapshot is ("none", "keep" the suffix,  *)
(* "replace" the whole log), p.entries may be empty.                       *)
(***************************************************************************)
Durable == [term : Nat, votedFor : Server \cup {None},
            snap : Snapshot, entries : Seq(Entry)]

NewDurable == [term |-> 0, votedFor |-> None, snap |-> NoSnapshot, entries |-> <<>>]

Persist == [hs : BOOLEAN, term : Nat, votedFor : Server \cup {None},
            snap : {"none", "keep", "replace"}, snapshot : Snapshot,
            entries : Seq(Entry)]

\* The entries a Persist leaves below the ones it appends.
KeptEntries(d, p) ==
  LET afterSnap == CASE p.snap = "none"    -> d.entries
                     [] p.snap = "keep"    -> After(d.entries, p.snapshot.index)
                     [] p.snap = "replace" -> <<>>
  IN  IF p.entries = <<>> THEN afterSnap
      ELSE UpTo(afterSnap, p.entries[1].index - 1)

ApplyPersist(d, p) ==
  [term     |-> IF p.hs THEN p.term ELSE d.term,
   votedFor |-> IF p.hs THEN p.votedFor ELSE d.votedFor,
   snap     |-> IF p.snap = "none" THEN d.snap ELSE p.snapshot,
   entries  |-> KeptEntries(d, p) \o p.entries]

\* Apply panics when the appended entries do not continue what it keeps.
Discontinuous(d, p) ==
  LET kept == KeptEntries(d, p)
      prev == IF kept # <<>> THEN kept[Len(kept)].index
              ELSE ApplyPersist(d, p).snap.index
  IN  p.entries # <<>> /\ p.entries[1].index # prev + 1
==============================================================================
