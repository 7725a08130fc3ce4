------------------------- MODULE ReplicatedLogProofs -------------------------
(***************************************************************************)
(* What the abstract replicated log guarantees the application: whoever    *)
(* builds on it may take every server's application for a prefix of one    *)
(* sequence.                                                               *)
(***************************************************************************)
EXTENDS ReplicatedLog, TLAPS

PInv == TypeOK /\ PrefixInv

\* A prefix of a log stays one when the log grows.
LEMMA PrefixGrows ==
  ASSUME NEW l \in Seq(Item), NEW new \in Seq(Item), NEW s \in Seq(Item),
         Len(s) <= Len(l), s = SubSeq(l, 1, Len(s))
  PROVE  Len(s) <= Len(l \o new) /\ s = SubSeq(l \o new, 1, Len(s))
<1>1. \A k \in 1 .. Len(s) : (l \o new)[k] = l[k]
  OBVIOUS
<1>2. \A k \in 1 .. Len(s) : l[k] = s[k]
  OBVIOUS
<1>3. QED
  BY <1>1, <1>2

\* The first k entries of a log are a prefix of it.
LEMMA PrefixTaken ==
  ASSUME NEW l \in Seq(Item), NEW k \in 0 .. Len(l)
  PROVE  /\ SubSeq(l, 1, k) \in Seq(Item) /\ Len(SubSeq(l, 1, k)) = k
         /\ SubSeq(l, 1, k) = SubSeq(l, 1, Len(SubSeq(l, 1, k)))
  OBVIOUS

LEMMA StepKeepsPrefixes ==
  ASSUME PInv, NEW i \in Server, NEW new \in Seq(Item), NEW k, NEW s, Step(i, new, k, s)
  PROVE  PInv'
<1>1. /\ log \in Seq(Item) /\ app[i] \in Seq(Item) /\ saved[i] \in Seq(Item)
      /\ app \in [Server -> Seq(Item)] /\ saved \in [Server -> Seq(Item)]
  BY DEF PInv, TypeOK
<1>2. /\ log' = log \o new /\ log' \in Seq(Item) /\ up' = up
      /\ k \in 0 .. Len(log') /\ s \in 0 .. Len(log') /\ s <= k
      /\ app' = [app EXCEPT ![i] = SubSeq(log', 1, k)]
      /\ saved' = [saved EXCEPT ![i] = SubSeq(log', 1, s)]
  BY <1>1 DEF Step
<1>3. /\ SubSeq(log', 1, k) \in Seq(Item) /\ Len(SubSeq(log', 1, k)) = k
      /\ SubSeq(log', 1, s) \in Seq(Item) /\ Len(SubSeq(log', 1, s)) = s
  BY <1>2, PrefixTaken
<1>4. TypeOK'
  BY <1>1, <1>2, <1>3 DEF PInv, TypeOK
<1>5. ASSUME NEW j \in Server \ {i}
      PROVE  /\ Len(app[j]) <= Len(log') /\ app[j] = SubSeq(log', 1, Len(app[j]))
             /\ Len(saved[j]) <= Len(log') /\ saved[j] = SubSeq(log', 1, Len(saved[j]))
  BY <1>1, <1>2, PrefixGrows DEF PInv, PrefixInv
<1>6. /\ app'[i] = SubSeq(log', 1, k) /\ saved'[i] = SubSeq(log', 1, s)
      /\ \A j \in Server \ {i} : app'[j] = app[j] /\ saved'[j] = saved[j]
  BY <1>1, <1>2
<1>7. PrefixInv'
  BY <1>2, <1>3, <1>5, <1>6 DEF PInv, PrefixInv
<1>8. QED
  BY <1>4, <1>7 DEF PInv

LEMMA FailKeepsPrefixes ==
  ASSUME PInv, NEW i \in Server, NEW new \in Seq(Item), NEW s, Fail(i, new, s)
  PROVE  PInv'
<1>1. /\ log \in Seq(Item) /\ saved[i] \in Seq(Item) /\ up \in SUBSET Server
      /\ app \in [Server -> Seq(Item)] /\ saved \in [Server -> Seq(Item)]
  BY DEF PInv, TypeOK
<1>2. /\ log' = log \o new /\ log' \in Seq(Item) /\ up' = up \ {i}
      /\ s \in 0 .. Len(log')
      /\ app' = [app EXCEPT ![i] = <<>>]
      /\ saved' = [saved EXCEPT ![i] = SubSeq(log', 1, s)]
  BY <1>1 DEF Fail
<1>3. /\ SubSeq(log', 1, s) \in Seq(Item) /\ Len(SubSeq(log', 1, s)) = s
      /\ <<>> \in Seq(Item) /\ Len(<<>>) = 0 /\ <<>> = SubSeq(log', 1, 0)
  BY <1>2, PrefixTaken
<1>4. TypeOK'
  BY <1>1, <1>2, <1>3 DEF PInv, TypeOK
<1>5. ASSUME NEW j \in Server \ {i}
      PROVE  /\ Len(app[j]) <= Len(log') /\ app[j] = SubSeq(log', 1, Len(app[j]))
             /\ Len(saved[j]) <= Len(log') /\ saved[j] = SubSeq(log', 1, Len(saved[j]))
  BY <1>1, <1>2, PrefixGrows DEF PInv, PrefixInv
<1>6. /\ app'[i] = <<>> /\ saved'[i] = SubSeq(log', 1, s)
      /\ \A j \in Server \ {i} : app'[j] = app[j] /\ saved'[j] = saved[j]
  BY <1>1, <1>2
<1>7. PrefixInv'
  BY <1>2, <1>3, <1>5, <1>6 DEF PInv, PrefixInv
<1>8. QED
  BY <1>4, <1>7 DEF PInv

LEMMA RecoverKeepsPrefixes ==
  ASSUME PInv, NEW i \in Server, Recover(i)
  PROVE  PInv'
<1>1. /\ up' = up \cup {i} /\ app' = [app EXCEPT ![i] = saved[i]]
      /\ UNCHANGED <<log, saved>>
  BY DEF Recover
<1>2. TypeOK'
  BY <1>1 DEF PInv, TypeOK
<1>3. /\ app'[i] = saved[i] /\ \A j \in Server \ {i} : app'[j] = app[j]
      /\ Len(saved[i]) \in Nat
  BY <1>1 DEF PInv, TypeOK
<1>4. PrefixInv'
  BY <1>1, <1>3 DEF PInv, PrefixInv
<1>5. QED
  BY <1>2, <1>4 DEF PInv

\* Every application and every snapshot is a prefix of one log (PrefixInv).
THEOREM AppliedPrefixes == Spec => []PrefixInv
<1>1. Init => PInv
  BY DEF Init, PInv, TypeOK, PrefixInv
<1>2. PInv /\ [Next]_vars => PInv'
  <2> SUFFICES ASSUME PInv, [Next]_vars PROVE PInv'
    OBVIOUS
  <2>1. CASE UNCHANGED vars
    BY <2>1 DEF vars, PInv, TypeOK, PrefixInv
  <2>2. CASE Next
    BY <2>2, StepKeepsPrefixes, FailKeepsPrefixes, RecoverKeepsPrefixes DEF Next
  <2>3. QED
    BY <2>1, <2>2
<1>3. PInv => PrefixInv
  BY DEF PInv
<1>4. QED
  BY <1>1, <1>2, <1>3, PTL DEF Spec
==============================================================================
