------------------------ MODULE LinearizabilityProofs ------------------------
(***************************************************************************)
(* The linearizability checker is right about histories of any length,     *)
(* with any numbers of clients and keys.                                   *)
(*                                                                         *)
(* The search decides, key by key, whether the operations on the key can   *)
(* be explained from the absent register (Explained): its stack is the     *)
(* beginning of an explanation, and what its memo holds and its loops have *)
(* passed begins none.  That the keys can be looked at apart is the        *)
(* locality of linearizability: explanations of the keys are merged by the *)
(* instants at which their operations can be said to take effect.          *)
(***************************************************************************)
EXTENDS Linearizability, TLAPS, FiniteSetTheorems, SequenceTheorems, WellFoundedInduction

-----------------------------------------------------------------------------
(* Numbers and orders *)

\* A set of naturals has a smallest element.
LEMMA LeastNat ==
  ASSUME NEW S \in SUBSET Nat, S # {}
  PROVE  Min(S) \in S /\ \A y \in S : Min(S) <= y
<1>1. PICK x \in S : \A y \in S : <<y, x>> \notin OpToRel(<, Nat)
  BY WFMin, NatLessThanWellFounded, Zenon
<1>2. \A y \in S : y \in Nat /\ x \in Nat /\ <<y, x>> \in Nat \X Nat
  OBVIOUS
<1>3. \A y \in S : ~(y < x)
  BY <1>1, <1>2, Zenon DEF OpToRel
<1>4. \A y \in S : x <= y
  BY <1>2, <1>3
<1> QED
  BY <1>4, Zenon DEF Min

\* A set of naturals that holds 0 and every successor holds them all.
LEMMA AllNat ==
  ASSUME NEW S \in SUBSET Nat, 0 \in S, \A n \in S : n + 1 \in S
  PROVE  S = Nat
<1> SUFFICES ASSUME Nat \ S # {} PROVE FALSE
  OBVIOUS
<1> DEFINE T == Nat \ S
           m == Min(T)
<1>1. m \in T /\ \A y \in T : m <= y
  BY LeastNat
<1> HIDE DEF m, T
<1>2. m \in Nat /\ m \notin S
  BY <1>1 DEF T
<1>3. m # 0 /\ m - 1 \in Nat
  BY <1>2
<1>4. m - 1 \in S
  BY <1>1, <1>3 DEF T
<1>5. (m - 1) + 1 \in S
  BY <1>4
<1> QED
  BY <1>2, <1>5

\* A non-empty set of naturals up to b has a largest element.
LEMMA GreatestNat ==
  ASSUME NEW b \in Nat, NEW S \in SUBSET (0 .. b), S # {}
  PROVE  Max(S) \in S /\ \A y \in S : Max(S) >= y
<1> DEFINE T == {x \in Nat : b - x \in S}
<1>1. \A y \in S : b - y \in T /\ y \in 0 .. b /\ b - (b - y) = y
  OBVIOUS
<1>2. T \in SUBSET Nat /\ T # {}
  BY <1>1
<1> HIDE DEF T
<1>3. Min(T) \in T /\ \A x \in T : Min(T) <= x
  BY <1>2, LeastNat, Zenon
<1>4. Min(T) \in Nat /\ b - Min(T) \in S
  BY <1>3 DEF T
<1>5. \A y \in S : b - Min(T) >= y
  BY <1>1, <1>3, <1>4
<1> QED
  BY <1>4, <1>5, Zenon DEF Max

\* The relation R puts the elements of S in one line.
StrictOrder(R, S) ==
  /\ \A x \in S : <<x, x>> \notin R
  /\ \A x, y, z \in S : <<x, y>> \in R /\ <<y, z>> \in R => <<x, z>> \in R
  /\ \A x, y \in S : x = y \/ <<x, y>> \in R \/ <<y, x>> \in R

\* f lists the n elements of T in the order R.
Lists(f, n, T, R) ==
  /\ f \in [1 .. n -> T]
  /\ \A x \in T : \E a \in 1 .. n : f[a] = x
  /\ \A a, b \in 1 .. n : a < b => <<f[a], f[b]>> \in R

LEMMA ListsAppend ==
  ASSUME NEW n \in Nat, NEW T, NEW R, NEW x, NEW f, x \notin T, Lists(f, n, T, R),
         \A y \in T : <<y, x>> \in R
  PROVE  \E g : Lists(g, n + 1, T \cup {x}, R)
<1> DEFINE g == [a \in 1 .. n + 1 |-> IF a <= n THEN f[a] ELSE x]
<1>1. g \in [1 .. n + 1 -> T \cup {x}]
  BY DEF Lists
<1>2. \A y \in T \cup {x} : \E a \in 1 .. n + 1 : g[a] = y
  <2> TAKE y \in T \cup {x}
  <2>1. CASE y = x
    BY <2>1
  <2>2. CASE y \in T
    <3>1. PICK a \in 1 .. n : f[a] = y
      BY <2>2 DEF Lists
    <3> QED
      BY <3>1
  <2> QED
    BY <2>1, <2>2
<1>3. \A a, b \in 1 .. n + 1 : a < b => <<g[a], g[b]>> \in R
  <2> SUFFICES ASSUME NEW a \in 1 .. n + 1, NEW b \in 1 .. n + 1, a < b
               PROVE  <<g[a], g[b]>> \in R
    OBVIOUS
  <2>1. CASE b <= n
    BY <2>1 DEF Lists
  <2>2. CASE b = n + 1
    BY <2>2 DEF Lists
  <2> QED
    BY <2>1, <2>2
<1> QED
  BY <1>1, <1>2, <1>3 DEF Lists

\* A finite set can be listed in any strict order of it.
LEMMA Listing ==
  ASSUME NEW S, IsFiniteSet(S), NEW R, StrictOrder(R, S)
  PROVE  \E f : Lists(f, Cardinality(S), S, R)
<1> DEFINE Good == {n \in Nat : \A T \in SUBSET S : Cardinality(T) = n => \E f : Lists(f, n, T, R)}
<1>1. 0 \in Good
  <2> SUFFICES ASSUME NEW T \in SUBSET S, Cardinality(T) = 0
               PROVE  \E f : Lists(f, 0, T, R)
    OBVIOUS
  <2>1. T = {}
    BY FS_Subset, FS_EmptySet
  <2>2. Lists([a \in 1 .. 0 |-> a], 0, T, R)
    BY <2>1 DEF Lists
  <2> QED
    BY <2>2
<1>2. ASSUME NEW n \in Good
      PROVE  n + 1 \in Good
  <2>1. n \in Nat /\ \A T \in SUBSET S : Cardinality(T) = n => \E f : Lists(f, n, T, R)
    OBVIOUS
  <2> SUFFICES ASSUME NEW T \in SUBSET S, Cardinality(T) = n + 1
               PROVE  \E f : Lists(f, n + 1, T, R)
    BY <2>1
  <2> HIDE DEF Good
  <2>2. IsFiniteSet(T)
    BY FS_Subset
  <2>3. ASSUME NEW x \in T
        PROVE  Cardinality(T \ {x}) = n /\ (T \ {x}) \in SUBSET S /\ (T \ {x}) \cup {x} = T
    <3>1. Cardinality(T \ {x}) = Cardinality(T) - 1
      BY <2>2, FS_RemoveElement, Zenon
    <3>2. Cardinality(T \ {x}) = n
      BY <2>1, <3>1
    <3> QED
      BY <3>2
  <2>4. ASSUME NEW x \in T, \A y \in T \ {x} : <<y, x>> \in R
        PROVE  \E f : Lists(f, n + 1, T, R)
    <3>1. PICK f : Lists(f, n, T \ {x}, R)
      BY <2>1, <2>3
    <3>2. \E g : Lists(g, n + 1, (T \ {x}) \cup {x}, R)
      BY <2>1, <2>4, <3>1, ListsAppend
    <3> QED
      BY <2>3, <3>2
  <2>5. \E x \in T : \A y \in T \ {x} : <<y, x>> \in R
    <3>1. PICK x : x \in T
      BY <2>1, FS_EmptySet
    <3>2. PICK f : Lists(f, n, T \ {x}, R)
      BY <2>1, <2>3, <3>1
    <3>3. CASE n = 0
      <4>1. T \ {x} = {}
        BY <3>2, <3>3 DEF Lists
      <4> QED
        BY <3>1, <4>1
    <3>4. CASE n # 0 /\ <<f[n], x>> \in R
      <4> SUFFICES ASSUME NEW y \in T \ {x} PROVE <<y, x>> \in R
        BY <3>1
      <4>1. PICK a \in 1 .. n : f[a] = y
        BY <3>2 DEF Lists
      <4>2. n \in 1 .. n /\ f[n] \in T \ {x} /\ (a = n \/ <<f[a], f[n]>> \in R)
        BY <2>1, <3>2, <3>4 DEF Lists
      <4> QED
        BY <3>1, <3>4, <4>1, <4>2 DEF StrictOrder
    <3>5. CASE n # 0 /\ <<f[n], x>> \notin R
      <4> DEFINE m == f[n]
      <4>1. n \in 1 .. n /\ m \in T \ {x} /\ <<x, m>> \in R
        BY <2>1, <3>1, <3>2, <3>5 DEF Lists, StrictOrder
      <4> SUFFICES ASSUME NEW y \in T \ {m} PROVE <<y, m>> \in R
        BY <4>1
      <4>2. CASE y = x
        BY <4>1, <4>2
      <4>3. CASE y # x
        <5>1. PICK a \in 1 .. n : f[a] = y
          BY <3>2, <4>3 DEF Lists
        <5>2. a < n
          BY <2>1, <5>1
        <5> QED
          BY <3>2, <4>1, <5>1, <5>2 DEF Lists
      <4> QED
        BY <4>2, <4>3
    <3> QED
      BY <3>3, <3>4, <3>5
  <2> QED
    BY <2>4, <2>5
<1> HIDE DEF Good
<1>3. Good \in SUBSET Nat
  BY DEF Good
<1>4. Good = Nat
  BY <1>1, <1>2, <1>3, AllNat, Zenon
<1>5. Cardinality(S) \in Nat
  BY FS_CardinalityType
<1> QED
  BY <1>4, <1>5 DEF Good

-----------------------------------------------------------------------------
(* Explanations of the operations on one key *)

\* What a register may hold in the history h.
Registers(h) == {h[i].cmd.value : i \in DOMAIN h} \cup {Absent}

OpsOn(h, k) == {i \in DOMAIN h : h[i].cmd.key = k}

\* The operation i on a register of value r gives the recorded result.
Fits(h, r, i) == h[i].complete => OutputMatches(h[i], ApplyOp(r, h[i].cmd))

\* The register after i.
Then(h, r, i) == ApplyOp(r, h[i].cmd).reg

\* g puts n operations of S in an order that explains the complete ones of S
\* from the register s on, and r lists the values of the register.
Explains(h, S, s, n, g, r) ==
  /\ g \in [1 .. n -> S] /\ r \in [0 .. n -> Registers(h)] /\ r[0] = s
  /\ \A m \in 1 .. n : Fits(h, r[m - 1], g[m]) /\ r[m] = Then(h, r[m - 1], g[m])
  /\ \A a, b \in 1 .. n : g[a] = g[b] => a = b
  /\ \A a, b \in 1 .. n : h[g[a]].complete /\ h[g[a]].response < h[g[b]].invoke => a < b
  /\ \A i \in S : h[i].complete => \E a \in 1 .. n : g[a] = i

Explained(h, S, s) ==
  \E n \in Nat : \E g \in [1 .. n -> S], r \in [0 .. n -> Registers(h)] :
    Explains(h, S, s, n, g, r)

\* One of the explanations starts with i.
Begins(h, S, s, i) ==
  \E n \in Nat \ {0} : \E g \in [1 .. n -> S], r \in [0 .. n -> Registers(h)] :
    Explains(h, S, s, n, g, r) /\ g[1] = i

KeyExplained(h, k) == Explained(h, OpsOn(h, k), Absent)

\* The answers that clients record (Answers in Linearizability, less what they
\* say of values).
Shaped(o) ==
  CASE o.cmd.op = "Get" -> TRUE
    [] o.cmd.op = "Put" -> o.out.ok /\ o.out.value = NoValue
    [] o.cmd.op = "CAS" -> o.out.ok => o.out.value = NoValue

HistoryOK(h) ==
  /\ h \in Seq(LinOp)
  /\ \A i \in DOMAIN h : h[i].complete => h[i].invoke <= h[i].response /\ Shaped(h[i])

LEMMA HistoryFields ==
  ASSUME NEW h, HistoryOK(h)
  PROVE  /\ Len(h) \in Nat /\ DOMAIN h = 1 .. Len(h) /\ IsFiniteSet(DOMAIN h)
         /\ \A i \in DOMAIN h :
              /\ i \in Nat /\ h[i] \in LinOp
              /\ h[i].invoke \in Nat /\ h[i].response \in Nat /\ h[i].complete \in BOOLEAN
              /\ h[i].cmd \in Command /\ h[i].cmd.key \in Key
              /\ h[i].cmd.op \in {"Get", "Put", "CAS"} /\ h[i].out \in Result
<1>1. h \in Seq(LinOp)
  BY DEF HistoryOK
<1>2. Len(h) \in Nat /\ DOMAIN h = 1 .. Len(h)
  BY <1>1, LenProperties
<1>3. IsFiniteSet(DOMAIN h)
  BY <1>2, FS_Interval
<1>4. ASSUME NEW i \in DOMAIN h
      PROVE  /\ i \in Nat /\ h[i] \in LinOp
             /\ h[i].invoke \in Nat /\ h[i].response \in Nat /\ h[i].complete \in BOOLEAN
             /\ h[i].cmd \in Command /\ h[i].cmd.key \in Key
             /\ h[i].cmd.op \in {"Get", "Put", "CAS"} /\ h[i].out \in Result
  <2>1. h[i] \in LinOp /\ i \in Nat
    BY <1>1, <1>2, ElementOfSeq
  <2>2. h[i].cmd \in Command
    BY <2>1 DEF LinOp
  <2> QED
    BY <2>1, <2>2 DEF LinOp, Command
<1> QED
  BY <1>2, <1>3, <1>4

LEMMA ThenInRegisters ==
  ASSUME NEW h, NEW i \in DOMAIN h, NEW r \in Registers(h)
  PROVE  Then(h, r, i) \in Registers(h)
BY DEF Then, ApplyOp, Registers

\* An explanation with a complete operation to explain has a first operation.
LEMMA SomethingBegins ==
  ASSUME NEW h, NEW S, NEW s, Explained(h, S, s), NEW j \in S, h[j].complete
  PROVE  \E i \in S : Begins(h, S, s, i)
<1>1. PICK n \in Nat : \E g \in [1 .. n -> S], r \in [0 .. n -> Registers(h)] :
                         Explains(h, S, s, n, g, r)
  BY DEF Explained
<1>2. PICK g \in [1 .. n -> S], r \in [0 .. n -> Registers(h)] : Explains(h, S, s, n, g, r)
  BY <1>1
<1>3. PICK a \in 1 .. n : g[a] = j
  BY <1>2 DEF Explains
<1>4. n \in Nat \ {0} /\ 1 \in 1 .. n /\ g[1] \in S
  BY <1>2, <1>3
<1> QED
  BY <1>2, <1>4 DEF Begins

\* The first operation is one that checkKey tries, and the rest is explained
\* from the register that it leaves.
LEMMA WhatBegins ==
  ASSUME NEW h, HistoryOK(h), NEW S \in SUBSET DOMAIN h, NEW s, NEW i, Begins(h, S, s, i)
  PROVE  /\ i \in S /\ Fits(h, s, i)
         /\ \A j \in S : h[j].complete => h[i].invoke <= h[j].response
         /\ Explained(h, S \ {i}, Then(h, s, i))
<1>1. PICK n \in Nat \ {0} : \E g \in [1 .. n -> S], r \in [0 .. n -> Registers(h)] :
                               Explains(h, S, s, n, g, r) /\ g[1] = i
  BY DEF Begins
<1>2. PICK g \in [1 .. n -> S], r \in [0 .. n -> Registers(h)] :
        Explains(h, S, s, n, g, r) /\ g[1] = i
  BY <1>1
<1>3. 1 \in 1 .. n /\ 0 \in 0 .. n /\ 1 - 1 = 0 /\ i \in S
  BY <1>2
<1>4. Fits(h, s, i) /\ r[1] = Then(h, s, i) /\ r[0] = s
  BY <1>2, <1>3 DEF Explains
<1>5. ASSUME NEW j \in S, h[j].complete
      PROVE  h[i].invoke <= h[j].response
  <2>1. PICK a \in 1 .. n : g[a] = j
    BY <1>2, <1>5 DEF Explains
  <2>2. ~(a < 1)
    OBVIOUS
  <2>3. ~(h[j].response < h[i].invoke)
    BY <1>2, <1>3, <1>5, <2>1, <2>2 DEF Explains
  <2>4. h[j].response \in Nat /\ h[i].invoke \in Nat
    BY <1>3, HistoryFields
  <2> QED
    BY <2>3, <2>4
<1>6. Explained(h, S \ {i}, Then(h, s, i))
  <2> DEFINE p == n - 1
             f == [a \in 1 .. p |-> g[a + 1]]
             q == [a \in 0 .. p |-> r[a + 1]]
  <2>1. p \in Nat /\ \A a \in 1 .. p : a + 1 \in 1 .. n /\ a + 1 # 1
    OBVIOUS
  <2>2. f \in [1 .. p -> S \ {i}]
    <3> SUFFICES ASSUME NEW a \in 1 .. p PROVE g[a + 1] \in S \ {i}
      OBVIOUS
    <3>1. a + 1 \in 1 .. n /\ a + 1 # 1
      BY <2>1
    <3> QED
      BY <1>2, <1>3, <3>1 DEF Explains
  <2>3. q \in [0 .. p -> Registers(h)] /\ q[0] = Then(h, s, i)
    BY <1>4
  <2>4. ASSUME NEW m \in 1 .. p
        PROVE  Fits(h, q[m - 1], f[m]) /\ q[m] = Then(h, q[m - 1], f[m])
    <3>1. m + 1 \in 1 .. n /\ m - 1 \in 0 .. p /\ m \in 0 .. p /\ (m - 1) + 1 = (m + 1) - 1
      OBVIOUS
    <3>2. Fits(h, r[(m + 1) - 1], g[m + 1]) /\ r[m + 1] = Then(h, r[(m + 1) - 1], g[m + 1])
      BY <1>2, <3>1 DEF Explains
    <3>3. q[m - 1] = r[(m + 1) - 1] /\ q[m] = r[m + 1] /\ f[m] = g[m + 1]
      BY <3>1
    <3> QED
      BY <3>2, <3>3
  <2>5. \A a, b \in 1 .. p : f[a] = f[b] => a = b
    <3> SUFFICES ASSUME NEW a \in 1 .. p, NEW b \in 1 .. p, g[a + 1] = g[b + 1]
                 PROVE  a = b
      OBVIOUS
    <3>1. a + 1 \in 1 .. n /\ b + 1 \in 1 .. n
      BY <2>1
    <3>2. a + 1 = b + 1
      BY <1>2, <3>1 DEF Explains
    <3> QED
      BY <3>2
  <2>6. \A a, b \in 1 .. p : h[f[a]].complete /\ h[f[a]].response < h[f[b]].invoke => a < b
    <3> SUFFICES ASSUME NEW a \in 1 .. p, NEW b \in 1 .. p, h[g[a + 1]].complete,
                        h[g[a + 1]].response < h[g[b + 1]].invoke
                 PROVE  a < b
      OBVIOUS
    <3>1. a + 1 \in 1 .. n /\ b + 1 \in 1 .. n
      BY <2>1
    <3>2. a + 1 < b + 1
      BY <1>2, <3>1 DEF Explains
    <3> QED
      BY <3>2
  <2>7. ASSUME NEW j \in S \ {i}, h[j].complete
        PROVE  \E a \in 1 .. p : f[a] = j
    <3>1. PICK a \in 1 .. n : g[a] = j
      BY <1>2, <2>7 DEF Explains
    <3>2. a # 1
      BY <1>2, <2>7, <3>1
    <3>3. a - 1 \in 1 .. p /\ (a - 1) + 1 = a
      BY <3>2
    <3>4. f[a - 1] = j
      BY <3>1, <3>3
    <3> QED
      BY <3>3, <3>4
  <2> HIDE DEF f, q, p
  <2>8. Explains(h, S \ {i}, Then(h, s, i), p, f, q)
    BY <2>2, <2>3, <2>4, <2>5, <2>6, <2>7 DEF Explains
  <2> QED
    BY <2>1, <2>2, <2>3, <2>8 DEF Explained
<1> QED
  BY <1>3, <1>4, <1>5, <1>6

-----------------------------------------------------------------------------
(* Registers and stores *)

Answer(h, r, i) ==
  [value |-> ApplyOp(r, h[i].cmd).value, ok |-> ApplyOp(r, h[i].cmd).ok]

\* What a command does to a store is what it does to the register of its key.
LEMMA ExecuteIsApplyOp ==
  ASSUME NEW h, HistoryOK(h), NEW i \in DOMAIN h, NEW data \in [Key -> Registers(h)]
  PROVE  LET c == h[i].cmd
             x == Execute(data, c)
         IN  /\ x.res = Answer(h, data[c.key], i)
             /\ x.data \in [Key -> Registers(h)] /\ x.data[c.key] = Then(h, data[c.key], i)
             /\ \A k \in Key \ {c.key} : x.data[k] = data[k]
<1> DEFINE c == h[i].cmd
<1>1. c.key \in Key /\ c.op \in {"Get", "Put", "CAS"} /\ c.value \in Registers(h)
  BY HistoryFields DEF Registers
<1> HIDE DEF c
<1>2. CASE Writes(data, c)
  <2>1. Execute(data, c) = [data |-> [data EXCEPT ![c.key] = c.value],
                            res  |-> [value |-> NoValue, ok |-> TRUE]]
    BY <1>2 DEF Execute
  <2>2. ApplyOp(data[c.key], c) = [reg |-> c.value, value |-> NoValue, ok |-> TRUE]
    BY <1>2 DEF Writes, ApplyOp
  <2> QED
    BY <1>1, <2>1, <2>2 DEF c, Answer, Then
<1>3. CASE ~Writes(data, c)
  <2>1. Execute(data, c) = [data |-> data,
                            res  |-> [value |-> Lookup(data, c.key),
                                      ok    |-> c.op = "Get" /\ data[c.key] # Absent]]
    BY <1>3 DEF Execute
  <2>2. ApplyOp(data[c.key], c) = [reg |-> data[c.key], value |-> Shown(data[c.key]),
                                   ok |-> c.op = "Get" /\ data[c.key] # Absent]
    BY <1>3 DEF Writes, ApplyOp
  <2>3. Lookup(data, c.key) = Shown(data[c.key])
    BY DEF Lookup, Shown
  <2> QED
    BY <1>1, <2>1, <2>2, <2>3 DEF c, Answer, Then
<1> QED
  BY <1>2, <1>3 DEF c

\* outputMatches looks at what matters: with the answers that clients record
\* it is the equality of results.
LEMMA FitsIsSameResult ==
  ASSUME NEW h, HistoryOK(h), NEW i \in DOMAIN h, NEW r
  PROVE  Fits(h, r, i) <=> (h[i].complete => Answer(h, r, i) = h[i].out)
<1> DEFINE o == h[i]
           x == ApplyOp(r, o.cmd)
<1>1. o.cmd.op \in {"Get", "Put", "CAS"} /\ o.out \in Result
  BY HistoryFields
<1>2. SUFFICES ASSUME o.complete
               PROVE  OutputMatches(o, x) <=> [value |-> x.value, ok |-> x.ok] = o.out
  BY DEF Fits, Answer
<1>3. Shaped(o)
  BY <1>2 DEF HistoryOK
<1>4. o.out = [value |-> o.out.value, ok |-> o.out.ok] /\ o.out.ok \in BOOLEAN
  BY <1>1 DEF Result
<1>5. /\ x.ok \in BOOLEAN
      /\ o.cmd.op = "Put" => x.value = NoValue /\ x.ok
      /\ o.cmd.op = "CAS" /\ x.ok => x.value = NoValue
  BY <1>1 DEF ApplyOp
<1> HIDE DEF x, o
<1>6. ([value |-> x.value, ok |-> x.ok] = o.out) <=> (x.value = o.out.value /\ x.ok = o.out.ok)
  BY <1>4
<1>7. CASE o.cmd.op = "Get"
  BY <1>6, <1>7 DEF OutputMatches
<1>8. CASE o.cmd.op = "Put"
  BY <1>3, <1>4, <1>5, <1>6, <1>8 DEF OutputMatches, Shaped
<1>9. CASE o.cmd.op = "CAS"
  BY <1>3, <1>4, <1>5, <1>6, <1>9 DEF OutputMatches, Shaped
<1> QED
  BY <1>1, <1>7, <1>8, <1>9

\* d lists the stores that executing n operations of h in the order f goes through.
Steps(h, f, n, d) ==
  d[0] = NoData /\ \A m \in 1 .. n : d[m] = Execute(d[m - 1], h[f[m]].cmd).data

Replays(h, f, n, d) ==
  d \in [0 .. n -> [Key -> Registers(h)]] /\ Steps(h, f, n, d)

LEMMA ReplayExists ==
  ASSUME NEW h, HistoryOK(h), NEW n \in Nat, NEW f \in [1 .. n -> DOMAIN h]
  PROVE  \E d : Replays(h, f, n, d)
<1> DEFINE Good == {m \in Nat : m <= n => \E d : Replays(h, f, m, d)}
<1>1. 0 \in Good
  <2>1. NoData \in [Key -> Registers(h)]
    BY DEF NoData, Registers
  <2>2. Replays(h, f, 0, [m \in 0 .. 0 |-> NoData])
    BY <2>1 DEF Replays, Steps
  <2> QED
    BY <2>2
<1>2. ASSUME NEW m \in Good
      PROVE  m + 1 \in Good
  <2>1. m \in Nat
    OBVIOUS
  <2> SUFFICES ASSUME m + 1 <= n PROVE \E d : Replays(h, f, m + 1, d)
    BY <2>1
  <2>2. PICK d : Replays(h, f, m, d)
    BY <2>1
  <2> HIDE DEF Good
  <2> DEFINE x == Execute(d[m], h[f[m + 1]].cmd).data
             e == [a \in 0 .. m + 1 |-> IF a <= m THEN d[a] ELSE x]
  <2>3. d[m] \in [Key -> Registers(h)] /\ f[m + 1] \in DOMAIN h
    BY <2>1, <2>2 DEF Replays, Steps
  <2>4. x \in [Key -> Registers(h)]
    BY <2>3, ExecuteIsApplyOp
  <2>5. e \in [0 .. m + 1 -> [Key -> Registers(h)]] /\ e[0] = NoData
    BY <2>1, <2>2, <2>4 DEF Replays, Steps
  <2>6. ASSUME NEW a \in 1 .. m + 1
        PROVE  e[a] = Execute(e[a - 1], h[f[a]].cmd).data
    <3>1. CASE a <= m
      <4>1. a \in 1 .. m /\ a \in 0 .. m + 1 /\ a - 1 \in 0 .. m + 1 /\ a - 1 <= m
        BY <2>1, <3>1
      <4>2. e[a] = d[a] /\ e[a - 1] = d[a - 1]
        BY <3>1, <4>1
      <4> QED
        BY <2>2, <4>1, <4>2 DEF Replays, Steps
    <3>2. CASE a = m + 1
      <4>1. a \in 0 .. m + 1 /\ ~(a <= m) /\ a - 1 = m /\ m \in 0 .. m + 1 /\ m <= m
        BY <2>1, <3>2
      <4>2. e[a] = x /\ e[a - 1] = d[m]
        BY <4>1
      <4> QED
        BY <3>2, <4>2
    <3> QED
      BY <2>1, <3>1, <3>2
  <2> HIDE DEF e, x
  <2> QED
    BY <2>5, <2>6 DEF Replays, Steps
<1> HIDE DEF Good
<1>3. Good \in SUBSET Nat
  BY DEF Good
<1>4. n \in Good
  BY <1>1, <1>2, <1>3, AllNat, Zenon
<1> QED
  BY <1>4 DEF Good

\* Two sequences with one beginning and one rule are equal.
LEMMA ReplayUnique ==
  ASSUME NEW h, NEW n \in Nat, NEW f, NEW d, NEW e, Steps(h, f, n, d), Steps(h, f, n, e)
  PROVE  \A m \in 0 .. n : d[m] = e[m]
<1> DEFINE Good == {m \in Nat : m <= n => d[m] = e[m]}
<1>1. 0 \in Good
  BY DEF Steps
<1>2. ASSUME NEW m \in Good
      PROVE  m + 1 \in Good
  <2>1. m \in Nat
    OBVIOUS
  <2> SUFFICES ASSUME m + 1 <= n PROVE d[m + 1] = e[m + 1]
    BY <2>1
  <2>2. d[m] = e[m]
    BY <2>1
  <2>3. m + 1 \in 1 .. n /\ (m + 1) - 1 = m
    BY <2>1
  <2>4. d[m + 1] = Execute(d[(m + 1) - 1], h[f[m + 1]].cmd).data
    BY <2>3 DEF Steps
  <2>5. e[m + 1] = Execute(e[(m + 1) - 1], h[f[m + 1]].cmd).data
    BY <2>3 DEF Steps
  <2> QED
    BY <2>2, <2>3, <2>4, <2>5
<1> HIDE DEF Good
<1>3. Good \in SUBSET Nat
  BY DEF Good
<1>4. Good = Nat
  BY <1>1, <1>2, <1>3, AllNat, Zenon
<1> QED
  BY <1>4 DEF Good

LEMMA ResultsByReplay ==
  ASSUME HistoryOK(history), NEW n \in Nat, NEW f \in [1 .. n -> DOMAIN history],
         NEW d, Replays(history, f, n, d)
  PROVE  /\ Len(f) = n /\ DOMAIN f = 1 .. n
         /\ GivesRecordedResults(f) <=>
              \A m \in 1 .. n : history[f[m]].complete =>
                Execute(d[m - 1], history[f[m]].cmd).res = history[f[m]].out
<1>1. f \in Seq(DOMAIN history)
  BY IsASeq
<1>2. Len(f) = n /\ DOMAIN f = 1 .. n
  BY <1>1, LenProperties
<1> DEFINE Rule(x) == [m \in 0 .. Len(f) |->
                         IF m = 0 THEN NoData ELSE Execute(x[m - 1], history[f[m]].cmd).data]
           data == CHOOSE x : x = Rule(x)
<1>3. d = Rule(d)
  <2>1. \A m \in 0 .. n : d[m] = IF m = 0 THEN NoData ELSE Execute(d[m - 1], history[f[m]].cmd).data
    BY DEF Replays, Steps
  <2>2. d = [m \in 0 .. n |-> d[m]]
    BY DEF Replays, Steps
  <2> QED
    BY <1>2, <2>1, <2>2
<1>4. data = Rule(data)
  BY <1>3
<1>5. /\ data[0] = NoData
      /\ \A m \in 1 .. n : data[m] = Execute(data[m - 1], history[f[m]].cmd).data
  <2> HIDE DEF data
  <2>1. \A m \in 0 .. n : data[m] = IF m = 0 THEN NoData ELSE Execute(data[m - 1], history[f[m]].cmd).data
    BY <1>2, <1>4
  <2>2. \A m \in 1 .. n : m \in 0 .. n /\ m # 0
    OBVIOUS
  <2> QED
    BY <2>1, <2>2
<1>6. \A m \in 0 .. n : data[m] = d[m]
  <2> HIDE DEF data
  <2>1. PICK h, e : h = history /\ e = data
    OBVIOUS
  <2>2. Steps(h, f, n, d)
    BY <2>1 DEF Replays
  <2>3. Steps(h, f, n, e)
    BY <1>5, <2>1 DEF Steps
  <2>4. \A m \in 0 .. n : e[m] = d[m]
    BY <2>2, <2>3, ReplayUnique
  <2> QED
    BY <2>1, <2>4
<1>7. GivesRecordedResults(f) <=>
        \A m \in DOMAIN f :
          LET o == history[f[m]] IN o.complete => Execute(data[m - 1], o.cmd).res = o.out
  BY DEF GivesRecordedResults
<1>8. \A m \in 1 .. n : m - 1 \in 0 .. n
  OBVIOUS
<1> QED
  <2> HIDE DEF data
  <2> QED
    BY <1>2, <1>6, <1>7, <1>8

-----------------------------------------------------------------------------
(* Locality, first half: the operations on one key of a linearizable history *)

\* f puts n operations of h in an order that explains all the complete ones,
\* and d lists the stores it goes through.
ExplainsAll(h, n, f, d) ==
  /\ Replays(h, f, n, d)
  /\ \A a, b \in 1 .. n : f[a] = f[b] => a = b
  /\ \A a, b \in 1 .. n : h[f[a]].complete /\ h[f[a]].response < h[f[b]].invoke => a < b
  /\ \A i \in DOMAIN h : h[i].complete => \E a \in 1 .. n : f[a] = i
  /\ \A m \in 1 .. n : h[f[m]].complete => Execute(d[m - 1], h[f[m]].cmd).res = h[f[m]].out

AllExplained(h) ==
  \E n \in Nat : \E f \in [1 .. n -> DOMAIN h], d \in [0 .. n -> [Key -> Registers(h)]] :
    ExplainsAll(h, n, f, d)

\* No operation on the key k comes after a and up to c.
Untouched(h, f, k, a, c) == \A b \in a + 1 .. c : h[f[b]].cmd.key # k

LEMMA KeyUntouched ==
  ASSUME NEW h, HistoryOK(h), NEW n \in Nat, NEW f \in [1 .. n -> DOMAIN h],
         NEW d, Replays(h, f, n, d), NEW k \in Key, NEW a \in 0 .. n, NEW c \in a .. n,
         Untouched(h, f, k, a, c)
  PROVE  d[c][k] = d[a][k]
<1> DEFINE Good == {m \in Nat : a + m <= c => d[a + m][k] = d[a][k]}
<1>1. 0 \in Good
  OBVIOUS
<1>2. ASSUME NEW m \in Good
      PROVE  m + 1 \in Good
  <2>1. m \in Nat
    OBVIOUS
  <2> SUFFICES ASSUME a + (m + 1) <= c PROVE d[a + (m + 1)][k] = d[a][k]
    BY <2>1
  <2>2. d[a + m][k] = d[a][k]
    BY <2>1
  <2> HIDE DEF Good
  <2> DEFINE b == a + (m + 1)
  <2>3. b \in 1 .. n /\ b \in a + 1 .. c /\ b - 1 = a + m /\ b - 1 \in 0 .. n
    BY <2>1
  <2>4. d[b] = Execute(d[b - 1], h[f[b]].cmd).data /\ f[b] \in DOMAIN h
        /\ d[b - 1] \in [Key -> Registers(h)] /\ h[f[b]].cmd.key # k
    BY <2>3 DEF Replays, Steps, Untouched
  <2> HIDE DEF b
  <2>5. d[b][k] = d[b - 1][k]
    BY <2>4, ExecuteIsApplyOp
  <2> QED
    BY <2>2, <2>3, <2>5 DEF b
<1> HIDE DEF Good
<1>3. Good \in SUBSET Nat
  BY DEF Good
<1>4. Good = Nat
  BY <1>1, <1>2, <1>3, AllNat, Zenon
<1>5. PICK q \in Nat : a + q = c
  <2>1. c - a \in Nat /\ a + (c - a) = c
    OBVIOUS
  <2> QED
    BY <2>1
<1>6. q \in Good
  BY <1>4
<1>7. a + q <= c
  BY <1>5
<1>8. d[a + q][k] = d[a][k]
  BY <1>6, <1>7 DEF Good
<1> QED
  BY <1>5, <1>8

LEMMA EachKeyExplained ==
  ASSUME NEW h, HistoryOK(h), AllExplained(h), NEW k \in Key
  PROVE  KeyExplained(h, k)
<1>1. PICK n \in Nat : \E f \in [1 .. n -> DOMAIN h], d \in [0 .. n -> [Key -> Registers(h)]] :
                         ExplainsAll(h, n, f, d)
  BY DEF AllExplained
<1>2. PICK f \in [1 .. n -> DOMAIN h], d \in [0 .. n -> [Key -> Registers(h)]] :
        ExplainsAll(h, n, f, d)
  BY <1>1
<1> DEFINE K == {a \in 1 .. n : h[f[a]].cmd.key = k}
           R == {p \in K \X K : p[1] < p[2]}
<1>3. IsFiniteSet(K) /\ K \subseteq 1 .. n /\ Cardinality(K) \in Nat
  <2>1. IsFiniteSet(1 .. n) /\ K \in SUBSET (1 .. n)
    BY FS_Interval
  <2>2. IsFiniteSet(K)
    BY <2>1, FS_Subset, Zenon
  <2> QED
    BY <2>1, <2>2, FS_CardinalityType, Zenon
<1>4. StrictOrder(R, K)
  BY DEF StrictOrder
<1>5. \A x, y \in K : <<x, y>> \in R <=> x < y
  OBVIOUS
<1>6. \A a \in 1 .. n : h[f[a]].cmd.key = k => a \in K
  OBVIOUS
<1>7. \A a \in K : a \in 1 .. n /\ f[a] \in OpsOn(h, k) /\ f[a] \in DOMAIN h
  BY DEF OpsOn
<1> HIDE DEF R, K
<1> DEFINE m == Cardinality(K)
<1>8. m \in Nat
  BY <1>3
<1>9. PICK e : Lists(e, m, K, R)
  BY <1>3, <1>4, Listing, Zenon
<1> HIDE DEF m
<1>10. /\ e \in [1 .. m -> K] /\ \A x \in K : \E b \in 1 .. m : e[b] = x
       /\ \A a, b \in 1 .. m : a < b => e[a] < e[b]
  BY <1>5, <1>9 DEF Lists
<1>11. \A a, b \in 1 .. m : e[a] \in 1 .. n /\ (e[a] < e[b] <=> a < b) /\ (e[a] = e[b] => a = b)
  <2> SUFFICES ASSUME NEW a \in 1 .. m, NEW b \in 1 .. m
               PROVE  e[a] \in 1 .. n /\ (e[a] < e[b] <=> a < b) /\ (e[a] = e[b] => a = b)
    OBVIOUS
  <2>1. e[a] \in 1 .. n /\ e[b] \in 1 .. n
    BY <1>3, <1>10
  <2>2. (a < b => e[a] < e[b]) /\ (b < a => e[b] < e[a])
    BY <1>10
  <2> QED
    BY <1>8, <2>1, <2>2
<1> DEFINE g == [b \in 1 .. m |-> f[e[b]]]
           r == [b \in 0 .. m |-> IF b = 0 THEN Absent ELSE d[e[b]][k]]
<1>12. g \in [1 .. m -> OpsOn(h, k)] /\ \A b \in 1 .. m : g[b] = f[e[b]] /\ h[g[b]].cmd.key = k
  BY <1>7, <1>10 DEF OpsOn
<1>13. r \in [0 .. m -> Registers(h)] /\ r[0] = Absent
  <2> SUFFICES ASSUME NEW b \in 0 .. m, b # 0 PROVE d[e[b]][k] \in Registers(h)
    BY <1>8 DEF Registers
  <2>1. b \in 1 .. m
    OBVIOUS
  <2>2. e[b] \in 0 .. n
    BY <1>11, <2>1
  <2> QED
    BY <1>2, <2>2
<1>14. \A b \in 1 .. m : r[b] = d[e[b]][k] /\ b - 1 \in 0 .. m
  BY <1>8
<1>15. ASSUME NEW b \in 1 .. m
       PROVE  r[b - 1] = d[e[b] - 1][k]
  <2>1. e[b] \in 1 .. n /\ e[b] - 1 \in 0 .. n
    BY <1>11
  <2>2. CASE b = 1
    <3>1. Untouched(h, f, k, 0, e[b] - 1)
      <4> SUFFICES ASSUME NEW x \in 0 + 1 .. e[b] - 1, h[f[x]].cmd.key = k PROVE FALSE
        BY DEF Untouched
      <4>1. x \in 1 .. n
        BY <2>1
      <4>2. PICK c \in 1 .. m : e[c] = x
        BY <1>6, <1>10, <4>1
      <4>3. e[c] < e[b] /\ ~(c < b)
        BY <2>1, <2>2, <4>2
      <4> QED
        BY <1>11, <4>3
    <3>2. d[e[b] - 1][k] = d[0][k]
      <4>1. 0 \in 0 .. n /\ e[b] - 1 \in 0 .. n
        BY <2>1
      <4> QED
        BY <1>2, <3>1, <4>1, KeyUntouched DEF ExplainsAll
    <3>3. d[0][k] = Absent
      BY <1>2 DEF ExplainsAll, Replays, Steps, NoData
    <3> QED
      BY <1>13, <2>2, <3>2, <3>3
  <2>3. CASE b # 1
    <3> DEFINE z == b - 1
    <3>1. z \in 1 .. m /\ z < b
      BY <1>8, <2>3
    <3>2. e[z] < e[b] /\ e[z] \in 1 .. n
      BY <1>11, <3>1
    <3>3. Untouched(h, f, k, e[z], e[b] - 1)
      <4> SUFFICES ASSUME NEW x \in e[z] + 1 .. e[b] - 1, h[f[x]].cmd.key = k PROVE FALSE
        BY DEF Untouched
      <4>1. x \in 1 .. n /\ e[z] < x /\ x < e[b]
        BY <2>1, <3>2
      <4>2. PICK c \in 1 .. m : e[c] = x
        BY <1>6, <1>10, <4>1
      <4>3. z < c /\ c < b
        BY <1>11, <3>1, <4>1, <4>2
      <4> QED
        BY <4>3
    <3>4. e[z] \in 0 .. n /\ e[b] - 1 \in e[z] .. n
      BY <2>1, <3>2
    <3>5. d[e[b] - 1][k] = d[e[z]][k]
      <4>1. PICK a \in 0 .. n : a = e[z]
        BY <3>4
      <4>2. PICK c \in a .. n : c = e[b] - 1
        BY <3>4, <4>1
      <4>3. Untouched(h, f, k, a, c)
        BY <3>3, <4>1, <4>2
      <4>4. d[c][k] = d[a][k]
        <5>1. Replays(h, f, n, d)
          BY <1>2 DEF ExplainsAll
        <5> QED
          BY <4>3, <5>1, KeyUntouched, SMTT(60)
      <4> QED
        BY <4>1, <4>2, <4>4
    <3> QED
      BY <1>14, <3>1, <3>5
  <2> QED
    BY <2>2, <2>3
<1> HIDE DEF g, r
<1>16. ASSUME NEW b \in 1 .. m
       PROVE  Fits(h, r[b - 1], g[b]) /\ r[b] = Then(h, r[b - 1], g[b])
  <2> DEFINE x == e[b]
  <2>1. x \in 1 .. n /\ x - 1 \in 0 .. n /\ f[x] \in DOMAIN h /\ g[b] = f[x]
        /\ h[f[x]].cmd.key = k
    BY <1>11, <1>12
  <2>2. d[x - 1] \in [Key -> Registers(h)] /\ d[x] = Execute(d[x - 1], h[f[x]].cmd).data
        /\ (h[f[x]].complete => Execute(d[x - 1], h[f[x]].cmd).res = h[f[x]].out)
    BY <1>2, <2>1 DEF ExplainsAll, Replays, Steps
  <2>3. r[b] = d[x][k] /\ r[b - 1] = d[x - 1][k]
    BY <1>14, <1>15
  <2> HIDE DEF x
  <2>4. /\ Execute(d[x - 1], h[f[x]].cmd).res = Answer(h, d[x - 1][k], f[x])
        /\ d[x][k] = Then(h, d[x - 1][k], f[x])
    BY <2>1, <2>2, ExecuteIsApplyOp
  <2>5. Fits(h, d[x - 1][k], f[x])
    BY <2>1, <2>2, <2>4, FitsIsSameResult
  <2> QED
    BY <2>1, <2>3, <2>4, <2>5
<1>17. \A a, b \in 1 .. m : g[a] = g[b] => a = b
  <2> SUFFICES ASSUME NEW a \in 1 .. m, NEW b \in 1 .. m, g[a] = g[b] PROVE a = b
    OBVIOUS
  <2>1. e[a] = e[b]
    BY <1>2, <1>11, <1>12 DEF ExplainsAll
  <2> QED
    BY <1>11, <2>1
<1>18. \A a, b \in 1 .. m : h[g[a]].complete /\ h[g[a]].response < h[g[b]].invoke => a < b
  <2> SUFFICES ASSUME NEW a \in 1 .. m, NEW b \in 1 .. m, h[g[a]].complete,
                      h[g[a]].response < h[g[b]].invoke
               PROVE  a < b
    OBVIOUS
  <2>1. e[a] < e[b]
    BY <1>2, <1>11, <1>12 DEF ExplainsAll
  <2> QED
    BY <1>11, <2>1
<1>19. \A i \in OpsOn(h, k) : h[i].complete => \E b \in 1 .. m : g[b] = i
  <2> SUFFICES ASSUME NEW i \in OpsOn(h, k), h[i].complete PROVE \E b \in 1 .. m : g[b] = i
    OBVIOUS
  <2>1. PICK a \in 1 .. n : f[a] = i
    BY <1>2 DEF ExplainsAll, OpsOn
  <2>2. a \in K
    BY <1>6, <2>1 DEF OpsOn
  <2>3. PICK b \in 1 .. m : e[b] = a
    BY <1>10, <2>2
  <2> QED
    BY <1>12, <2>1, <2>3
<1>20. Explains(h, OpsOn(h, k), Absent, m, g, r)
  BY <1>12, <1>13, <1>16, <1>17, <1>18, <1>19 DEF Explains
<1> QED
  BY <1>8, <1>12, <1>13, <1>20 DEF KeyExplained, Explained

-----------------------------------------------------------------------------
(* Locality, second half: explanations of the keys are merged *)

AllKeysExplained(h) == \A k \in Key : KeyExplained(h, k)

IsPlan(h, k, t) ==
  /\ t[1] \in Nat
  /\ t[2] \in [1 .. t[1] -> OpsOn(h, k)] /\ t[3] \in [0 .. t[1] -> Registers(h)]
  /\ Explains(h, OpsOn(h, k), Absent, t[1], t[2], t[3])

Plan(h, k) == CHOOSE t : IsPlan(h, k, t)

\* The chosen explanation of the operations on k: how many they are, in which
\* order, and the values that the register goes through.
Count(h, k) == Plan(h, k)[1]
Order(h, k) == Plan(h, k)[2]
Values(h, k) == Plan(h, k)[3]

KeyOf(h, i) == h[i].cmd.key

\* The operations that the explanations use, and the place of each.
Used(h) ==
  {i \in DOMAIN h : \E a \in 1 .. Count(h, KeyOf(h, i)) : Order(h, KeyOf(h, i))[a] = i}

Place(h, i) == CHOOSE a \in 1 .. Count(h, KeyOf(h, i)) : Order(h, KeyOf(h, i))[a] = i

\* An operation can be said to take effect as soon as those up to it in the
\* explanation have been invoked.
IsPoint(h, i, p) ==
  /\ \E c \in 1 .. Place(h, i) : p = h[Order(h, KeyOf(h, i))[c]].invoke
  /\ \A c \in 1 .. Place(h, i) : h[Order(h, KeyOf(h, i))[c]].invoke <= p

Point(h, i) == CHOOSE p \in Nat : IsPoint(h, i, p)

\* One operation of each key, to tell keys apart by a number.
First(h, i) == Order(h, KeyOf(h, i))[1]

Precedes(h, i, j) ==
  \/ Point(h, i) < Point(h, j)
  \/ /\ Point(h, i) = Point(h, j)
     /\ \/ First(h, i) < First(h, j)
        \/ First(h, i) = First(h, j) /\ Place(h, i) < Place(h, j)

MergeOrder(h) == {p \in Used(h) \X Used(h) : Precedes(h, p[1], p[2])}

LEMMA Plans ==
  ASSUME NEW h, NEW k \in Key, KeyExplained(h, k)
  PROVE  /\ Count(h, k) \in Nat
         /\ Explains(h, OpsOn(h, k), Absent, Count(h, k), Order(h, k), Values(h, k))
<1>1. PICK n \in Nat :
        \E g \in [1 .. n -> OpsOn(h, k)], r \in [0 .. n -> Registers(h)] :
          Explains(h, OpsOn(h, k), Absent, n, g, r)
  BY DEF KeyExplained, Explained
<1>2. PICK g \in [1 .. n -> OpsOn(h, k)], r \in [0 .. n -> Registers(h)] :
        Explains(h, OpsOn(h, k), Absent, n, g, r)
  BY <1>1
<1>3. IsPlan(h, k, <<n, g, r>>)
  BY <1>2 DEF IsPlan
<1>4. IsPlan(h, k, Plan(h, k))
  BY <1>3, Zenon DEF Plan
<1> QED
  BY <1>4 DEF IsPlan, Count, Order, Values

LEMMA Places ==
  ASSUME NEW h, HistoryOK(h), AllKeysExplained(h)
  PROVE  /\ \A i \in Used(h) :
              /\ i \in DOMAIN h /\ KeyOf(h, i) \in Key
              /\ Place(h, i) \in 1 .. Count(h, KeyOf(h, i))
              /\ Order(h, KeyOf(h, i))[Place(h, i)] = i
         /\ \A k \in Key : Count(h, k) \in Nat
         /\ \A k \in Key : \A a \in 1 .. Count(h, k) :
              /\ Order(h, k)[a] \in Used(h) /\ KeyOf(h, Order(h, k)[a]) = k
              /\ Place(h, Order(h, k)[a]) = a
<1>1. ASSUME NEW i \in Used(h)
      PROVE  /\ i \in DOMAIN h /\ KeyOf(h, i) \in Key
             /\ Place(h, i) \in 1 .. Count(h, KeyOf(h, i))
             /\ Order(h, KeyOf(h, i))[Place(h, i)] = i
  <2>1. i \in DOMAIN h /\ \E a \in 1 .. Count(h, KeyOf(h, i)) : Order(h, KeyOf(h, i))[a] = i
    BY DEF Used
  <2>2. KeyOf(h, i) \in Key
    BY <2>1, HistoryFields DEF KeyOf
  <2> QED
    BY <2>1, <2>2, Zenon DEF Place
<1>2. ASSUME NEW k \in Key
      PROVE  /\ Count(h, k) \in Nat
             /\ Explains(h, OpsOn(h, k), Absent, Count(h, k), Order(h, k), Values(h, k))
  BY Plans DEF AllKeysExplained
<1>3. ASSUME NEW k \in Key, NEW a \in 1 .. Count(h, k)
      PROVE  /\ Order(h, k)[a] \in Used(h) /\ KeyOf(h, Order(h, k)[a]) = k
             /\ Place(h, Order(h, k)[a]) = a
  <2> DEFINE i == Order(h, k)[a]
  <2>1. i \in OpsOn(h, k)
    BY <1>2 DEF Explains
  <2>2. i \in DOMAIN h /\ KeyOf(h, i) = k
    BY <2>1 DEF OpsOn, KeyOf
  <2>3. i \in Used(h)
    BY <2>2 DEF Used
  <2>4. Place(h, i) \in 1 .. Count(h, k) /\ Order(h, k)[Place(h, i)] = i
    BY <1>1, <2>2, <2>3
  <2>5. Place(h, i) = a
    BY <1>2, <2>4 DEF Explains
  <2> QED
    BY <2>2, <2>3, <2>5
<1> QED
  BY <1>1, <1>2, <1>3

\* One of finitely many numbers is the largest.
LEMMA LargestOf ==
  ASSUME NEW n \in Nat \ {0}, NEW F \in [1 .. n -> Nat]
  PROVE  \E m \in 1 .. n : \A a \in 1 .. n : F[a] <= F[m]
<1> DEFINE Good == {q \in Nat : q + 1 <= n =>
                      \E m \in 1 .. q + 1 : \A a \in 1 .. q + 1 : F[a] <= F[m]}
<1>1. 0 \in Good
  OBVIOUS
<1>2. ASSUME NEW q \in Good
      PROVE  q + 1 \in Good
  <2>1. q \in Nat
    OBVIOUS
  <2> SUFFICES ASSUME (q + 1) + 1 <= n
               PROVE  \E m \in 1 .. (q + 1) + 1 : \A a \in 1 .. (q + 1) + 1 : F[a] <= F[m]
    BY <2>1
  <2>2. PICK m \in 1 .. q + 1 : \A a \in 1 .. q + 1 : F[a] <= F[m]
    BY <2>1
  <2> HIDE DEF Good
  <2> DEFINE z == (q + 1) + 1
  <2>3. z \in 1 .. n /\ m \in 1 .. n /\ F[z] \in Nat /\ F[m] \in Nat
    BY <2>1
  <2>4. \A a \in 1 .. z : a \in 1 .. n /\ (a = z \/ a \in 1 .. q + 1)
    BY <2>1, <2>3
  <2>5. z \in 1 .. z /\ m \in 1 .. z
    BY <2>1
  <2> HIDE DEF z
  <2>6. CASE F[z] <= F[m]
    BY <2>2, <2>3, <2>4, <2>5, <2>6 DEF z
  <2>7. CASE F[m] <= F[z]
    <3>1. \A a \in 1 .. z : F[a] <= F[z]
      BY <2>2, <2>3, <2>4, <2>7
    <3> QED
      BY <2>5, <3>1 DEF z
  <2> QED
    BY <2>3, <2>6, <2>7
<1> HIDE DEF Good
<1>3. Good \in SUBSET Nat
  BY DEF Good
<1>4. Good = Nat
  BY <1>1, <1>2, <1>3, AllNat, Zenon
<1>5. PICK q \in Good : q + 1 = n
  <2>1. n - 1 \in Nat /\ (n - 1) + 1 = n
    OBVIOUS
  <2> QED
    BY <1>4, <2>1
<1>6. q + 1 <= n
  BY <1>5
<1> QED
  BY <1>5, <1>6 DEF Good

LEMMA Points ==
  ASSUME NEW h, HistoryOK(h), AllKeysExplained(h), NEW i \in Used(h)
  PROVE  /\ Point(h, i) \in Nat /\ h[i].invoke <= Point(h, i)
         /\ h[i].complete => Point(h, i) <= h[i].response
         /\ \A j \in Used(h) : KeyOf(h, j) = KeyOf(h, i) /\ Place(h, j) <= Place(h, i)
              => Point(h, j) <= Point(h, i)
<1> DEFINE k == KeyOf(h, i)
           O == Order(h, k)
<1>1. /\ k \in Key /\ i \in DOMAIN h /\ Count(h, k) \in Nat
      /\ Place(h, i) \in 1 .. Count(h, k) /\ O[Place(h, i)] = i
  BY Places
<1>2. \A a \in 1 .. Count(h, k) : O[a] \in DOMAIN h /\ h[O[a]].invoke \in Nat
  BY <1>1, Places, HistoryFields
<1>3. Explains(h, OpsOn(h, k), Absent, Count(h, k), O, Values(h, k))
  BY <1>1, Plans DEF AllKeysExplained
<1>4. ASSUME NEW j \in Used(h), KeyOf(h, j) = k
      PROVE  Point(h, j) \in Nat /\ IsPoint(h, j, Point(h, j))
             /\ Place(h, j) \in 1 .. Count(h, k)
  <2> DEFINE n == Place(h, j)
             F == [a \in 1 .. n |-> h[O[a]].invoke]
  <2>1. n \in 1 .. Count(h, k)
    BY <1>4, Places
  <2>2. n \in Nat \ {0} /\ \A a \in 1 .. n : a \in 1 .. Count(h, k)
    BY <1>1, <2>1
  <2>3. F \in [1 .. n -> Nat]
    BY <1>2, <2>2
  <2> HIDE DEF n
  <2>4. PICK m \in 1 .. n : \A a \in 1 .. n : F[a] <= F[m]
    <3> HIDE DEF F
    <3> QED
      BY <2>2, <2>3, LargestOf
  <2>5. F[m] \in Nat /\ IsPoint(h, j, F[m])
    BY <1>4, <2>3, <2>4 DEF IsPoint, n
  <2> HIDE DEF F
  <2> QED
    BY <2>1, <2>5, Zenon DEF Point, n
<1>5. Point(h, i) \in Nat /\ IsPoint(h, i, Point(h, i))
  BY <1>4
<1>6. h[i].invoke <= Point(h, i)
  BY <1>1, <1>5 DEF IsPoint
<1>7. ASSUME h[i].complete
      PROVE  Point(h, i) <= h[i].response
  <2>1. PICK c \in 1 .. Place(h, i) : Point(h, i) = h[O[c]].invoke
    BY <1>5 DEF IsPoint
  <2>2. c \in 1 .. Count(h, k) /\ ~(Place(h, i) < c)
    BY <1>1
  <2>3. ~(h[i].response < h[O[c]].invoke)
    BY <1>1, <1>3, <1>7, <2>2 DEF Explains
  <2>4. h[i].response \in Nat
    BY <1>1, HistoryFields
  <2> QED
    BY <1>5, <2>1, <2>3, <2>4
<1>8. ASSUME NEW j \in Used(h), KeyOf(h, j) = k, Place(h, j) <= Place(h, i)
      PROVE  Point(h, j) <= Point(h, i)
  <2>1. PICK c \in 1 .. Place(h, j) : Point(h, j) = h[O[c]].invoke
    BY <1>4, <1>8 DEF IsPoint
  <2>2. c \in 1 .. Place(h, i)
    BY <1>1, <1>4, <1>8
  <2> QED
    BY <1>5, <2>1, <2>2 DEF IsPoint
<1> QED
  BY <1>5, <1>6, <1>7, <1>8

LEMMA MergeOrderIsStrict ==
  ASSUME NEW h, HistoryOK(h), AllKeysExplained(h)
  PROVE  /\ StrictOrder(MergeOrder(h), Used(h))
         /\ IsFiniteSet(Used(h)) /\ Cardinality(Used(h)) \in Nat
<1>1. ASSUME NEW i \in Used(h)
      PROVE  /\ Point(h, i) \in Nat /\ Place(h, i) \in Nat /\ First(h, i) \in Nat
             /\ First(h, i) \in Used(h) /\ KeyOf(h, First(h, i)) = KeyOf(h, i)
  <2>1. /\ KeyOf(h, i) \in Key /\ Place(h, i) \in 1 .. Count(h, KeyOf(h, i))
        /\ Count(h, KeyOf(h, i)) \in Nat
    BY Places
  <2>2. 1 \in 1 .. Count(h, KeyOf(h, i)) /\ Place(h, i) \in Nat
    BY <2>1
  <2>3. First(h, i) \in Used(h) /\ KeyOf(h, First(h, i)) = KeyOf(h, i)
    BY <2>1, <2>2, Places DEF First
  <2>4. First(h, i) \in Nat
    BY <2>3, HistoryFields DEF Used
  <2> QED
    BY <2>2, <2>3, <2>4, Points
<1>2. ASSUME NEW i \in Used(h), NEW j \in Used(h), First(h, i) = First(h, j),
             Place(h, i) = Place(h, j)
      PROVE  i = j
  <2>1. KeyOf(h, i) = KeyOf(h, j)
    BY <1>1, <1>2
  <2> QED
    BY <1>2, <2>1, Places
<1>3. \A x \in Used(h) : ~Precedes(h, x, x)
  BY <1>1 DEF Precedes
<1>4. \A x, y, z \in Used(h) : Precedes(h, x, y) /\ Precedes(h, y, z) => Precedes(h, x, z)
  BY <1>1 DEF Precedes
<1>5. \A x, y \in Used(h) : x = y \/ Precedes(h, x, y) \/ Precedes(h, y, x)
  BY <1>1, <1>2 DEF Precedes
<1>6. StrictOrder(MergeOrder(h), Used(h))
  BY <1>3, <1>4, <1>5 DEF StrictOrder, MergeOrder
<1>7. IsFiniteSet(DOMAIN h) /\ Used(h) \in SUBSET DOMAIN h
  BY HistoryFields DEF Used
<1>8. IsFiniteSet(Used(h))
  BY <1>7, FS_Subset, Zenon
<1> QED
  BY <1>6, <1>8, FS_CardinalityType, Zenon

\* After m operations of the merged order f, the store of every key is where
\* its explanation is after those of its operations that are among them.
Reached(h, f, m, x, k, p) ==
  /\ p \in 0 .. Count(h, k) /\ x[k] = Values(h, k)[p]
  /\ \A b \in 1 .. Count(h, k) : b <= p <=> \E a \in 1 .. m : f[a] = Order(h, k)[b]

AllReached(h, f, m, x) == \A k \in Key : \E p \in Nat : Reached(h, f, m, x, k, p)

\* The next operation in the merged order is the next one in its key's explanation.
LEMMA NextInPlace ==
  ASSUME NEW h, HistoryOK(h), AllKeysExplained(h), NEW n \in Nat, NEW f,
         Lists(f, n, Used(h), MergeOrder(h)), NEW m \in Nat, m + 1 \in 1 .. n,
         NEW x, NEW p \in Nat, Reached(h, f, m, x, KeyOf(h, f[m + 1]), p)
  PROVE  p = Place(h, f[m + 1]) - 1
<1> DEFINE i == f[m + 1]
           k == KeyOf(h, i)
           O == Order(h, k)
           q == Place(h, i)
<1>1. /\ i \in Used(h) /\ k \in Key /\ Count(h, k) \in Nat
      /\ q \in 1 .. Count(h, k) /\ O[q] = i
  <2>1. i \in Used(h)
    BY DEF Lists
  <2> QED
    BY <2>1, Places
<1>2. /\ p \in 0 .. Count(h, k)
      /\ \A b \in 1 .. Count(h, k) : b <= p <=> \E a \in 1 .. m : f[a] = O[b]
  BY DEF Reached
<1>3. \A a, b \in 1 .. n : a < b => Precedes(h, f[a], f[b]) /\ f[a] \in Used(h) /\ f[b] \in Used(h)
  BY DEF Lists, MergeOrder
<1>4. \A a, b \in Used(h) : ~(Precedes(h, a, b) /\ Precedes(h, b, a)) /\ ~Precedes(h, a, a)
  BY MergeOrderIsStrict DEF StrictOrder, MergeOrder
<1>5. ASSUME NEW b \in 1 .. Count(h, k), b < q
      PROVE  b <= p
  <2> DEFINE j == O[b]
  <2>1. j \in Used(h) /\ KeyOf(h, j) = k /\ Place(h, j) = b
    BY <1>1, <1>5, Places
  <2>2. Point(h, j) <= Point(h, i) /\ Point(h, j) \in Nat /\ Point(h, i) \in Nat
    BY <1>1, <1>5, <2>1, Points
  <2>3. First(h, j) = First(h, i)
    BY <2>1 DEF First
  <2>4. Precedes(h, j, i)
    BY <1>5, <2>1, <2>2, <2>3 DEF Precedes
  <2> HIDE DEF j
  <2>5. PICK a \in 1 .. n : f[a] = j
    BY <2>1 DEF Lists
  <2>6. ~(m + 1 < a) /\ a # m + 1
    BY <1>1, <1>3, <1>4, <2>1, <2>4, <2>5
  <2>7. a \in 1 .. m
    BY <2>6
  <2> QED
    BY <1>2, <2>5, <2>7 DEF j
<1>6. ~(q <= p)
  <2> SUFFICES ASSUME q <= p PROVE FALSE
    OBVIOUS
  <2>1. PICK a \in 1 .. m : f[a] = i
    BY <1>1, <1>2
  <2>2. a \in 1 .. n /\ a < m + 1
    OBVIOUS
  <2> QED
    BY <1>1, <1>3, <1>4, <2>1, <2>2
<1>7. CASE q = 1
  BY <1>1, <1>2, <1>6, <1>7
<1>8. CASE q # 1
  <2>1. q - 1 \in 1 .. Count(h, k) /\ q - 1 < q
    BY <1>1, <1>8
  <2>2. q - 1 <= p
    BY <1>5, <2>1
  <2> QED
    BY <1>1, <1>2, <1>6, <2>2
<1> QED
  BY <1>7, <1>8

LEMMA ReachedNext ==
  ASSUME NEW h, HistoryOK(h), AllKeysExplained(h), NEW n \in Nat, NEW f,
         Lists(f, n, Used(h), MergeOrder(h)), NEW m \in Nat, m + 1 \in 1 .. n,
         NEW x \in [Key -> Registers(h)], AllReached(h, f, m, x)
  PROVE  LET i == f[m + 1]
             y == Execute(x, h[i].cmd)
         IN  /\ AllReached(h, f, m + 1, y.data)
             /\ h[i].complete => y.res = h[i].out
<1> DEFINE i == f[m + 1]
           y == Execute(x, h[i].cmd)
           q == Place(h, i)
<1>1. PICK k \in Key : k = KeyOf(h, i)
  BY Places DEF Lists
<1>2. /\ i \in DOMAIN h /\ i \in Used(h) /\ Count(h, k) \in Nat
      /\ q \in 1 .. Count(h, k) /\ Order(h, k)[q] = i
  <2>1. i \in Used(h)
    BY DEF Lists
  <2> QED
    BY <1>1, <2>1, Places
<1>3. PICK p \in Nat : Reached(h, f, m, x, k, p)
  BY DEF AllReached
<1>4. p = q - 1
  BY <1>1, <1>3, NextInPlace
<1>5. x[k] = Values(h, k)[q - 1]
  BY <1>3, <1>4 DEF Reached
<1>6. Explains(h, OpsOn(h, k), Absent, Count(h, k), Order(h, k), Values(h, k))
  BY Plans DEF AllKeysExplained
<1>7. Fits(h, x[k], i) /\ Values(h, k)[q] = Then(h, x[k], i)
  BY <1>2, <1>5, <1>6 DEF Explains
<1>8. /\ y.res = Answer(h, x[k], i) /\ y.data[k] = Then(h, x[k], i)
      /\ \A k2 \in Key \ {k} : y.data[k2] = x[k2]
  BY <1>1, <1>2, ExecuteIsApplyOp DEF KeyOf
<1>9. h[i].complete => y.res = h[i].out
  BY <1>2, <1>7, <1>8, FitsIsSameResult
<1> HIDE DEF y, q
<1>10. Reached(h, f, m + 1, y.data, k, q)
  <2>1. q \in 0 .. Count(h, k) /\ y.data[k] = Values(h, k)[q]
    BY <1>2, <1>7, <1>8
  <2>2. ASSUME NEW b \in 1 .. Count(h, k)
        PROVE  b <= q <=> \E a \in 1 .. m + 1 : f[a] = Order(h, k)[b]
    <3>1. b <= q - 1 <=> \E a \in 1 .. m : f[a] = Order(h, k)[b]
      BY <1>3, <1>4 DEF Reached
    <3>2. b = q <=> f[m + 1] = Order(h, k)[b]
      <4>1. Order(h, k)[b] = Order(h, k)[q] => b = q
        BY <1>2, <1>6 DEF Explains
      <4> QED
        BY <1>2, <4>1
    <3>3. \A a \in 1 .. m + 1 : a \in 1 .. m \/ a = m + 1
      OBVIOUS
    <3>4. \A a \in 1 .. m : a \in 1 .. m + 1
      OBVIOUS
    <3>5. m + 1 \in 1 .. m + 1 /\ (b <= q <=> (b <= q - 1 \/ b = q))
      BY <1>2
    <3> QED
      BY <3>1, <3>2, <3>3, <3>4, <3>5
  <2> QED
    BY <2>1, <2>2 DEF Reached
<1>11. ASSUME NEW k2 \in Key, k2 # k
       PROVE  \E p2 \in Nat : Reached(h, f, m + 1, y.data, k2, p2)
  <2>1. PICK p2 \in Nat : Reached(h, f, m, x, k2, p2)
    BY DEF AllReached
  <2>2. y.data[k2] = x[k2]
    BY <1>8, <1>11
  <2>3. \A b \in 1 .. Count(h, k2) : f[m + 1] # Order(h, k2)[b]
    BY <1>1, <1>11, Places
  <2>4. \A a \in 1 .. m + 1 : a \in 1 .. m \/ a = m + 1
    OBVIOUS
  <2>5. \A a \in 1 .. m : a \in 1 .. m + 1
    OBVIOUS
  <2>6. \A b \in 1 .. Count(h, k2) :
          (\E a \in 1 .. m : f[a] = Order(h, k2)[b])
            <=> (\E a \in 1 .. m + 1 : f[a] = Order(h, k2)[b])
    BY <2>3, <2>4, <2>5
  <2>7. Reached(h, f, m + 1, y.data, k2, p2)
    BY <2>1, <2>2, <2>6 DEF Reached
  <2> QED
    BY <2>7
<1>12. q \in Nat
  BY <1>2
<1>13. AllReached(h, f, m + 1, y.data)
  BY <1>10, <1>11, <1>12 DEF AllReached
<1> QED
  BY <1>9, <1>13 DEF y

LEMMA Merged ==
  ASSUME NEW h, HistoryOK(h), AllKeysExplained(h)
  PROVE  AllExplained(h)
<1> DEFINE n == Cardinality(Used(h))
<1>1. n \in Nat /\ \E f : Lists(f, n, Used(h), MergeOrder(h))
  BY MergeOrderIsStrict, Listing, Zenon
<1> HIDE DEF n
<1>2. PICK f : Lists(f, n, Used(h), MergeOrder(h))
  BY <1>1
<1>3. f \in [1 .. n -> DOMAIN h]
  BY <1>2 DEF Lists, Used
<1>4. PICK d : Replays(h, f, n, d)
  BY <1>1, <1>3, ReplayExists, Zenon
<1>5. \A m \in 0 .. n : d[m] \in [Key -> Registers(h)]
  BY <1>4 DEF Replays
<1>6. \A m \in 0 .. n : AllReached(h, f, m, d[m])
  <2> DEFINE Good == {m \in Nat : m <= n => AllReached(h, f, m, d[m])}
  <2>1. 0 \in Good
    <3> SUFFICES AllReached(h, f, 0, d[0])
      OBVIOUS
    <3> SUFFICES ASSUME NEW k \in Key PROVE Reached(h, f, 0, d[0], k, 0)
      BY DEF AllReached
    <3>1. /\ Count(h, k) \in Nat
          /\ Explains(h, OpsOn(h, k), Absent, Count(h, k), Order(h, k), Values(h, k))
      BY Plans DEF AllKeysExplained
    <3>2. 0 \in 0 .. Count(h, k) /\ d[0][k] = Absent /\ Values(h, k)[0] = Absent
      BY <1>4, <3>1 DEF Replays, Steps, NoData, Explains
    <3> QED
      BY <3>1, <3>2 DEF Reached
  <2>2. ASSUME NEW m \in Good
        PROVE  m + 1 \in Good
    <3>1. m \in Nat
      OBVIOUS
    <3> SUFFICES ASSUME m + 1 <= n PROVE AllReached(h, f, m + 1, d[m + 1])
      BY <3>1
    <3>2. AllReached(h, f, m, d[m])
      BY <1>1, <3>1
    <3> HIDE DEF Good
    <3>3. m + 1 \in 1 .. n /\ m \in 0 .. n /\ (m + 1) - 1 = m
      BY <1>1, <3>1
    <3>4. d[m + 1] = Execute(d[m], h[f[m + 1]].cmd).data
      BY <1>4, <3>3 DEF Replays, Steps
    <3> QED
      BY <1>1, <1>2, <1>5, <3>1, <3>2, <3>3, <3>4, ReachedNext
  <2> HIDE DEF Good
  <2>3. Good \in SUBSET Nat
    BY DEF Good
  <2>4. Good = Nat
    BY <2>1, <2>2, <2>3, AllNat, Zenon
  <2> QED
    BY <2>4 DEF Good
<1>7. \A m \in 1 .. n : h[f[m]].complete => Execute(d[m - 1], h[f[m]].cmd).res = h[f[m]].out
  <2> SUFFICES ASSUME NEW m \in 1 .. n, h[f[m]].complete
               PROVE  Execute(d[m - 1], h[f[m]].cmd).res = h[f[m]].out
    OBVIOUS
  <2>1. PICK z \in Nat : z + 1 = m /\ z = m - 1
    <3>1. m - 1 \in Nat /\ (m - 1) + 1 = m
      BY <1>1
    <3> QED
      BY <3>1
  <2>2. z \in 0 .. n
    BY <1>1, <2>1
  <2>3. z + 1 \in 1 .. n /\ AllReached(h, f, z, d[z]) /\ d[z] \in [Key -> Registers(h)]
    BY <1>5, <1>6, <2>1, <2>2
  <2> QED
    BY <1>1, <1>2, <2>1, <2>3, ReachedNext
<1>8. \A a, b \in 1 .. n : a < b => f[a] # f[b]
  BY <1>2, MergeOrderIsStrict DEF Lists, StrictOrder
<1>9. \A a, b \in 1 .. n : f[a] = f[b] => a = b
  BY <1>1, <1>8
<1>10. ASSUME NEW a \in 1 .. n, NEW b \in 1 .. n, h[f[a]].complete,
              h[f[a]].response < h[f[b]].invoke
       PROVE  a < b
  <2>1. f[a] \in Used(h) /\ f[b] \in Used(h) /\ f[a] \in DOMAIN h /\ f[b] \in DOMAIN h
    BY <1>2, <1>3 DEF Lists
  <2>2. /\ Point(h, f[a]) <= h[f[a]].response /\ h[f[b]].invoke <= Point(h, f[b])
        /\ Point(h, f[a]) \in Nat /\ Point(h, f[b]) \in Nat
    BY <1>10, <2>1, Points
  <2>3. h[f[a]].response \in Nat /\ h[f[b]].invoke \in Nat
    BY <2>1, HistoryFields
  <2>4. Point(h, f[a]) < Point(h, f[b])
    BY <1>10, <2>2, <2>3
  <2>5. ~Precedes(h, f[b], f[a]) /\ f[a] # f[b]
    BY <2>2, <2>4 DEF Precedes
  <2>6. ~(b < a) /\ a # b
    BY <1>2, <2>5 DEF Lists, MergeOrder
  <2> QED
    BY <2>6
<1>11. ASSUME NEW i \in DOMAIN h, h[i].complete
       PROVE  \E a \in 1 .. n : f[a] = i
  <2>1. KeyOf(h, i) \in Key /\ i \in OpsOn(h, KeyOf(h, i))
    BY HistoryFields DEF KeyOf, OpsOn
  <2>2. Explains(h, OpsOn(h, KeyOf(h, i)), Absent, Count(h, KeyOf(h, i)),
                 Order(h, KeyOf(h, i)), Values(h, KeyOf(h, i)))
    BY <2>1, Plans DEF AllKeysExplained
  <2>3. i \in Used(h)
    BY <1>11, <2>1, <2>2 DEF Explains, Used
  <2> QED
    BY <1>2, <2>3 DEF Lists
<1>12. ExplainsAll(h, n, f, d)
  BY <1>4, <1>7, <1>9, <1>10, <1>11 DEF ExplainsAll
<1> QED
  BY <1>1, <1>3, <1>4, <1>12 DEF AllExplained, Replays

-----------------------------------------------------------------------------
(* Linearizable, in the terms of explanations *)

LEMMA LinearizableIsAllExplained ==
  ASSUME HistoryOK(history)
  PROVE  Linearizable <=> AllExplained(history)
<1> DEFINE Complete == {i \in DOMAIN history : history[i].complete}
<1>1. IsFiniteSet(DOMAIN history)
  <2>1. PICK h : h = history
    OBVIOUS
  <2> QED
    BY <2>1, HistoryFields
<1>2. ASSUME Linearizable
      PROVE  AllExplained(history)
  <2>1. PICK f \in Orders : RespectsRealTime(f) /\ GivesRecordedResults(f)
    BY <1>2 DEF Linearizable
  <2>2. PICK S \in SUBSET DOMAIN history :
          /\ Complete \subseteq S /\ f \in [1 .. Cardinality(S) -> S]
          /\ \A i, j \in DOMAIN f : i # j => f[i] # f[j]
    BY <2>1 DEF Orders
  <2> DEFINE n == Cardinality(S)
  <2>3. IsFiniteSet(S) /\ n \in Nat
    BY <1>1, FS_Subset, FS_CardinalityType, Zenon
  <2> HIDE DEF n, Complete
  <2>4. /\ f \in [1 .. n -> S] /\ f \in [1 .. n -> DOMAIN history]
        /\ \A i, j \in 1 .. n : f[i] = f[j] => i = j
    BY <2>2 DEF n
  <2>5. \A i \in S : \E a \in 1 .. n : f[a] = i
    <3>1. f \in Injection(1 .. n, S)
      BY <2>4 DEF Injection, IsInjective
    <3>2. Cardinality(1 .. n) = n
      BY <2>3, FS_Interval
    <3>3. f \in Surjection(1 .. n, S)
      BY <2>3, <3>1, <3>2, FS_Injection DEF n
    <3> QED
      BY <3>3 DEF Surjection
  <2>6. PICK h : h = history
    OBVIOUS
  <2>7. PICK d : Replays(h, f, n, d)
    BY <2>3, <2>4, <2>6, ReplayExists
  <2>8. \A m \in 1 .. n : history[f[m]].complete =>
          Execute(d[m - 1], history[f[m]].cmd).res = history[f[m]].out
    BY <2>1, <2>3, <2>4, <2>6, <2>7, ResultsByReplay
  <2>9. DOMAIN f = 1 .. n
    BY <2>4
  <2>10. \A a, b \in 1 .. n :
           history[f[a]].complete /\ history[f[a]].response < history[f[b]].invoke => a < b
    BY <2>1, <2>9 DEF RespectsRealTime
  <2>11. \A i \in DOMAIN history : history[i].complete => \E a \in 1 .. n : f[a] = i
    BY <2>2, <2>5 DEF Complete
  <2>12. ExplainsAll(h, n, f, d)
    BY <2>4, <2>6, <2>7, <2>8, <2>10, <2>11 DEF ExplainsAll
  <2> QED
    BY <2>3, <2>4, <2>6, <2>7, <2>12 DEF AllExplained, Replays
<1>3. ASSUME AllExplained(history)
      PROVE  Linearizable
  <2>1. PICK n \in Nat :
          \E f \in [1 .. n -> DOMAIN history], d \in [0 .. n -> [Key -> Registers(history)]] :
            ExplainsAll(history, n, f, d)
    BY <1>3 DEF AllExplained
  <2>2. PICK f \in [1 .. n -> DOMAIN history], d \in [0 .. n -> [Key -> Registers(history)]] :
          ExplainsAll(history, n, f, d)
    BY <2>1
  <2> DEFINE S == {f[a] : a \in 1 .. n}
  <2>3. S \in SUBSET DOMAIN history /\ Complete \subseteq S
    BY <2>2 DEF ExplainsAll
  <2>4. f \in [1 .. n -> S] /\ \A a, b \in 1 .. n : f[a] = f[b] => a = b
    BY <2>2 DEF ExplainsAll
  <2>5. f \in Bijection(1 .. n, S)
    BY <2>4 DEF Bijection, Injection, Surjection, IsInjective
  <2>6. IsFiniteSet(1 .. n) /\ Cardinality(1 .. n) = n
    BY FS_Interval
  <2> HIDE DEF S, Complete
  <2>7. Cardinality(S) = n
    BY <2>5, <2>6, FS_Bijection DEF ExistsBijection
  <2>8. DOMAIN f = 1 .. n
    BY <2>4
  <2>9. f \in Orders
    BY <2>3, <2>4, <2>7, <2>8 DEF Orders, Complete
  <2>10. RespectsRealTime(f)
    BY <2>2, <2>8 DEF RespectsRealTime, ExplainsAll
  <2>11. GivesRecordedResults(f)
    BY <2>2, ResultsByReplay DEF ExplainsAll
  <2> QED
    BY <2>9, <2>10, <2>11 DEF Linearizable
<1> QED
  BY <1>2, <1>3

\* A history is linearizable exactly if the operations on each key can be
\* explained apart from the others.
LEMMA LinearizableByKey ==
  ASSUME HistoryOK(history)
  PROVE  Linearizable <=> AllKeysExplained(history)
<1>1. PICK h : h = history
  OBVIOUS
<1>2. AllExplained(h) <=> AllKeysExplained(h)
  BY <1>1, EachKeyExplained, Merged DEF AllKeysExplained
<1> QED
  BY <1>1, <1>2, LinearizableIsAllExplained

-----------------------------------------------------------------------------
(* The search of one key *)

\* What the m outermost of the calls sk have linearized, and the register
\* after them, when it is s after all the calls.
Chosen(sk, m) == {sk[a].op : a \in 1 .. m}

Reg(sk, s, m) == IF m = Len(sk) THEN s ELSE sk[m + 1].old

\* The operations of the key that are left after m calls.
Left(h, k, sk, m) == OpsOn(h, k) \ Chosen(sk, m)

\* The call m, m >= 1, linearized an operation that the loop may choose.
GoodStep(h, k, sk, s, m) ==
  /\ sk[m].op \in Left(h, k, sk, m - 1)
  /\ Fits(h, Reg(sk, s, m - 1), sk[m].op)
  /\ Reg(sk, s, m) = Then(h, Reg(sk, s, m - 1), sk[m].op)
  /\ \A j \in Left(h, k, sk, m - 1) : h[j].complete => h[sk[m].op].invoke <= h[j].response

\* The open calls of dfs are the beginning of an explanation.
Path(h, k, sk, s) ==
  /\ sk \in Seq([op : OpsOn(h, k), old : Registers(h)]) /\ s \in Registers(h)
  /\ Reg(sk, s, 0) = Absent
  /\ \A m \in 1 .. Len(sk) : GoodStep(h, k, sk, s, m)

Dead(h, k, l, s) == ~Explained(h, OpsOn(h, k) \ l, s)

\* What the memo holds is without explanation, or one of the calls up to top.
Memo(h, k, sk, s, seen, top) ==
  \A p \in seen : \/ Dead(h, k, p[1], p[2])
                  \/ \E m \in 0 .. top : p = <<Chosen(sk, m), Reg(sk, s, m)>>

\* No explanation of what is left after m calls begins with an operation
\* before b.
Passed(h, k, sk, s, m, b) ==
  \A i \in Left(h, k, sk, m) : i < b => ~Begins(h, Left(h, k, sk, m), Reg(sk, s, m), i)

AllPassed(h, k, sk, s) ==
  \A m \in 0 .. Len(sk) - 1 : Passed(h, k, sk, s, m, sk[m + 1].op)

-----------------------------------------------------------------------------
(* The inductive invariant *)

Recording == HistoryOK(history) /\ clock \in Nat

\* The keys that are not to be checked any more have been found explained.
KeysDone ==
  /\ mode # "done" => verdict = "none"
  /\ mode \in {"pick", "enter", "loop"} =>
       \A k \in Key \ todo : mode = "pick" \/ k # key => KeyExplained(history, k)

Searching ==
  mode \in {"enter", "loop"} =>
    /\ key \in Key
    /\ Path(history, key, stack, st) /\ linearized = Chosen(stack, Len(stack))
    /\ AllPassed(history, key, stack, st)

Entering == mode = "enter" => Memo(history, key, stack, st, visited, Len(stack) - 1)

Looping ==
  mode = "loop" =>
    /\ Memo(history, key, stack, st, visited, Len(stack))
    /\ Remaining # {} /\ next \in Nat
    /\ Passed(history, key, stack, st, Len(stack), next)

Verdicts ==
  /\ verdict = "linearizable" => AllKeysExplained(history)
  /\ verdict = "violation" => ~AllKeysExplained(history)

SearchInv == Recording /\ KeysDone /\ Searching /\ Entering /\ Looping /\ Verdicts

-----------------------------------------------------------------------------
(* Calls of dfs that open and return *)

LEMMA PathFacts ==
  ASSUME NEW h, NEW k, NEW sk, NEW s, Path(h, k, sk, s)
  PROVE  /\ Len(sk) \in Nat
         /\ \A m \in 1 .. Len(sk) :
              /\ sk[m] \in [op : OpsOn(h, k), old : Registers(h)] /\ sk[m].old \in Registers(h)
              /\ sk[m].op \in Left(h, k, sk, m - 1) /\ sk[m].op \in OpsOn(h, k)
         /\ \A m \in 0 .. Len(sk) : Reg(sk, s, m) \in Registers(h)
         /\ \A a, b \in 1 .. Len(sk) : sk[a].op = sk[b].op => a = b
<1>1. Len(sk) \in Nat
  BY LenProperties DEF Path
<1>2. \A m \in 1 .. Len(sk) :
        /\ sk[m] \in [op : OpsOn(h, k), old : Registers(h)]
        /\ sk[m].old \in Registers(h) /\ sk[m].op \in OpsOn(h, k)
  <2>1. \A m \in 1 .. Len(sk) : sk[m] \in [op : OpsOn(h, k), old : Registers(h)]
    BY ElementOfSeq DEF Path
  <2> QED
    BY <2>1
<1>3. \A m \in 1 .. Len(sk) : sk[m].op \in Left(h, k, sk, m - 1)
  BY DEF Path, GoodStep
<1>4. \A m \in 0 .. Len(sk) : m = Len(sk) \/ m + 1 \in 1 .. Len(sk)
  BY <1>1
<1>5. \A m \in 0 .. Len(sk) : Reg(sk, s, m) \in Registers(h)
  BY <1>2, <1>4 DEF Reg, Path
<1>6. ASSUME NEW a \in 1 .. Len(sk), NEW b \in 1 .. Len(sk), a < b
      PROVE  sk[a].op # sk[b].op
  <2>1. a \in 1 .. b - 1
    BY <1>1, <1>6
  <2>2. sk[a].op \in Chosen(sk, b - 1)
    BY <2>1 DEF Chosen
  <2> QED
    BY <1>3, <2>2 DEF Left
<1>7. \A a, b \in 1 .. Len(sk) : sk[a].op = sk[b].op => a = b
  BY <1>1, <1>6
<1> QED
  BY <1>1, <1>2, <1>3, <1>5, <1>7

\* When no complete operation is left, the open calls are an explanation.
LEMMA PathExplains ==
  ASSUME NEW h, HistoryOK(h), NEW k, NEW sk, NEW s, Path(h, k, sk, s),
         \A j \in Left(h, k, sk, Len(sk)) : ~h[j].complete
  PROVE  KeyExplained(h, k)
<1> DEFINE n == Len(sk)
           g == [m \in 1 .. n |-> sk[m].op]
           r == [m \in 0 .. n |-> Reg(sk, s, m)]
<1>1. /\ n \in Nat /\ g \in [1 .. n -> OpsOn(h, k)] /\ r \in [0 .. n -> Registers(h)]
      /\ \A a, b \in 1 .. n : g[a] = g[b] => a = b
  BY PathFacts
<1>2. r[0] = Absent
  BY <1>1 DEF Path
<1>3. \A m \in 1 .. n : m - 1 \in 0 .. n /\ m \in 0 .. n
  BY <1>1
<1>4. \A m \in 1 .. n : g[m] = sk[m].op /\ r[m] = Reg(sk, s, m) /\ r[m - 1] = Reg(sk, s, m - 1)
  BY <1>3
<1> HIDE DEF g, r
<1>5. \A m \in 1 .. n : Fits(h, r[m - 1], g[m]) /\ r[m] = Then(h, r[m - 1], g[m])
  BY <1>4 DEF Path, GoodStep
<1>6. ASSUME NEW a \in 1 .. n, NEW b \in 1 .. n, h[g[a]].complete,
             h[g[a]].response < h[g[b]].invoke
      PROVE  a < b
  <2> SUFFICES ASSUME b <= a PROVE FALSE
    BY <1>1
  <2>1. g[a] \notin Chosen(sk, b - 1)
    <3> SUFFICES ASSUME g[a] \in Chosen(sk, b - 1) PROVE FALSE
      OBVIOUS
    <3>1. PICK c \in 1 .. b - 1 : g[a] = sk[c].op
      BY DEF Chosen
    <3>2. c \in 1 .. n /\ c # a
      BY <1>1
    <3> QED
      BY <1>1, <1>4, <3>1, <3>2
  <2>2. g[a] \in OpsOn(h, k) /\ g[b] \in OpsOn(h, k)
    BY <1>1
  <2>3. h[g[b]].invoke <= h[g[a]].response
    BY <1>4, <1>6, <2>1, <2>2 DEF Path, GoodStep, Left
  <2>4. h[g[b]].invoke \in Nat /\ h[g[a]].response \in Nat
    BY <2>2, HistoryFields DEF OpsOn
  <2> QED
    BY <1>6, <2>3, <2>4
<1>7. ASSUME NEW i \in OpsOn(h, k), h[i].complete
      PROVE  \E a \in 1 .. n : g[a] = i
  <2>1. i \in Chosen(sk, n)
    BY <1>7 DEF Left
  <2> QED
    BY <1>4, <2>1 DEF Chosen
<1>8. Explains(h, OpsOn(h, k), Absent, n, g, r)
  BY <1>1, <1>2, <1>5, <1>6, <1>7 DEF Explains
<1> QED
  BY <1>1, <1>8 DEF KeyExplained, Explained

\* Two stacks of calls are the same up to the call q.
Agree(sk, s, sk2, s2, q) ==
  /\ q \in Nat /\ Len(sk) \in Nat /\ Len(sk2) \in Nat /\ q <= Len(sk) /\ q <= Len(sk2)
  /\ \A m \in 1 .. q : sk[m] = sk2[m]
  /\ Reg(sk, s, q) = Reg(sk2, s2, q)

LEMMA AgreeMeans ==
  ASSUME NEW sk, NEW s, NEW sk2, NEW s2, NEW q, Agree(sk, s, sk2, s2, q), NEW m \in 0 .. q
  PROVE  Chosen(sk, m) = Chosen(sk2, m) /\ Reg(sk, s, m) = Reg(sk2, s2, m)
<1>1. \A a \in 1 .. m : sk[a] = sk2[a]
  BY DEF Agree
<1>2. Chosen(sk, m) = Chosen(sk2, m)
  BY <1>1 DEF Chosen
<1>3. CASE m = q
  BY <1>2, <1>3 DEF Agree
<1>4. CASE m # q
  <2>1. m + 1 \in 1 .. q /\ m # Len(sk) /\ m # Len(sk2)
    BY <1>4 DEF Agree
  <2> QED
    BY <1>2, <2>1 DEF Agree, Reg
<1> QED
  BY <1>3, <1>4

LEMMA AgreeKeeps ==
  ASSUME NEW h, NEW k, NEW sk, NEW s, NEW sk2, NEW s2, NEW q, Agree(sk, s, sk2, s2, q)
  PROVE  /\ \A m \in 1 .. q : GoodStep(h, k, sk, s, m) <=> GoodStep(h, k, sk2, s2, m)
         /\ \A seen : \A top \in -1 .. q :
              Memo(h, k, sk, s, seen, top) <=> Memo(h, k, sk2, s2, seen, top)
<1>1. \A m \in 0 .. q : Chosen(sk, m) = Chosen(sk2, m) /\ Reg(sk, s, m) = Reg(sk2, s2, m)
  BY AgreeMeans
<1>2. \A m \in 0 .. q : Left(h, k, sk, m) = Left(h, k, sk2, m)
  BY <1>1 DEF Left
<1>3. ASSUME NEW m \in 1 .. q
      PROVE  GoodStep(h, k, sk, s, m) <=> GoodStep(h, k, sk2, s2, m)
  <2>1. m - 1 \in 0 .. q /\ m \in 0 .. q /\ sk[m] = sk2[m]
    BY DEF Agree
  <2> QED
    BY <1>1, <1>2, <2>1 DEF GoodStep
<1>4. ASSUME NEW seen, NEW top \in -1 .. q
      PROVE  Memo(h, k, sk, s, seen, top) <=> Memo(h, k, sk2, s2, seen, top)
  <2>1. \A m \in 0 .. top : m \in 0 .. q
    BY DEF Agree
  <2> QED
    BY <1>1, <2>1 DEF Memo
<1> QED
  BY <1>3, <1>4

LEMMA PassedKeeps ==
  ASSUME NEW h, NEW k, NEW sk, NEW s, NEW sk2, NEW s2, NEW q, Agree(sk, s, sk2, s2, q),
         NEW m \in 0 .. q, NEW b, Passed(h, k, sk, s, m, b)
  PROVE  Passed(h, k, sk2, s2, m, b)
<1>1. Chosen(sk, m) = Chosen(sk2, m) /\ Reg(sk, s, m) = Reg(sk2, s2, m)
  BY AgreeMeans
<1>2. Left(h, k, sk, m) = Left(h, k, sk2, m)
  BY <1>1 DEF Left
<1> QED
  BY <1>1, <1>2 DEF Passed


\* A call is made: i is linearized.
LEMMA PathPush ==
  ASSUME NEW h, NEW k, NEW sk, NEW s, Path(h, k, sk, s),
         NEW i \in Left(h, k, sk, Len(sk)), i \in DOMAIN h, Fits(h, s, i),
         \A j \in Left(h, k, sk, Len(sk)) : h[j].complete => h[i].invoke <= h[j].response
  PROVE  LET sk2 == Append(sk, [op |-> i, old |-> s])
             s2  == Then(h, s, i)
         IN  /\ Agree(sk, s, sk2, s2, Len(sk)) /\ Path(h, k, sk2, s2)
             /\ Len(sk2) = Len(sk) + 1 /\ sk2[Len(sk) + 1].op = i
             /\ Chosen(sk2, Len(sk) + 1) = Chosen(sk, Len(sk)) \cup {i}
<1> DEFINE e == [op |-> i, old |-> s]
           sk2 == Append(sk, e)
           s2 == Then(h, s, i)
           n == Len(sk)
<1>1. /\ n \in Nat /\ sk \in Seq([op : OpsOn(h, k), old : Registers(h)]) /\ s \in Registers(h)
      /\ e \in [op : OpsOn(h, k), old : Registers(h)]
  BY PathFacts DEF Path, Left
<1>2. /\ sk2 \in Seq([op : OpsOn(h, k), old : Registers(h)]) /\ Len(sk2) = n + 1
      /\ \A m \in 1 .. n : sk2[m] = sk[m]
      /\ sk2[n + 1] = e
  <2> HIDE DEF e
  <2> QED
    BY <1>1, AppendProperties
<1>3. s2 \in Registers(h)
  BY <1>1, ThenInRegisters
<1>4. sk2[n + 1].op = i /\ sk2[n + 1].old = s
  BY <1>2
<1> HIDE DEF sk2, e, n, s2
<1>5. Reg(sk, s, n) = s /\ Reg(sk2, s2, n) = s /\ Reg(sk2, s2, n + 1) = s2
  BY <1>1, <1>2, <1>4 DEF Reg, n
<1>6. Agree(sk, s, sk2, s2, n)
  BY <1>1, <1>2, <1>5 DEF Agree, n
<1>7. 0 \in 0 .. n /\ n \in 0 .. n
  BY <1>1
<1>8. Reg(sk2, s2, 0) = Absent
  BY <1>6, <1>7, AgreeMeans DEF Path
<1>9. \A m \in 1 .. n : GoodStep(h, k, sk2, s2, m)
  BY <1>6, AgreeKeeps DEF Path, n
<1>10. Chosen(sk2, n) = Chosen(sk, n)
  BY <1>6, <1>7, AgreeMeans
<1>11. GoodStep(h, k, sk2, s2, n + 1)
  <2>1. (n + 1) - 1 = n
    BY <1>1
  <2>2. Left(h, k, sk2, n) = Left(h, k, sk, n)
    BY <1>10 DEF Left
  <2> QED
    BY <1>4, <1>5, <2>1, <2>2 DEF GoodStep, s2, n
<1>12. \A m \in 1 .. n + 1 : m \in 1 .. n \/ m = n + 1
  BY <1>1
<1>13. Path(h, k, sk2, s2)
  BY <1>2, <1>3, <1>8, <1>9, <1>11, <1>12 DEF Path
<1>14. Chosen(sk2, n + 1) = Chosen(sk2, n) \cup {i}
  <2>1. \A m : m \in 1 .. n + 1 <=> m \in 1 .. n \/ m = n + 1
    BY <1>1
  <2> QED
    BY <1>4, <2>1 DEF Chosen
<1> QED
  BY <1>2, <1>4, <1>6, <1>10, <1>13, <1>14 DEF sk2, e, s2, n

LEMMA DropLast ==
  ASSUME NEW U, NEW q \in Seq(U), NEW n \in Nat, Len(q) = n + 1
  PROVE  /\ SubSeq(q, 1, n) \in Seq(U) /\ Len(SubSeq(q, 1, n)) = n
         /\ \A m \in 1 .. n : SubSeq(q, 1, n)[m] = q[m]
<1>1. PICK a \in Nat : a = 1
  OBVIOUS
<1>2. \A m \in a .. n : m \in 1 .. Len(q)
  BY <1>1
<1>3. \A m \in a .. n : q[m] \in U
  BY <1>2, ElementOfSeq, Zenon
<1> DEFINE u == SubSeq(q, a, n)
<1>4. /\ u \in Seq(U) /\ Len(u) = IF a <= n THEN n - a + 1 ELSE 0
      /\ \A m \in 1 .. n - a + 1 : u[m] = q[a + m - 1]
  BY <1>3, SubSeqProperties
<1> HIDE DEF u
<1>5. Len(u) = n /\ \A m \in 1 .. n : u[m] = q[m]
  BY <1>1, <1>4
<1> QED
  BY <1>1, <1>4, <1>5 DEF u

\* The innermost call returns false.
LEMMA PathPop ==
  ASSUME NEW h, NEW k, NEW sk, NEW s, Path(h, k, sk, s), NEW n \in Nat, Len(sk) = n + 1
  PROVE  LET sk2 == SubSeq(sk, 1, n)
             s2  == sk[n + 1].old
         IN  /\ Agree(sk, s, sk2, s2, n) /\ Path(h, k, sk2, s2) /\ Len(sk2) = n
             /\ Chosen(sk, n + 1) \ {sk[n + 1].op} = Chosen(sk2, n)
             /\ sk[n + 1].op \in Left(h, k, sk2, n)
             /\ Left(h, k, sk, n + 1) = Left(h, k, sk2, n) \ {sk[n + 1].op}
             /\ Reg(sk, s, n + 1) = Then(h, Reg(sk2, s2, n), sk[n + 1].op)
<1> DEFINE sk2 == SubSeq(sk, 1, n)
           s2 == sk[n + 1].old
           i == sk[n + 1].op
           T == [op : OpsOn(h, k), old : Registers(h)]
<1>1. sk \in Seq(T) /\ n + 1 \in 1 .. Len(sk) /\ s2 \in Registers(h)
      /\ i \in Left(h, k, sk, (n + 1) - 1) /\ i \in OpsOn(h, k)
  BY PathFacts DEF Path
<1>2. /\ sk2 \in Seq(T) /\ Len(sk2) = n
      /\ \A m \in 1 .. n : sk2[m] = sk[m]
  <2> HIDE DEF T, sk2
  <2>1. PICK U : U = T
    OBVIOUS
  <2>2. SubSeq(sk, 1, n) \in Seq(U) /\ Len(SubSeq(sk, 1, n)) = n
        /\ \A m \in 1 .. n : SubSeq(sk, 1, n)[m] = sk[m]
    BY <1>1, <2>1, DropLast
  <2> QED
    BY <2>1, <2>2 DEF sk2
<1>3. Reg(sk, s, n) = s2 /\ Reg(sk2, s2, n) = s2
  BY <1>2 DEF Reg
<1> HIDE DEF sk2, s2, T
<1>4. Agree(sk, s, sk2, s2, n)
  BY <1>2, <1>3 DEF Agree
<1>5. 0 \in 0 .. n /\ n \in 0 .. n /\ (n + 1) - 1 = n
  OBVIOUS
<1>6. Reg(sk2, s2, 0) = Absent
  BY <1>4, <1>5, AgreeMeans DEF Path
<1>7. \A m \in 1 .. n : m \in 1 .. Len(sk)
  OBVIOUS
<1>8. \A m \in 1 .. n : GoodStep(h, k, sk2, s2, m)
  BY <1>4, <1>7, AgreeKeeps DEF Path
<1>9. Path(h, k, sk2, s2)
  BY <1>1, <1>2, <1>6, <1>8 DEF Path, T
<1>10. Chosen(sk2, n) = Chosen(sk, n)
  BY <1>4, <1>5, AgreeMeans
<1>11. i \in Left(h, k, sk2, n)
  BY <1>1, <1>5, <1>10 DEF Left
<1>12. Chosen(sk, n + 1) = Chosen(sk2, n) \cup {i}
  <2>1. \A m : m \in 1 .. n + 1 <=> m \in 1 .. n \/ m = n + 1
    OBVIOUS
  <2> QED
    BY <1>10, <2>1 DEF Chosen
<1>13. /\ Chosen(sk, n + 1) \ {i} = Chosen(sk2, n)
       /\ Left(h, k, sk, n + 1) = Left(h, k, sk2, n) \ {i}
  BY <1>11, <1>12 DEF Left
<1>14. Reg(sk, s, n + 1) = Then(h, Reg(sk2, s2, n), i)
  BY <1>1, <1>3, <1>5 DEF Path, GoodStep
<1> QED
  BY <1>2, <1>4, <1>9, <1>11, <1>13, <1>14 DEF sk2, s2

\* A call that has tried whatever it may without success has nothing to explain.
LEMMA NothingLeftToTry ==
  ASSUME NEW h, HistoryOK(h), NEW k, NEW sk, NEW s, Path(h, k, sk, s),
         NEW b, Passed(h, k, sk, s, Len(sk), b),
         NEW j \in Left(h, k, sk, Len(sk)), h[j].complete,
         \A i \in Left(h, k, sk, Len(sk)) :
           Fits(h, s, i) /\ (\A c \in Left(h, k, sk, Len(sk)) :
                               h[c].complete => h[i].invoke <= h[c].response)
             => i < b
  PROVE  Dead(h, k, Chosen(sk, Len(sk)), s)
<1> DEFINE S == Left(h, k, sk, Len(sk))
<1>1. S \in SUBSET DOMAIN h /\ Reg(sk, s, Len(sk)) = s
  BY DEF Left, OpsOn, Reg
<1> HIDE DEF S
<1>2. SUFFICES ASSUME Explained(h, S, s) PROVE FALSE
  BY DEF Dead, S, Left
<1>3. PICK i \in S : Begins(h, S, s, i)
  BY <1>2, SomethingBegins DEF S
<1>4. i < b
  BY <1>1, <1>3, WhatBegins DEF S
<1> QED
  BY <1>1, <1>3, <1>4 DEF Passed, S

-----------------------------------------------------------------------------
(* The steps *)

LEMMA OpsOfType ==
  ASSUME HistoryOK(history), NEW c
  PROVE  Cardinality(OpsOf(c)) + 1 \in Nat \ {0}
<1>1. IsFiniteSet(DOMAIN history)
  <2>1. PICK h : h = history
    OBVIOUS
  <2> QED
    BY <2>1, HistoryFields
<1>2. OpsOf(c) \in SUBSET DOMAIN history
  BY DEF OpsOf
<1>3. Cardinality(OpsOf(c)) \in Nat
  BY <1>1, <1>2, FS_Subset, FS_CardinalityType, Zenon
<1> QED
  BY <1>3

LEMMA WrittenType ==
  ASSUME HistoryOK(history), NEW k
  PROVE  Written(k) \subseteq OptValue
<1>1. PICK h : h = history
  OBVIOUS
<1>2. \A i \in DOMAIN h : h[i].cmd \in Command
  BY <1>1, HistoryFields
<1>3. \A i \in DOMAIN h : h[i].cmd.value \in OptValue
  BY <1>2 DEF Command
<1> QED
  BY <1>1, <1>3 DEF Written

LEMMA AppendOK ==
  ASSUME NEW h, HistoryOK(h), NEW o \in LinOp, ~o.complete
  PROVE  HistoryOK(Append(h, o))
<1> DEFINE g == Append(h, o)
<1>1. h \in Seq(LinOp) /\ Len(h) \in Nat
  BY HistoryFields DEF HistoryOK
<1>2. /\ g \in Seq(LinOp) /\ Len(g) = Len(h) + 1 /\ g[Len(h) + 1] = o
      /\ \A i \in 1 .. Len(h) : g[i] = h[i]
  BY <1>1, AppendProperties
<1> HIDE DEF g
<1>3. DOMAIN g = 1 .. Len(h) + 1 /\ DOMAIN h = 1 .. Len(h)
  BY <1>1, <1>2, LenProperties
<1>4. ASSUME NEW i \in DOMAIN g, g[i].complete
      PROVE  g[i].invoke <= g[i].response /\ Shaped(g[i])
  <2>1. i # Len(h) + 1
    BY <1>2, <1>4
  <2>2. i \in DOMAIN h /\ g[i] = h[i]
    BY <1>1, <1>2, <1>3, <2>1
  <2> QED
    BY <1>4, <2>2 DEF HistoryOK
<1> QED
  BY <1>2, <1>4 DEF HistoryOK, g

LEMMA ExceptOK ==
  ASSUME NEW h, HistoryOK(h), NEW i \in DOMAIN h, NEW o \in LinOp,
         o.complete => o.invoke <= o.response /\ Shaped(o)
  PROVE  HistoryOK([h EXCEPT ![i] = o])
<1> DEFINE g == [h EXCEPT ![i] = o]
<1>1. h \in Seq(LinOp) /\ i \in 1 .. Len(h) /\ DOMAIN h = 1 .. Len(h)
  BY HistoryFields DEF HistoryOK
<1>2. g \in Seq(LinOp)
  BY <1>1, ExceptSeq
<1>3. DOMAIN g = DOMAIN h /\ \A j \in DOMAIN h : g[j] = IF j = i THEN o ELSE h[j]
  OBVIOUS
<1> HIDE DEF g
<1>4. \A j \in DOMAIN g : g[j].complete => g[j].invoke <= g[j].response /\ Shaped(g[j])
  BY <1>3 DEF HistoryOK
<1> QED
  BY <1>2, <1>4 DEF HistoryOK, g

LEMMA InvokeOK ==
  ASSUME Recording, NEW c \in Client, NEW op \in {"Get", "Put", "CAS"}, NEW k \in Key,
         NEW e \in OptValue, Invoke(c, op, k, e)
  PROVE  HistoryOK(history')
<1> DEFINE n == Cardinality(OpsOf(c)) + 1
           cmd == [client |-> c, seq |-> n, op |-> op, key |-> k,
                   value  |-> IF op = "Get" THEN NoValue ELSE <<c, n>>,
                   expect |-> IF op = "CAS" THEN e ELSE NoValue]
           o == [cmd |-> cmd, invoke |-> clock, complete |-> FALSE, response |-> 0,
                 out |-> NoResult]
<1>1. n \in Nat \ {0}
  BY OpsOfType DEF Recording
<1>2. history' = Append(history, o)
  BY DEF Invoke
<1> HIDE DEF n
<1>3. cmd \in Command
  BY <1>1 DEF Command, OptValue, Value
<1> HIDE DEF cmd
<1>4. NoResult \in Result /\ clock \in Nat
  BY DEF NoResult, Result, OptValue, Recording
<1>5. o \in LinOp /\ ~o.complete
  BY <1>3, <1>4 DEF LinOp
<1>6. PICK h, x : h = history /\ x = o
  OBVIOUS
<1> HIDE DEF o
<1>7. HistoryOK(Append(h, x))
  BY <1>5, <1>6, AppendOK DEF Recording
<1> QED
  BY <1>2, <1>6, <1>7

LEMMA RespondOK ==
  ASSUME Recording, NEW i \in DOMAIN history, NEW r \in Answers(history[i].cmd), Respond(i, r)
  PROVE  HistoryOK(history')
<1>1. PICK h, t : h = history /\ t = clock
  OBVIOUS
<1>2. h[i] \in LinOp /\ h[i].cmd.op \in {"Get", "Put", "CAS"} /\ HistoryOK(h) /\ i \in DOMAIN h
  BY <1>1, HistoryFields DEF Recording
<1> t \in Nat
  BY <1>1 DEF Recording
<1> DEFINE o == [h[i] EXCEPT !.complete = TRUE, !.response = t, !.out = r]
<1>3. history' = [h EXCEPT ![i] = o]
  BY <1>1, <1>2 DEF Respond, LinOp
<1>4. Written(h[i].cmd.key) \cup {NoValue} \subseteq OptValue
  <2>1. NoValue \in OptValue
    BY DEF OptValue
  <2> QED
    BY <1>1, <1>2, <2>1, WrittenType
<1>5. r \in Result /\ Shaped([h[i] EXCEPT !.out = r])
  <2>1. r \in [value : Written(h[i].cmd.key) \cup {NoValue}, ok : BOOLEAN]
        /\ CASE h[i].cmd.op = "Get" -> r.ok <=> r.value # NoValue
             [] h[i].cmd.op = "Put" -> r.ok /\ r.value = NoValue
             [] h[i].cmd.op = "CAS" -> r.ok => r.value = NoValue
    BY <1>1 DEF Answers
  <2>2. r \in Result
    BY <1>4, <2>1 DEF Result
  <2>3. [h[i] EXCEPT !.out = r].cmd = h[i].cmd /\ [h[i] EXCEPT !.out = r].out = r
    BY <1>2 DEF LinOp
  <2> QED
    BY <1>2, <2>1, <2>2, <2>3 DEF Shaped
<1>6. o \in LinOp /\ o.cmd = h[i].cmd /\ o.out = r /\ o.invoke = h[i].invoke /\ o.response = t
  BY <1>1, <1>2, <1>5 DEF LinOp
<1>7. Shaped(o)
  <2>1. [h[i] EXCEPT !.out = r].cmd = h[i].cmd /\ [h[i] EXCEPT !.out = r].out = r
    BY <1>2 DEF LinOp
  <2> QED
    BY <1>5, <1>6, <2>1 DEF Shaped
<1>8. h[i].invoke < t /\ h[i].invoke \in Nat
  BY <1>1, <1>2 DEF Respond, LinOp
<1>9. o.invoke <= o.response
  BY <1>6, <1>8
<1> HIDE DEF o
<1>10. HistoryOK([h EXCEPT ![i] = o])
  BY <1>2, <1>6, <1>7, <1>9, ExceptOK
<1> QED
  BY <1>3, <1>10

LEMMA InitInv == Init => SearchInv
<1> SUFFICES ASSUME Init PROVE SearchInv
  OBVIOUS
<1>1. /\ history = <<>> /\ clock = 1 /\ mode = "record" /\ verdict = "none"
  BY DEF Init
<1>2. HistoryOK(<<>>)
  BY DEF HistoryOK
<1> QED
  BY <1>1, <1>2 DEF SearchInv, Recording, KeysDone, Searching, Entering, Looping, Verdicts

\* Before the check nothing but the history matters.
LEMMA RecordStep ==
  ASSUME SearchInv, mode = "record", mode' = "record", verdict' = verdict,
         HistoryOK(history'), clock' \in Nat
  PROVE  SearchInv'
<1>1. verdict = "none"
  BY DEF SearchInv, KeysDone
<1> QED
  BY <1>1 DEF SearchInv, Recording, KeysDone, Searching, Entering, Looping, Verdicts

\* A key without operations.
LEMMA NothingToExplain ==
  ASSUME NEW h, NEW k, OpsOn(h, k) = {}
  PROVE  KeyExplained(h, k)
<1> DEFINE r == [m \in 0 .. 0 |-> Absent]
           g == [m \in 1 .. 0 |-> 0]
<1>1. g \in [1 .. 0 -> OpsOn(h, k)] /\ r \in [0 .. 0 -> Registers(h)]
  BY DEF Registers
<1>2. Explains(h, OpsOn(h, k), Absent, 0, g, r)
  BY <1>1 DEF Explains
<1> QED
  BY <1>1, <1>2 DEF KeyExplained, Explained

LEMMA StartCheckStep ==
  ASSUME SearchInv, StartCheck
  PROVE  SearchInv'
<1>1. /\ verdict' = "none" /\ mode' = "pick" /\ history' = history /\ clock' = 0
      /\ todo' = {history[i].cmd.key : i \in DOMAIN history}
  BY DEF StartCheck, SearchInv, KeysDone
<1>2. \A k \in Key \ todo' : KeyExplained(history', k)
  <2>1. PICK h : h = history
    OBVIOUS
  <2>2. ASSUME NEW k \in Key \ todo' PROVE OpsOn(h, k) = {}
    BY <1>1, <2>1 DEF OpsOn
  <2> QED
    BY <1>1, <2>1, <2>2, NothingToExplain
<1> QED
  BY <1>1, <1>2 DEF SearchInv, Recording, KeysDone, Searching, Entering, Looping, Verdicts

LEMMA PickKeyStep ==
  ASSUME SearchInv, NEW k \in Key, PickKey(k)
  PROVE  SearchInv'
<1>1. /\ mode = "pick" /\ mode' = "enter" /\ todo' = todo \ {k} /\ key' = k /\ linearized' = {}
      /\ st' = Absent /\ visited' = {} /\ stack' = <<>>
      /\ history' = history /\ clock' = clock /\ verdict' = verdict
  BY DEF PickKey
<1>2. KeysDone'
  BY <1>1 DEF SearchInv, KeysDone
<1>3. PICK h : h = history
  OBVIOUS
<1>4. Path(h, k, <<>>, Absent) /\ AllPassed(h, k, <<>>, Absent) /\ Chosen(<<>>, 0) = {}
  BY DEF Path, AllPassed, Chosen, Registers, Reg
<1>5. Memo(h, k, <<>>, Absent, {}, Len(<<>>) - 1)
  BY DEF Memo
<1>6. Len(<<>>) = 0
  OBVIOUS
<1>7. Searching' /\ Entering'
  BY <1>1, <1>3, <1>4, <1>5, <1>6 DEF Searching, Entering
<1> QED
  BY <1>1, <1>2, <1>7 DEF SearchInv, Recording, KeysDone, Looping, Verdicts

\* What a search in progress looks like, in constants.
LEMMA SearchTerms ==
  ASSUME SearchInv, mode \in {"enter", "loop"}
  PROVE  \E h, k, sk, s :
           /\ h = history /\ k = key /\ sk = stack /\ s = st
           /\ HistoryOK(h) /\ k \in Key /\ Path(h, k, sk, s) /\ AllPassed(h, k, sk, s)
           /\ Len(sk) \in Nat /\ linearized = Chosen(sk, Len(sk))
           /\ KeyOps \ linearized = Left(h, k, sk, Len(sk))
           /\ Remaining = {i \in Left(h, k, sk, Len(sk)) : h[i].complete}
           /\ Left(h, k, sk, Len(sk)) \subseteq DOMAIN h /\ DOMAIN h \subseteq Nat \ {0}
<1>1. PICK h, k, sk, s : h = history /\ k = key /\ sk = stack /\ s = st
  OBVIOUS
<1>2. /\ HistoryOK(h) /\ k \in Key /\ Path(h, k, sk, s) /\ AllPassed(h, k, sk, s)
      /\ linearized = Chosen(sk, Len(sk))
  BY <1>1 DEF SearchInv, Recording, Searching
<1>3. Len(sk) \in Nat
  BY <1>2, PathFacts
<1>4. KeyOps \ linearized = Left(h, k, sk, Len(sk))
  BY <1>1, <1>2 DEF KeyOps, Left, OpsOn
<1>5. Left(h, k, sk, Len(sk)) \subseteq DOMAIN h
  BY DEF Left, OpsOn
<1>6. DOMAIN h \subseteq Nat \ {0}
  BY <1>2, HistoryFields
<1>7. Remaining = {i \in Left(h, k, sk, Len(sk)) : h[i].complete}
  BY <1>1, <1>4 DEF Remaining
<1> QED
  BY <1>1, <1>2, <1>3, <1>4, <1>5, <1>6, <1>7

LEMMA KeyIsFineStep ==
  ASSUME SearchInv, KeyIsFine
  PROVE  SearchInv'
<1>1. /\ mode = "enter" /\ Remaining = {} /\ mode' = "pick" /\ history' = history
      /\ clock' = clock /\ todo' = todo /\ verdict' = verdict
  BY DEF KeyIsFine
<1>2. PICK h, k, sk, s :
        /\ h = history /\ k = key /\ HistoryOK(h) /\ Path(h, k, sk, s)
        /\ Remaining = {i \in Left(h, k, sk, Len(sk)) : h[i].complete}
  BY <1>1, SearchTerms
<1>3. KeyExplained(h, k)
  <2>1. \A j \in Left(h, k, sk, Len(sk)) : ~h[j].complete
    BY <1>1, <1>2
  <2> QED
    BY <1>2, <2>1, PathExplains
<1>4. KeysDone'
  BY <1>1, <1>2, <1>3 DEF SearchInv, KeysDone
<1> QED
  BY <1>1, <1>4 DEF SearchInv, Recording, Searching, Entering, Looping, Verdicts

LEMMA EnterStep ==
  ASSUME SearchInv, Enter
  PROVE  SearchInv'
<1>1. /\ mode = "enter" /\ Remaining # {} /\ mode' = "loop" /\ next' = 1
      /\ visited' = visited \cup {<<linearized, st>>}
      /\ history' = history /\ clock' = clock /\ todo' = todo /\ verdict' = verdict
      /\ key' = key /\ linearized' = linearized /\ st' = st /\ stack' = stack
  BY DEF Enter
<1>2. PICK h, k, sk, s :
        /\ h = history /\ k = key /\ sk = stack /\ s = st
        /\ Len(sk) \in Nat /\ linearized = Chosen(sk, Len(sk))
        /\ Left(h, k, sk, Len(sk)) \subseteq DOMAIN h /\ DOMAIN h \subseteq Nat \ {0}
  BY <1>1, SearchTerms, Zenon
<1>3. Memo(h, k, sk, s, visited, Len(sk) - 1)
  BY <1>1, <1>2 DEF SearchInv, Entering
<1>4. Memo(h, k, sk, s, visited', Len(sk))
  <2> SUFFICES ASSUME NEW p \in visited'
               PROVE  \/ Dead(h, k, p[1], p[2])
                      \/ \E m \in 0 .. Len(sk) : p = <<Chosen(sk, m), Reg(sk, s, m)>>
    BY DEF Memo
  <2>1. CASE p \in visited
    <3>1. \A m \in 0 .. Len(sk) - 1 : m \in 0 .. Len(sk)
      BY <1>2
    <3> QED
      BY <1>3, <2>1, <3>1 DEF Memo
  <2>2. CASE p = <<linearized, st>>
    <3>1. Len(sk) \in 0 .. Len(sk) /\ Reg(sk, s, Len(sk)) = s
      BY <1>2 DEF Reg
    <3> QED
      BY <1>2, <2>2, <3>1
  <2> QED
    BY <1>1, <2>1, <2>2
<1>5. Passed(h, k, sk, s, Len(sk), 1)
  BY <1>2 DEF Passed
<1>6. Remaining' = Remaining
  BY <1>1 DEF Remaining, KeyOps
<1>7. Looping'
  BY <1>1, <1>2, <1>4, <1>5, <1>6 DEF Looping
<1>8. KeysDone' /\ Searching'
  BY <1>1 DEF SearchInv, KeysDone, Searching
<1> QED
  BY <1>1, <1>7, <1>8 DEF SearchInv, Recording, Entering, Verdicts

LEMMA LinearizeStep ==
  ASSUME SearchInv, Linearize
  PROVE  SearchInv'
<1>1. PICK i : i = Min(Candidates)
  OBVIOUS
<1>2. /\ mode = "loop" /\ Candidates # {} /\ mode' = "enter"
      /\ stack' = Append(stack, [op |-> i, old |-> st]) /\ linearized' = linearized \cup {i}
      /\ st' = ApplyOp(st, history[i].cmd).reg
      /\ history' = history /\ clock' = clock /\ todo' = todo /\ key' = key
      /\ visited' = visited /\ next' = next /\ verdict' = verdict
  BY <1>1 DEF Linearize
<1>3. PICK h, k, sk, s :
        /\ h = history /\ k = key /\ sk = stack /\ s = st
        /\ HistoryOK(h) /\ k \in Key /\ Path(h, k, sk, s) /\ AllPassed(h, k, sk, s)
        /\ Len(sk) \in Nat /\ linearized = Chosen(sk, Len(sk))
        /\ KeyOps \ linearized = Left(h, k, sk, Len(sk))
        /\ Remaining = {j \in Left(h, k, sk, Len(sk)) : h[j].complete}
        /\ Left(h, k, sk, Len(sk)) \subseteq DOMAIN h /\ DOMAIN h \subseteq Nat \ {0}
  BY <1>2, SearchTerms, Zenon
<1> DEFINE n == Len(sk)
           S == Left(h, k, sk, n)
           Timely(j) == \A c \in S : h[c].complete => h[j].invoke <= h[c].response
<1>4. Memo(h, k, sk, s, visited, n) /\ next \in Nat /\ Passed(h, k, sk, s, n, next)
  BY <1>2, <1>3 DEF SearchInv, Looping
<1>5. Candidates = {j \in S : j >= next /\ Timely(j) /\ Fits(h, s, j)}
  BY <1>3 DEF Candidates, InTime, Fits
<1>6. Candidates \in SUBSET Nat
  BY <1>3, <1>5
<1>7. i \in Candidates /\ \A j \in Candidates : i <= j
  BY <1>1, <1>2, <1>6, LeastNat, Zenon
<1>8. i \in S /\ i >= next /\ Timely(i) /\ Fits(h, s, i) /\ i \in DOMAIN h /\ i \in Nat
  BY <1>3, <1>5, <1>7
<1>9. Passed(h, k, sk, s, n, i)
  <2>1. Reg(sk, s, n) = s
    BY DEF Reg
  <2> SUFFICES ASSUME NEW j \in S, j < i, Begins(h, S, s, j) PROVE FALSE
    BY <2>1 DEF Passed
  <2>2. Timely(j) /\ Fits(h, s, j) /\ j \in Nat
    BY <1>3, WhatBegins
  <2>3. j >= next
    BY <1>4, <2>1, <2>2 DEF Passed
  <2>4. j \in Candidates
    BY <1>5, <2>2, <2>3
  <2> QED
    BY <1>7, <1>8, <2>2, <2>4
<1> DEFINE sk2 == Append(sk, [op |-> i, old |-> s])
           s2 == Then(h, s, i)
<1>10. /\ Agree(sk, s, sk2, s2, n) /\ Path(h, k, sk2, s2)
       /\ Len(sk2) = n + 1 /\ sk2[n + 1].op = i
       /\ Chosen(sk2, n + 1) = Chosen(sk, n) \cup {i}
  BY <1>3, <1>8, PathPush
<1>11. stack' = sk2 /\ st' = s2
  BY <1>2, <1>3 DEF Then
<1> HIDE DEF sk2, s2
<1>12. Memo(h, k, sk2, s2, visited, n)
  <2>1. PICK seen : seen = visited
    OBVIOUS
  <2>2. n \in -1 .. n
    BY <1>3
  <2> QED
    BY <1>4, <1>10, <2>1, <2>2, AgreeKeeps
<1>13. AllPassed(h, k, sk2, s2)
  <2> SUFFICES ASSUME NEW m \in 0 .. n PROVE Passed(h, k, sk2, s2, m, sk2[m + 1].op)
    BY <1>3, <1>10 DEF AllPassed
  <2>1. CASE m = n
    BY <1>9, <1>10, <2>1, PassedKeeps
  <2>2. CASE m # n
    <3>1. m \in 0 .. n - 1 /\ m + 1 \in 1 .. n
      BY <1>3, <2>2
    <3>2. sk2[m + 1] = sk[m + 1]
      BY <1>10, <3>1 DEF Agree
    <3>3. Passed(h, k, sk, s, m, sk[m + 1].op)
      BY <1>3, <3>1 DEF AllPassed
    <3> QED
      BY <1>10, <3>2, <3>3, PassedKeeps
  <2> QED
    BY <2>1, <2>2
<1>14. (n + 1) - 1 = n
  BY <1>3
<1>15. Searching' /\ Entering'
  BY <1>2, <1>3, <1>10, <1>11, <1>12, <1>13, <1>14 DEF Searching, Entering
<1>16. KeysDone'
  BY <1>2 DEF SearchInv, KeysDone
<1> QED
  BY <1>2, <1>15, <1>16 DEF SearchInv, Recording, Looping, Verdicts

\* A call that returns false has nothing to explain.
LEMMA DeadEnd ==
  ASSUME SearchInv, ReturnFalse
  PROVE  Dead(history, key, linearized, st)
<1>1. mode \in {"enter", "loop"}
  BY DEF ReturnFalse
<1>2. PICK h, k, sk, s :
        /\ h = history /\ k = key /\ sk = stack /\ s = st
        /\ HistoryOK(h) /\ k \in Key /\ Path(h, k, sk, s) /\ AllPassed(h, k, sk, s)
        /\ Len(sk) \in Nat /\ linearized = Chosen(sk, Len(sk))
        /\ KeyOps \ linearized = Left(h, k, sk, Len(sk))
        /\ Remaining = {j \in Left(h, k, sk, Len(sk)) : h[j].complete}
        /\ Left(h, k, sk, Len(sk)) \subseteq DOMAIN h /\ DOMAIN h \subseteq Nat \ {0}
  BY <1>1, SearchTerms, Zenon
<1> DEFINE n == Len(sk)
           S == Left(h, k, sk, n)
<1>3. CASE mode = "enter"
  <2>1. <<Chosen(sk, n), s>> \in visited /\ Memo(h, k, sk, s, visited, n - 1)
    BY <1>2, <1>3 DEF ReturnFalse, Seen, SearchInv, Entering
  <2> SUFFICES ASSUME NEW m \in 0 .. n - 1, Chosen(sk, m) = Chosen(sk, n) PROVE FALSE
    BY <1>2, <2>1 DEF Memo
  <2>2. n \in 1 .. n /\ m \in Nat /\ \A a \in 1 .. m : a \in 1 .. n /\ a # n
    BY <1>2
  <2>3. sk[n].op \in Chosen(sk, n)
    BY <2>2 DEF Chosen
  <2>4. PICK a \in 1 .. m : sk[a].op = sk[n].op
    BY <2>3 DEF Chosen
  <2> QED
    BY <1>2, <2>2, <2>4, PathFacts
<1>4. CASE mode = "loop"
  <2>1. /\ Candidates = {} /\ Remaining # {} /\ next \in Nat
        /\ Passed(h, k, sk, s, n, next)
    BY <1>2, <1>4 DEF ReturnFalse, SearchInv, Looping
  <2>2. PICK b \in Nat : b = next
    BY <2>1
  <2>3. Passed(h, k, sk, s, n, b)
    BY <2>1, <2>2
  <2>4. PICK j \in S : h[j].complete
    BY <1>2, <2>1
  <2>5. ASSUME NEW i \in S, Fits(h, s, i), \A c \in S : h[c].complete => h[i].invoke <= h[c].response
        PROVE  i < b
    <3>1. ~(i >= next)
      BY <1>2, <2>1, <2>5 DEF Candidates, InTime, Fits
    <3>2. i \in Nat
      BY <1>2
    <3> QED
      BY <2>2, <3>1, <3>2
  <2>6. Dead(h, k, Chosen(sk, n), s)
    BY <1>2, <2>3, <2>4, <2>5, NothingLeftToTry
  <2> QED
    BY <1>2, <2>6
<1> QED
  BY <1>1, <1>3, <1>4

LEMMA ReturnFalseStep ==
  ASSUME SearchInv, ReturnFalse
  PROVE  SearchInv'
<1>1. /\ mode \in {"enter", "loop"} /\ history' = history /\ clock' = clock /\ todo' = todo
  BY DEF ReturnFalse
<1>2. PICK h, k, sk, s :
        /\ h = history /\ k = key /\ sk = stack /\ s = st
        /\ HistoryOK(h) /\ k \in Key /\ Path(h, k, sk, s) /\ AllPassed(h, k, sk, s)
        /\ Len(sk) \in Nat /\ linearized = Chosen(sk, Len(sk))
        /\ KeyOps \ linearized = Left(h, k, sk, Len(sk))
        /\ Remaining = {j \in Left(h, k, sk, Len(sk)) : h[j].complete}
        /\ Left(h, k, sk, Len(sk)) \subseteq DOMAIN h /\ DOMAIN h \subseteq Nat \ {0}
  BY <1>1, SearchTerms, Zenon
<1>3. Dead(h, k, Chosen(sk, Len(sk)), s)
  BY <1>2, DeadEnd
<1>4. CASE stack = <<>>
  <2>1. mode' = "done" /\ verdict' = "violation"
    BY <1>4 DEF ReturnFalse
  <2>2. Chosen(sk, Len(sk)) = {} /\ s = Absent
    BY <1>2, <1>4 DEF Chosen, Path, Reg
  <2>3. ~KeyExplained(h, k)
    BY <1>3, <2>2 DEF Dead, KeyExplained
  <2>4. ~AllKeysExplained(h)
    BY <1>2, <2>3 DEF AllKeysExplained
  <2> QED
    BY <1>1, <1>2, <2>1, <2>4
    DEF SearchInv, Recording, KeysDone, Searching, Entering, Looping, Verdicts
<1>5. CASE stack # <<>>
  <2>1. PICK n \in Nat : Len(sk) = n + 1
    <3>1. Len(sk) # 0
      BY <1>2, <1>5, EmptySeq DEF Path
    <3>2. Len(sk) - 1 \in Nat /\ Len(sk) = (Len(sk) - 1) + 1
      BY <1>2, <3>1
    <3> QED
      BY <3>2
  <2> DEFINE sk2 == SubSeq(sk, 1, n)
             s2 == sk[n + 1].old
             i == sk[n + 1].op
  <2>2. /\ Agree(sk, s, sk2, s2, n) /\ Path(h, k, sk2, s2) /\ Len(sk2) = n
        /\ Chosen(sk, n + 1) \ {i} = Chosen(sk2, n) /\ i \in Left(h, k, sk2, n)
        /\ Left(h, k, sk, n + 1) = Left(h, k, sk2, n) \ {i}
        /\ Reg(sk, s, n + 1) = Then(h, Reg(sk2, s2, n), i)
    BY <1>2, <2>1, PathPop
  <2>3. /\ mode' = "loop" /\ stack' = sk2 /\ linearized' = linearized \ {i} /\ st' = s2
        /\ next' = i + 1 /\ key' = key /\ visited' = visited /\ verdict' = verdict
    <3>1. (n + 1) - 1 = n
      OBVIOUS
    <3> QED
      BY <1>2, <1>5, <2>1, <3>1 DEF ReturnFalse
  <2> HIDE DEF sk2, s2
  <2>4. i \in Nat
    BY <1>2, <2>1, PathFacts DEF OpsOn
  <2>5. linearized' = Chosen(sk2, Len(sk2))
    BY <1>2, <2>1, <2>2, <2>3
  <2>6. Passed(h, k, sk2, s2, n, i + 1)
    <3> DEFINE S == Left(h, k, sk2, n)
    <3>1. Passed(h, k, sk2, s2, n, i)
      <4>1. n \in 0 .. Len(sk) - 1 /\ n \in 0 .. n
        BY <2>1
      <4>2. Passed(h, k, sk, s, n, i)
        BY <1>2, <4>1 DEF AllPassed
      <4> QED
        BY <2>2, <4>1, <4>2, PassedKeeps
    <3>2. ~Begins(h, S, Reg(sk2, s2, n), i)
      <4>1. s = Reg(sk, s, n + 1)
        BY <2>1 DEF Reg
      <4>2. ~Explained(h, S \ {i}, Then(h, Reg(sk2, s2, n), i))
        BY <1>3, <2>1, <2>2, <4>1 DEF Dead, Left
      <4>3. S \in SUBSET DOMAIN h
        BY DEF Left, OpsOn
      <4> QED
        BY <1>2, <4>2, <4>3, WhatBegins
    <3>3. \A j \in S : j \in Nat
      BY <1>2 DEF Left, OpsOn
    <3>4. \A j \in S : j < i + 1 => j < i \/ j = i
      BY <2>4, <3>3
    <3> QED
      BY <3>1, <3>2, <3>4 DEF Passed
  <2>7. AllPassed(h, k, sk2, s2)
    <3> SUFFICES ASSUME NEW m \in 0 .. n - 1 PROVE Passed(h, k, sk2, s2, m, sk2[m + 1].op)
      BY <2>2 DEF AllPassed
    <3>1. m \in 0 .. Len(sk) - 1 /\ m \in 0 .. n /\ m + 1 \in 1 .. n
      BY <2>1
    <3>2. sk2[m + 1] = sk[m + 1]
      BY <2>2, <3>1 DEF Agree
    <3>3. Passed(h, k, sk, s, m, sk[m + 1].op)
      BY <1>2, <3>1 DEF AllPassed
    <3> QED
      BY <2>2, <3>1, <3>2, <3>3, PassedKeeps
  <2>8. Memo(h, k, sk2, s2, visited, n)
    <3>1. PICK seen : seen = visited
      OBVIOUS
    <3>2. Memo(h, k, sk, s, seen, n) \/ Memo(h, k, sk, s, seen, n + 1)
      <4>1. CASE mode = "enter"
        BY <1>2, <2>1, <3>1, <4>1 DEF SearchInv, Entering
      <4>2. CASE mode = "loop"
        BY <1>2, <2>1, <3>1, <4>2 DEF SearchInv, Looping
      <4> QED
        BY <1>1, <4>1, <4>2
    <3>3. Memo(h, k, sk, s, seen, n)
      <4> SUFFICES ASSUME Memo(h, k, sk, s, seen, n + 1), NEW p \in seen
                   PROVE  \/ Dead(h, k, p[1], p[2])
                          \/ \E m \in 0 .. n : p = <<Chosen(sk, m), Reg(sk, s, m)>>
        BY <3>2 DEF Memo
      <4> SUFFICES ASSUME NEW m \in 0 .. n + 1, p = <<Chosen(sk, m), Reg(sk, s, m)>>
                   PROVE  \/ Dead(h, k, p[1], p[2])
                          \/ \E a \in 0 .. n : p = <<Chosen(sk, a), Reg(sk, s, a)>>
        BY DEF Memo
      <4>1. m \in 0 .. n \/ m = n + 1
        OBVIOUS
      <4>2. CASE m = n + 1
        BY <1>3, <2>1, <4>2 DEF Reg
      <4> QED
        BY <4>1, <4>2
    <3>4. n \in -1 .. n
      OBVIOUS
    <3> QED
      BY <2>2, <3>1, <3>3, <3>4, AgreeKeeps
  <2>9. Remaining' # {}
    <3>1. Remaining # {}
      BY DEF ReturnFalse, SearchInv, Looping
    <3>2. linearized' \subseteq linearized
      BY <2>3
    <3>3. Remaining \subseteq Remaining'
      BY <1>1, <2>3, <3>2 DEF Remaining, KeyOps
    <3> QED
      BY <3>1, <3>3
  <2>10. Searching'
    BY <1>1, <1>2, <2>2, <2>3, <2>5, <2>7 DEF Searching
  <2>11. Looping'
    <3>1. next' \in Nat
      BY <2>3, <2>4
    <3> QED
      BY <1>1, <1>2, <2>2, <2>3, <2>6, <2>8, <2>9, <3>1 DEF Looping
  <2>12. KeysDone'
    BY <1>1, <2>3 DEF SearchInv, KeysDone
  <2> QED
    BY <1>1, <2>3, <2>10, <2>11, <2>12 DEF SearchInv, Recording, Entering, Verdicts
<1> QED
  BY <1>4, <1>5

LEMMA AllKeysFineStep ==
  ASSUME SearchInv, AllKeysFine
  PROVE  SearchInv'
<1>1. /\ mode = "pick" /\ todo = {} /\ mode' = "done" /\ verdict' = "linearizable"
      /\ history' = history /\ clock' = clock
  BY DEF AllKeysFine
<1>2. AllKeysExplained(history')
  BY <1>1 DEF SearchInv, KeysDone, AllKeysExplained
<1> QED
  BY <1>1, <1>2 DEF SearchInv, Recording, KeysDone, Searching, Entering, Looping, Verdicts

LEMMA NextInv ==
  ASSUME SearchInv, [Next]_vars
  PROVE  SearchInv'
<1> USE DEF SearchInv
<1>1. CASE Tick
  <2>1. clock \in Nat /\ clock' = clock + 1 /\ HistoryOK(history) /\ history' = history
    BY <1>1 DEF Tick, Recording
  <2>2. HistoryOK(history') /\ clock' \in Nat
    BY <2>1
  <2>3. mode = "record" /\ mode' = "record" /\ verdict' = verdict
    BY <1>1 DEF Tick
  <2> QED
    BY <2>2, <2>3, RecordStep
<1>2. ASSUME NEW c \in Client, NEW op \in {"Get", "Put", "CAS"}, NEW k \in Key,
             NEW e \in OptValue, Invoke(c, op, k, e)
      PROVE  SearchInv'
  <2>1. HistoryOK(history')
    BY <1>2, InvokeOK
  <2>2. mode = "record" /\ mode' = "record" /\ verdict' = verdict /\ clock' = clock /\ clock \in Nat
    BY <1>2 DEF Invoke, Recording
  <2> QED
    BY <2>1, <2>2, RecordStep
<1>3. CASE \E c \in Client, op \in {"Get", "Put"}, k \in Key : Invoke(c, op, k, NoValue)
  <2>1. NoValue \in OptValue
    BY DEF OptValue
  <2> QED
    BY <1>2, <1>3, <2>1
<1>4. CASE \E c \in Client, k \in Key : \E e \in Written(k) \cup {NoValue} : Invoke(c, "CAS", k, e)
  <2>1. PICK c \in Client, k \in Key : \E e \in Written(k) \cup {NoValue} : Invoke(c, "CAS", k, e)
    BY <1>4
  <2>2. Written(k) \cup {NoValue} \subseteq OptValue
    <3>1. NoValue \in OptValue
      BY DEF OptValue
    <3> QED
      BY <3>1, WrittenType DEF Recording
  <2> QED
    BY <1>2, <2>1, <2>2
<1>5. CASE \E i \in DOMAIN history : \E r \in Answers(history[i].cmd) : Respond(i, r)
  <2>1. PICK i \in DOMAIN history : \E r \in Answers(history[i].cmd) : Respond(i, r)
    BY <1>5
  <2>2. PICK r \in Answers(history[i].cmd) : Respond(i, r)
    BY <2>1
  <2>3. HistoryOK(history')
    BY <2>2, RespondOK
  <2>4. mode = "record" /\ mode' = "record" /\ verdict' = verdict /\ clock' = clock /\ clock \in Nat
    BY <2>2 DEF Respond, Recording
  <2> QED
    BY <2>3, <2>4, RecordStep
<1>6. CASE StartCheck
  BY <1>6, StartCheckStep
<1>7. CASE \E k \in Key : PickKey(k)
  BY <1>7, PickKeyStep
<1>8. CASE KeyIsFine
  BY <1>8, KeyIsFineStep
<1>9. CASE Enter
  BY <1>9, EnterStep
<1>10. CASE Linearize
  BY <1>10, LinearizeStep
<1>11. CASE ReturnFalse
  BY <1>11, ReturnFalseStep
<1>12. CASE AllKeysFine
  BY <1>12, AllKeysFineStep
<1>13. CASE UNCHANGED vars
  BY <1>13 DEF vars, Recording, KeysDone, Searching, Entering, Looping, Verdicts, Remaining, KeyOps
<1> QED
  BY <1>1, <1>3, <1>4, <1>5, <1>6, <1>7, <1>8, <1>9, <1>10, <1>11, <1>12, <1>13 DEF Next

LEMMA InvMeans ==
  ASSUME SearchInv
  PROVE  AcceptsOnlyLinearizable /\ RejectsOnlyIllegal
<1>1. Linearizable <=> AllKeysExplained(history)
  BY LinearizableByKey DEF SearchInv, Recording
<1> QED
  BY <1>1 DEF SearchInv, Verdicts, AcceptsOnlyLinearizable, RejectsOnlyIllegal

THEOREM SearchInvariant == Spec => []SearchInv
<1>1. SearchInv /\ [Next]_vars => SearchInv'
  BY NextInv
<1> QED
  BY InitInv, <1>1, PTL DEF Spec

\* A history that the checker accepts is linearizable: its search of the keys
\* one by one, with its memo and its cut at the earliest response, is sound for
\* any number of clients, keys and operations (CheckLinearizable, checkKey).
THEOREM AcceptedIsLinearizable == Spec => []AcceptsOnlyLinearizable
<1>1. SearchInv => AcceptsOnlyLinearizable
  BY InvMeans
<1> QED
  BY SearchInvariant, <1>1, PTL

\* A history that the checker rejects is not linearizable: the search leaves
\* no order out, one that makes use of incomplete operations included.
THEOREM RejectedIsIllegal == Spec => []RejectsOnlyIllegal
<1>1. SearchInv => RejectsOnlyIllegal
  BY InvMeans
<1> QED
  BY SearchInvariant, <1>1, PTL

=============================================================================
