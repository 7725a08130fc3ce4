-------------------------- MODULE MCLinearizability --------------------------
(***************************************************************************)
(* Instances of Linearizability for TLC.                                   *)
(***************************************************************************)
EXTENDS Linearizability, TLC

MCClient == 1 .. 3

MCKinds == [c \in Client |-> CASE c = 1 -> {"Put"}
                               [] c = 2 -> {"Put", "CAS"}
                               [] c = 3 -> {"Get", "CAS"}]

SymmetricKeys == Permutations(Key)
==============================================================================
