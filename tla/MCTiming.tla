------------------------------ MODULE MCTiming ------------------------------
(***************************************************************************)
(* Instances of Timing for TLC.                                            *)
(***************************************************************************)
EXTENDS Timing

CONSTANTS s1, s2, s3   \* servers

\* Every server usually draws another timeout.
Staggered ==
  [i \in Server |-> CASE i = s1 -> ElectionTicks
                      [] i = s2 -> ElectionTicks + 1
                      [] OTHER  -> ElectionTicks + 2]

\* Only one usually draws the shortest.
FirstShort == [i \in Server |-> IF i = s1 THEN ElectionTicks ELSE ElectionTicks + 1]

\* The slowest server may be cut off, the first or the second one, or none.
CutLast == {{s3}}
CutFirst == {{s1}}
CutSecond == {{s2}}
NoCut == {}
==============================================================================
