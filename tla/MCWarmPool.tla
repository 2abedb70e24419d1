----------------------------- MODULE MCWarmPool -----------------------------
(****************************************************************************)
(* Small instances of WarmPool for TLC.                                     *)
(****************************************************************************)
EXTENDS WarmPool, TLC

CONSTANTS i1, i2, p1

OnePair == [i \in Instance |-> p1]

Symmetry == Permutations(Invocation)
=============================================================================
