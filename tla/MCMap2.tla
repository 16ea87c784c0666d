------------------------------- MODULE MCMap2 -------------------------------
(***************************************************************************)
(* Small maps for TLC: three connections on three descriptors, or three    *)
(* transactions, in four cells of memory.                                  *)
(***************************************************************************)
EXTENDS Map2, TLC

CONSTANTS r1, r2, r3, k1, k2, k3, c1, c2, c3, c4

AllReceivers == {r1, r2, r3}
AllKeys      == {k1, k2, k3}
AllCells     == {c1, c2, c3, c4}
BothUses     == {"glob", "tid"}

Symmetry == Permutations(AllReceivers) \cup Permutations(AllKeys) \cup Permutations(AllCells)
=============================================================================
