------------------------------- MODULE MCLbq -------------------------------
(***************************************************************************)
(* Small instances for TLC: two producers, a few nodes that are freed and  *)
(* allocated again.                                                        *)
(***************************************************************************)
EXTENDS Lbq

CONSTANTS p1, p2, i1, i2, n1, n2, n3, n4

TwoProducers == {p1, p2}
TwoItems     == {i1, i2}
FourNodes    == {n1, n2, n3, n4}
=============================================================================
