----------------------------- MODULE MCSoStream -----------------------------
(***************************************************************************)
(* Small instances for TLC.  The ring of eight bytes holds seven: a body   *)
(* of four turns it over, one of eight does not fit.                       *)
(***************************************************************************)
EXTENDS SoStream

TwoBytes   == <<3, 1>>
Junks      == {[i \in 0..7 |-> 1], [i \in 0..7 |-> IF i % 2 = 0 THEN 3 ELSE 1]}

Of(action, data) == [tid |-> 1, action |-> action, data |-> data]

(* Bodies that begin, end or are filled with the bytes of a preamble. *)
Frames     == {Of(0, <<3, 1>>), Of(3, <<1>>), Of(0, <<1, 3, 1, 3>>)}

Noises     == {<<3>>, <<3, 3>>, <<1, 1, 1>>, <<2, 3, 2, 3, 2, 3, 2, 3, 2>>}

ASSUME TidyInstance == Tidy
=============================================================================
