-------------------------- MODULE MCGateOutStream --------------------------
(***************************************************************************)
(* Small instances for TLC: fragments of seven bytes and a ring of sixteen *)
(* that holds two of them, so a packet of five bytes and its body takes    *)
(* one fragment or two, and a body of eleven bytes does not fit.           *)
(***************************************************************************)
EXTENDS GateOutStream

CONSTANTS e1, e2

TwoExbs == {e1, e2}

TwoBytes == <<9, 7>>
Junks    == {[i \in 0..15 |-> 7], [i \in 0..15 |-> IF i % 2 = 1 THEN 9 ELSE 7]}
Zeros    == {[i \in 0..15 |-> 0]}

Of(tid, type, data) == [tid |-> tid, type |-> type, data |-> data]

(* A response of two fragments whose body looks like a preamble, an event  *)
(* without a body, a response that fills two fragments, a TICK, and an     *)
(* event that is too long for the ring.                                    *)
Packets   == {Of(1, 1, <<5, 9, 7>>), Of(0, 3, <<>>), Of(1, 6, <<>>),
              Of(2, 1, <<9, 7, 9, 7, 9, 7, 9, 7, 9>>),
              Of(0, 3, <<5, 9, 7, 5, 5, 5, 5, 5, 5, 5, 5>>)}
Responses == {Of(1, 1, <<5, 5, 5>>), Of(2, 1, <<4, 4, 4>>)}

Both       == {TRUE, FALSE}
Disorderly == {FALSE}
=============================================================================
