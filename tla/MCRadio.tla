------------------------------ MODULE MCRadio ------------------------------
(***************************************************************************)
(* Small instances for TLC: two pipes, three devices of which two have the *)
(* same lowest byte, matrices that swap two devices between the pipes.     *)
(***************************************************************************)
EXTENDS Radio

CONSTANTS a, b, c

Devices == {a, b, c}
Bytes   == [d \in Devices \cup {Nobody} |-> CASE d = a -> 1 [] d = Nobody -> 255 [] OTHER -> 2]
Uppers  == [d \in Devices \cup {Nobody} |-> CASE d = c -> 2 [] d = Nobody -> 255 [] OTHER -> 1]

AB == <<a, b>>
BA == <<b, a>>
BC == <<b, c>>      \* the same lowest byte twice
AC == <<a, c>>      \* different upper bytes

All     == {AB, BC, AC, Short}
Swap    == {AB, BA}
One     == {1}
UpToTwo == 0..2
=============================================================================
