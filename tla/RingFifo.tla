------------------------------ MODULE RingFifo ------------------------------
(***************************************************************************)
(* What a ring with RINGS_OVERFLOW_SHIFT promises its caller, without      *)
(* positions: a queue of at most Capacity bytes that drops its oldest byte  *)
(* when a byte comes to a full queue, answers questions about the bytes it  *)
(* holds, and forgets bytes from either end.                               *)
(***************************************************************************)
EXTENDS Integers, Sequences

CONSTANTS Byte, Capacity

VARIABLES q, out

vars == <<q, out>>

(***************************************************************************)
(* The last call: its name, its arguments and the bytes it handed out.     *)
(***************************************************************************)
Did(op, args, bytes) == [op |-> op, args |-> args, bytes |-> bytes]

Init == q = <<>> /\ out = Did("none", <<>>, <<>>)

Put(b) == /\ q' = IF Len(q) = Capacity THEN Append(Tail(q), b) ELSE Append(q, b)
          /\ out' = Did("write", <<b>>, <<>>)

Get == /\ q # <<>>
       /\ q' = Tail(q)
       /\ out' = Did("read", <<>>, <<q[1]>>)

TakeAll == /\ q' = <<>>
           /\ out' = Did("readAll", <<>>, q)

Clear == /\ q' = <<>>
         /\ out' = Did("clear", <<>>, <<>>)

SkipFirst(n) == /\ q' = SubSeq(q, n + 1, Len(q))
                /\ out' = Did("shiftReader", <<n>>, <<>>)

SkipLast(n) == /\ q' = SubSeq(q, 1, Len(q) - n)
               /\ out' = Did("shiftWriter", <<-n>>, <<>>)

(***************************************************************************)
(* n bytes from the byte number first on.                                  *)
(***************************************************************************)
Look(op, args, first, n) ==
    /\ out' = Did(op, args, SubSeq(q, first, first + n - 1))
    /\ UNCHANGED q

(***************************************************************************)
(* Are the bytes after the first off those of data?                        *)
(***************************************************************************)
Compare(off, data) ==
    /\ out' = Did(IF SubSeq(q, off + 1, off + Len(data)) = data
                  THEN "equal" ELSE "differs", <<off>> \o data, <<>>)
    /\ UNCHANGED q

(***************************************************************************)
(* A call after which there is no other.                                   *)
(***************************************************************************)
Jam(op) == /\ out' = Did(op, <<>>, <<>>)
           /\ UNCHANGED q

Next ==
    \/ \E b \in Byte : Put(b)
    \/ Get \/ TakeAll \/ Clear
    \/ \E op \in {"start", "array"} : Jam(op)
    \/ \E n \in 0..Len(q) : SkipFirst(n) \/ SkipLast(n)
    \/ \E i \in 1..Len(q) : \/ Look("byReader", <<i - 1>>, i, 1)
                            \/ Look("byWriter", <<i - 1 - Len(q)>>, i, 1)
    \/ \E n \in 1..Len(q) : Look("range", <<n>>, 1, n)
    \/ \E off \in 0..(Len(q) - 1) : \E n \in 0..(Len(q) - off) :
          \/ Look("extract", <<off, n>>, off + 1, n)
          \/ \E data \in [1..n -> Byte] : Compare(off, data)

Spec == Init /\ [][Next]_vars
=============================================================================
