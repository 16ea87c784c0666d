----------------------------- MODULE MCRouting -----------------------------
(* Values of the constants of Routing for TLC.                             *)
EXTENDS Routing

CONSTANTS c1, c2, c3

T(b1, b2, b3, b4) == <<b1, b2, b3, b4>>
Ask(kind, tid, exb) == [kind |-> kind, tid |-> tid, exb |-> exb]

MCFds == {3, 4}
OneFd == {3}

\* Clients that keep to the rules no reader of the code could miss: a small
\* transaction of their own, the same in both headers.
Own(c) == CASE c = c1 -> T(0, 0, 0, 1) [] c = c2 -> T(0, 0, 1, 0)
            [] c = c3 -> T(0, 0, 1, 1)
DisciplinedRequests ==
  [c \in Clients |-> {Ask(k, Own(c), Own(c)) : k \in {"transmit", "matrix"}}]
\* One client uses the radio and sends packets the driver knows nothing of, one
\* sends matrices, one only listens.
MixedRequests ==
  [c \in Clients |-> CASE c = c1 -> {Ask(k, Own(c), Own(c)) : k \in {"transmit", "other"}}
                       [] c = c2 -> {Ask("matrix", Own(c), Own(c))}
                       [] c = c3 -> {}]
\* One client only listens, the other uses the radio and sends matrices.
PlainRequests ==
  [c \in Clients |-> IF c = c1 THEN {}
                     ELSE {Ask(k, Own(c), Own(c)) : k \in {"transmit", "matrix"}}]

Once  == [c \in Clients |-> 1]
Twice == [c \in Clients |-> IF c = c2 THEN 2 ELSE 1]   \* c2 does not wait
=============================================================================
