---------------------------- MODULE FrameChannel ----------------------------
(***************************************************************************)
(* What a stream of bytes that carries frames promises: every frame that   *)
(* was sent is delivered, once, whole, and in its turn.  The parsers of    *)
(* so_receiver.c (SoStream) and of gate_out.c (GateOutStream) are shown to *)
(* implement it.                                                           *)
(***************************************************************************)
EXTENDS Naturals, Sequences

CONSTANT Frame

VARIABLES sent, delivered

vars == <<sent, delivered>>

Init == sent = <<>> /\ delivered = <<>>

Send(f) ==
    /\ sent' = Append(sent, f)
    /\ UNCHANGED delivered

Deliver ==
    /\ Len(delivered) < Len(sent)
    /\ delivered' = Append(delivered, sent[Len(delivered) + 1])
    /\ UNCHANGED sent

Next == Deliver \/ \E f \in Frame : Send(f)

Safety == Init /\ [][Next]_vars

Spec == Safety /\ WF_vars(Deliver)
=============================================================================
