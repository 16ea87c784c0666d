------------------------------ MODULE SoStream ------------------------------
(***************************************************************************)
(* The parser of SoReceiver_thread (so_receiver.c): it reads the socket of *)
(* a client byte by byte into a ring, looks for the preamble, then for a   *)
(* header, then for the body whose length the header gives, and hands the  *)
(* packet to gate_in.                                                      *)
(*                                                                         *)
(* A byte is a small number.  The fields of the header, the transaction,   *)
(* the type and the length, are one byte each here and 4, 1 and 2 in the   *)
(* code; the preamble is a constant whose first byte does not occur again  *)
(* in it, as 3F AA AA AA AA AA AA AA has it.                               *)
(***************************************************************************)
EXTENDS RingOps, FiniteSets

CONSTANTS
    Preamble,    \* the bytes of WSD_PREAMBLE
    Size,        \* RING_BUFFER_SIZE
    Junk,        \* what malloc may find in the buffer of the ring
    Frame,       \* the packets the client sends: [tid, action, data]
    Noise,       \* the bytes it may write between two packets
    MaxFrames

HeaderSize   == 3
PreambleSize == Len(Preamble)

ASSUME SoStreamAssumption ==
    /\ Preamble \in Seq(Nat) /\ PreambleSize > 0
    /\ \A i \in 2..PreambleSize : Preamble[i] # Preamble[1]
    /\ Size \in Nat /\ Size > PreambleSize /\ Size > HeaderSize
    /\ CounterSize \in Nat /\ Size < CounterSize
    /\ \A junk \in Junk : junk \in [0..(Size - 1) -> Nat]
    /\ \A f \in Frame : f \in [tid : Nat, action : Nat, data : Seq(Nat)]
    /\ \A w \in Noise : w \in Seq(Nat)
    /\ MaxFrames \in Nat

VARIABLES
    stream,      \* bytes written to the socket and not read yet
    open,        \* has the client not hung up?
    sent,        \* packets the client has written
    noisy,       \* has it written noise since the last packet?
    alive, inBuf, mode, packet,   \* the thread's own
    downQueue    \* packets handed to gate_in

client   == <<stream, open, sent, noisy>>
receiver == <<alive, inBuf, mode, packet>>
vars     == <<stream, open, sent, noisy, alive, inBuf, mode, packet, downQueue>>

NoPacket == [tid |-> 0, type |-> 0, length |-> 0]

Init ==
    /\ stream = <<>> /\ open = TRUE /\ sent = <<>> /\ noisy = FALSE
    /\ alive = TRUE
    /\ inBuf \in {CreateRingBuffer(Size, junk) : junk \in Junk}
    /\ mode = "preamble"
    /\ packet = NoPacket
    /\ downQueue = <<>>

-----------------------------------------------------------------------------
(* The client.                                                             *)

Encode(f) == Preamble \o <<f.tid, f.action, Len(f.data)>> \o f.data

ClientSend(f) ==
    /\ open /\ Len(sent) < MaxFrames
    /\ stream' = stream \o Encode(f)
    /\ sent' = Append(sent, f)
    /\ noisy' = FALSE
    /\ UNCHANGED <<open, receiver, downQueue>>

ClientNoise(bytes) ==
    /\ open /\ ~noisy
    /\ stream' = stream \o bytes
    /\ noisy' = TRUE
    /\ UNCHANGED <<open, sent, receiver, downQueue>>

(***************************************************************************)
(* The client ends, in the middle of a packet if it likes.                 *)
(***************************************************************************)
HangUp(f) ==
    /\ open /\ open' = FALSE
    /\ \E n \in 0..(Len(Encode(f)) - 1) : stream' = stream \o SubSeq(Encode(f), 1, n)
    /\ UNCHANGED <<sent, noisy, receiver, downQueue>>

-----------------------------------------------------------------------------
(* The thread.  r is the ring with the byte just read in it.               *)

(***************************************************************************)
(* The preamble may end at any byte.  BadHuntPreamble leaves it in the     *)
(* ring.                                                                   *)
(***************************************************************************)
PreambleEnds(r) ==
    /\ DataLenght(r) >= PreambleSize
    /\ CmpData(r, DataLenght(r) - PreambleSize, Preamble)

BadHuntPreamble(r) ==
    /\ mode = "preamble"
    /\ inBuf' = r
    /\ mode' = IF PreambleEnds(r) THEN "header" ELSE mode
    /\ UNCHANGED <<packet, downQueue>>

HuntPreamble(r) ==
    /\ mode = "preamble"
    /\ IF PreambleEnds(r)
       THEN inBuf' = DataClear(r) /\ mode' = "header"
       ELSE inBuf' = r /\ UNCHANGED mode
    /\ UNCHANGED <<packet, downQueue>>

ParseHeader(r) ==
    /\ mode = "header"
    /\ IF DataLenght(r) >= HeaderSize
       THEN LET h == Contents(r)
            IN  /\ packet' = [tid |-> h[1], type |-> h[2], length |-> h[3]]
                /\ inBuf' = ReadAll(r)
                /\ mode' = "body"
       ELSE inBuf' = r /\ UNCHANGED <<packet, mode>>
    /\ UNCHANGED downQueue

(***************************************************************************)
(* The element holds the sbody bytes it was allocated for.                 *)
(***************************************************************************)
ParseBody(r) ==
    /\ mode = "body"
    /\ IF DataLenght(r) >= packet.length
       THEN /\ downQueue' = Append(downQueue,
                   [tid |-> packet.tid, action |-> packet.type,
                    data |-> SubSeq(Contents(r), 1, packet.length)])
            /\ inBuf' = ReadAll(r)
            /\ mode' = "preamble"
       ELSE inBuf' = r /\ UNCHANGED <<downQueue, mode>>
    /\ UNCHANGED packet

ReadByte ==
    /\ alive /\ stream # <<>>
    /\ stream' = Tail(stream)
    /\ LET r == Write(inBuf, Head(stream))
       IN  HuntPreamble(r) \/ ParseHeader(r) \/ ParseBody(r)
    /\ UNCHANGED <<open, sent, noisy, alive>>

(***************************************************************************)
(* read() returns 0: the ring and the packet go with the thread.           *)
(***************************************************************************)
ReadEnd ==
    /\ alive /\ stream = <<>> /\ ~open
    /\ alive' = FALSE
    /\ UNCHANGED <<client, inBuf, mode, packet, downQueue>>

-----------------------------------------------------------------------------
Next ==
    \/ \E f \in Frame : ClientSend(f) \/ HangUp(f)
    \/ \E bytes \in Noise : ClientNoise(bytes)
    \/ ReadByte \/ ReadEnd

(***************************************************************************)
(* The thread reads what there is; nothing makes the client write.         *)
(***************************************************************************)
Spec == Init /\ [][Next]_vars /\ WF_vars(ReadByte \/ ReadEnd)
-----------------------------------------------------------------------------
(* Properties.                                                             *)

(***************************************************************************)
(* Every variable has its shape; the ring's positions stay in its buffer.  *)
(***************************************************************************)
TypeOK ==
    /\ stream \in Seq(Nat) /\ open \in BOOLEAN /\ alive \in BOOLEAN
    /\ sent \in Seq(Frame) /\ noisy \in BOOLEAN
    /\ inBuf \in [buffer : [0..(Size - 1) -> Nat], reader : 0..(Size - 1),
                  writer : 0..(Size - 1), size : {Size}]
    /\ mode \in {"preamble", "header", "body"}
    /\ packet \in [tid : Nat, type : Nat, length : Nat]
    /\ downQueue \in Seq([tid : Nat, action : Nat, data : Seq(Nat)])

(***************************************************************************)
(* The parser is a channel for packets: whatever noise that holds no       *)
(* preamble and that the counters reach across precedes a packet, however  *)
(* the buffer turns over and wherever the client ends, gate_in is handed    *)
(* the packets that were written, whole, in order, and all of them         *)
(* (so_receiver.c:20).                                                     *)
(***************************************************************************)
Channel == INSTANCE FrameChannel WITH delivered <- downQueue
IsChannel == Channel!Spec

(***************************************************************************)
(* For packets that the ring can hold and that have a body, and noise in   *)
(* which there is no preamble and that is InReach.                         *)
(***************************************************************************)
Occurs(bytes, k, w) ==
    /\ k + Len(w) <= Len(bytes)
    /\ \A i \in 1..Len(w) : bytes[k + i] = w[i]

(***************************************************************************)
(* n bytes before a preamble: a counter holds the place of the preamble    *)
(* wherever the reader is.  For n of the length of the ring and more the   *)
(* ring is full of them.  The ring of so_receiver.c is one smaller than    *)
(* the values of a counter, so n is 0 or 1 there.                          *)
(***************************************************************************)
InReach(n) ==
    \/ 2 * Size - PreambleSize <= CounterSize + 1
    \/ Size + n <= CounterSize

Tidy ==
    /\ \A f \in Frame : Len(f.data) \in 1..(Size - 1)
    /\ \A w \in Noise : /\ \A k \in 0..Len(w) : ~Occurs(w, k, Preamble)
                        /\ InReach(Len(w))

-----------------------------------------------------------------------------
(* What a comment says and the code does not do (README, section 5).       *)

(***************************************************************************)
(* When everything a client wrote has been read, every packet of it has    *)
(* been placed in the queue to gate_in (so_receiver.c:20).                 *)
(***************************************************************************)
Disassembled == stream = <<>> => downQueue = sent
=============================================================================
