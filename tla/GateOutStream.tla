--------------------------- MODULE GateOutStream ---------------------------
(***************************************************************************)
(* The parser of GateOut_thread (gate_out.c).  The radio brings fragments  *)
(* of a fixed size, each with the address of its sender; the thread writes *)
(* their bytes into one ring whoever sent them, looks for the preamble of  *)
(* an ExB packet, for its header and for its body, and queues the whole    *)
(* packet, preamble included, with the address of the last fragment.       *)
(*                                                                         *)
(* The preamble and the fields of the header are shorter than in the code, *)
(* in which they are 8, 4, 1 and 2 bytes, a fragment 32 and the ring 256;  *)
(* what matters is kept: a preamble and a header fit in a fragment with    *)
(* room to spare, and the ring holds a packet of several fragments.        *)
(***************************************************************************)
EXTENDS RingOps

CONSTANTS
    Preamble,    \* the bytes of EXB_PREAMBLE
    Size,        \* of the ring inBuf
    FragSize,    \* TX_PLOAD_WIDTH
    Junk,        \* what malloc may find in the buffer of the ring
    Exbs,        \* the addresses of the devices on the air
    Packet,      \* what they send: [tid, type, data]
    TickAddr,    \* the address rf_receiver.c gives its own fragment
    TickTail,    \* a byte that follows the packet in that fragment
    MaxPackets,  \* packets that all devices send together
    MaxTicks,
    Orders       \* may the air be orderly, disorderly or both?

EXB_TYPE_EVENT  == 3
EXB_TYPE_EVENTC == 4
EXB_TYPE_TICK   == 6

HeaderSize   == 3
PreambleSize == Len(Preamble)

ASSUME GateOutStreamAssumption ==
    /\ Preamble \in Seq(Nat) /\ PreambleSize > 0
    /\ \A i \in 2..PreambleSize : Preamble[i] # Preamble[1]
    /\ Preamble[1] # 0
    /\ FragSize \in Nat /\ FragSize > PreambleSize + HeaderSize
    /\ Size \in Nat /\ Size > FragSize
    /\ CounterSize \in Nat /\ 2 * Size <= CounterSize
    /\ TickAddr \notin Exbs
    /\ TickTail \in Nat /\ TickTail # Preamble[1]
    /\ \A junk \in Junk : junk \in [0..(Size - 1) -> Nat]
    /\ \A p \in Packet : p \in [tid : Nat, type : Nat, data : Seq(Nat)]
    /\ MaxPackets \in Nat /\ MaxTicks \in Nat
    /\ Orders \subseteq BOOLEAN

VARIABLES
    orderly,     \* do the fragments of a packet that fits follow each other, none lost?
    air,         \* device -> the packet it sends, its fragments left, none lost yet?
    ticks,       \* fragments rf_receiver.c has made itself
    started,     \* packets that devices have begun to send
    arrived,     \* packets all of whose fragments have arrived
    upQueue,     \* fragments on their way to gate_out
    elem, inBuf, mode, packet,   \* gate_out's own; elem has the bytes left
    queued       \* packets queued for so_transmitter

radio  == <<orderly, air, ticks, started, arrived>>
parser == <<elem, inBuf, mode, packet>>
vars   == <<orderly, air, ticks, started, arrived, upQueue, elem, inBuf, mode, packet, queued>>

Elem(addr, data) == [addr |-> addr, data |-> data]
NoElem   == Elem(TickAddr, <<>>)
NoPacket == [tid |-> 0, type |-> 0, length |-> 0]
Silent   == [packet |-> NoPacket, left |-> <<>>, whole |-> TRUE]

Init ==
    /\ orderly \in Orders
    /\ air = [s \in Exbs |-> Silent]
    /\ ticks = 0 /\ started = 0 /\ arrived = <<>> /\ upQueue = <<>>
    /\ elem = NoElem
    /\ inBuf \in {[CreateRingBuffer(Size, junk) EXCEPT !.reader = 1] : junk \in Junk}
    /\ mode = "preamble"
    /\ packet = NoPacket
    /\ queued = <<>>

-----------------------------------------------------------------------------
(* The devices and the air.                                                *)

Encode(p) == Preamble \o <<p.tid, p.type, Len(p.data)>> \o p.data

(***************************************************************************)
(* The fragments of a packet; the last is filled up with zeros.            *)
(***************************************************************************)
Fragments(bytes) ==
    LET n == (Len(bytes) + FragSize - 1) \div FragSize
    IN  [i \in 1..n |-> [k \in 1..FragSize |->
            LET j == (i - 1) * FragSize + k
            IN  IF j <= Len(bytes) THEN bytes[j] ELSE 0]]

OnAir(s) == air[s].left # <<>>
Fits(p)  == Len(Encode(p)) < Size

Begin(s, p) ==
    /\ started < MaxPackets /\ ~OnAir(s)
    /\ orderly => Fits(p) /\ \A r \in Exbs : ~OnAir(r)
    /\ air' = [air EXCEPT ![s] =
                 [packet |-> p, left |-> Fragments(Encode(p)), whole |-> TRUE]]
    /\ started' = started + 1
    /\ UNCHANGED <<orderly, ticks, arrived, upQueue, parser, queued>>

(***************************************************************************)
(* What so_transmitter is to be given of a packet.                         *)
(***************************************************************************)
Blob(addr, p) ==
    [addr |-> addr, tid |-> p.tid, bytes |-> Encode(p),
     event |-> p.type \in {EXB_TYPE_EVENT, EXB_TYPE_EVENTC}]

(***************************************************************************)
(* RfReceiver_thread takes a fragment from the chip.                       *)
(***************************************************************************)
Receive(s) ==
    /\ OnAir(s)
    /\ upQueue' = Append(upQueue, Elem(s, Head(air[s].left)))
    /\ air' = [air EXCEPT ![s].left = Tail(@)]
    /\ arrived' = IF Len(air[s].left) = 1 /\ air[s].whole
                     /\ air[s].packet.type # EXB_TYPE_TICK
                  THEN Append(arrived, Blob(s, air[s].packet)) ELSE arrived
    /\ UNCHANGED <<orderly, ticks, started, parser, queued>>

Lose(s) ==
    /\ OnAir(s) /\ ~orderly
    /\ air' = [air EXCEPT ![s].left = Tail(@), ![s].whole = FALSE]
    /\ UNCHANGED <<orderly, ticks, started, arrived, upQueue, parser, queued>>

(***************************************************************************)
(* The fragment that RfReceiver_thread queues about every five seconds:    *)
(* a TICK packet and bytes that follow it.                                 *)
(***************************************************************************)
TickFragment ==
    LET bytes == Preamble \o <<1, EXB_TYPE_TICK, 0>>
    IN  [k \in 1..FragSize |-> IF k <= Len(bytes) THEN bytes[k] ELSE TickTail]

Tick ==
    /\ ticks < MaxTicks
    /\ orderly => \A r \in Exbs : ~OnAir(r)
    /\ upQueue' = Append(upQueue, Elem(TickAddr, TickFragment))
    /\ ticks' = ticks + 1
    /\ UNCHANGED <<orderly, air, started, arrived, parser, queued>>

-----------------------------------------------------------------------------
(* GateOut_thread.  r is the ring with the byte just written in it.        *)

TakeFragment ==
    /\ elem.data = <<>> /\ upQueue # <<>>
    /\ elem' = Head(upQueue)
    /\ upQueue' = Tail(upQueue)
    /\ UNCHANGED <<radio, inBuf, mode, packet, queued>>

(***************************************************************************)
(* The ring keeps the preamble.  BadHuntPreamble shifts one byte too few.  *)
(***************************************************************************)
PreambleEnds(r) ==
    /\ DataLenght(r) >= PreambleSize
    /\ CmpData(r, DataLenght(r) - PreambleSize, Preamble)

BadHuntPreamble(r) ==
    /\ mode = "preamble"
    /\ IF PreambleEnds(r)
       THEN /\ inBuf' = ShiftReader(r, DataLenght(r) - PreambleSize - 1)
            /\ mode' = "header"
       ELSE inBuf' = r /\ UNCHANGED mode
    /\ UNCHANGED <<packet, queued>>

HuntPreamble(r) ==
    /\ mode = "preamble"
    /\ IF PreambleEnds(r)
       THEN /\ inBuf' = ShiftReader(r, DataLenght(r) - PreambleSize)
            /\ mode' = "header"
       ELSE inBuf' = r /\ UNCHANGED mode
    /\ UNCHANGED <<packet, queued>>

ParseHeader(r) ==
    /\ mode = "header"
    /\ IF DataLenght(r) >= HeaderSize + PreambleSize
       THEN LET h == ExtractData(r, r.reader + PreambleSize, HeaderSize)
            IN  /\ packet' = [tid |-> h[1], type |-> h[2], length |-> h[3]]
                /\ mode' = "body"
       ELSE UNCHANGED <<packet, mode>>
    /\ inBuf' = r
    /\ UNCHANGED queued

(***************************************************************************)
(* The packet is queued when a byte comes and the body is complete, so a   *)
(* packet without a body takes one byte more than it has.                  *)
(***************************************************************************)
ParseBody(r) ==
    LET stotal == packet.length + HeaderSize + PreambleSize
        blob   == [addr |-> elem.addr, tid |-> packet.tid,
                   bytes |-> SubSeq(Contents(r), 1, stotal),
                   event |-> packet.type \in {EXB_TYPE_EVENT, EXB_TYPE_EVENTC}]
    IN  /\ mode = "body"
        /\ IF DataLenght(r) >= stotal
           THEN /\ queued' = IF packet.type = EXB_TYPE_TICK THEN queued
                             ELSE Append(queued, blob)
                /\ inBuf' = DataClear(r)
                /\ mode' = "preamble"
           ELSE inBuf' = r /\ UNCHANGED <<queued, mode>>
        /\ UNCHANGED packet

FeedByte ==
    /\ elem.data # <<>>
    /\ LET r == Write(inBuf, Head(elem.data))
       IN  HuntPreamble(r) \/ ParseHeader(r) \/ ParseBody(r)
    /\ elem' = [elem EXCEPT !.data = Tail(@)]
    /\ UNCHANGED <<radio, upQueue>>

-----------------------------------------------------------------------------
Next ==
    \/ \E s \in Exbs : Receive(s) \/ Lose(s) \/ \E p \in Packet : Begin(s, p)
    \/ Tick
    \/ TakeFragment \/ FeedByte

(***************************************************************************)
(* The thread goes on; nothing makes a device send.                        *)
(***************************************************************************)
Spec == Init /\ [][Next]_vars /\ WF_vars(TakeFragment \/ FeedByte)
-----------------------------------------------------------------------------
(* Properties.                                                             *)

(***************************************************************************)
(* Every variable has its shape; the ring's positions stay in its buffer.  *)
(***************************************************************************)
Blobs == [addr : Exbs \cup {TickAddr}, tid : Nat, bytes : Seq(Nat), event : BOOLEAN]

TypeOK ==
    /\ orderly \in BOOLEAN
    /\ air \in [Exbs -> [packet : Packet \cup {NoPacket}, left : Seq(Seq(Nat)),
                         whole : BOOLEAN]]
    /\ ticks \in 0..MaxTicks /\ started \in 0..MaxPackets
    /\ arrived \in Seq(Blobs)
    /\ upQueue \in Seq([addr : Exbs \cup {TickAddr}, data : Seq(Nat)])
    /\ elem \in [addr : Exbs \cup {TickAddr}, data : Seq(Nat)]
    /\ inBuf \in [buffer : [0..(Size - 1) -> Nat], reader : 0..(Size - 1),
                  writer : 0..(Size - 1), size : {Size}]
    /\ mode \in {"preamble", "header", "body"}
    /\ packet \in [tid : Nat, type : Nat, length : Nat]
    /\ queued \in Seq(Blobs)

(***************************************************************************)
(* When the air is orderly, that is the fragments of a packet follow each  *)
(* other, none is lost and the packet fits in the ring, the parser is a    *)
(* channel: what malloc left in the ring, the padding, the packets without *)
(* a body and the TICKs between packets harm no packet, and each is queued *)
(* whole, in order and from its sender.                                    *)
(***************************************************************************)
InOrderOnly(s) == IF orderly THEN s ELSE <<>>

Channel == INSTANCE FrameChannel
           WITH Frame <- {Blob(s, p) : s \in Exbs, p \in Packet},
                sent <- InOrderOnly(arrived), delivered <- InOrderOnly(queued)
IsChannel == Channel!Spec

(***************************************************************************)
(* Whatever the fragments are mixed with and however many are lost, a      *)
(* packet that is queued begins with the preamble and has the transaction, *)
(* the length and the kind its header gives: the ring never pushes the     *)
(* reader on while a packet that can be completed is in it.                *)
(***************************************************************************)
WellFormed ==
    \A i \in 1..Len(queued) :
        LET bytes  == queued[i].bytes
            header == SubSeq(bytes, PreambleSize + 1, PreambleSize + HeaderSize)
        IN  /\ SubSeq(bytes, 1, PreambleSize) = Preamble
            /\ queued[i].tid = header[1]
            /\ queued[i].event = (header[2] \in {EXB_TYPE_EVENT, EXB_TYPE_EVENTC})
            /\ Len(bytes) = PreambleSize + HeaderSize + header[3]

-----------------------------------------------------------------------------
(* What the comments say and the code does not do (README, section 5).     *)

(***************************************************************************)
(* The address a packet is queued with is that of the device that sent it: *)
(* the addresses are there to determine the sender (gate_in.c:109).        *)
(***************************************************************************)
FromItsSender ==
    \A i \in 1..Len(queued) :
        \E j \in 1..Len(arrived) : queued[i].addr = arrived[j].addr
                                   /\ queued[i].tid = arrived[j].tid

(***************************************************************************)
(* An event whose fragments have all arrived and been read is resent to    *)
(* the sockets (gate_out.c:85).                                            *)
(***************************************************************************)
EventsResent ==
    upQueue = <<>> /\ elem.data = <<>> =>
        \A j \in 1..Len(arrived) : arrived[j].event =>
            \E i \in 1..Len(queued) : queued[i] = arrived[j]
=============================================================================
