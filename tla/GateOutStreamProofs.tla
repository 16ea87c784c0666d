------------------------ MODULE GateOutStreamProofs ------------------------
(***************************************************************************)
(* Machine-checked theorems about GateOutStream, for every preamble, ring, *)
(* size of a fragment, device and packet.                                  *)
(***************************************************************************)
EXTENDS GateOutStream, SequenceTheorems, TLAPS

(***************************************************************************)
(* What is known of the operators of rings.c.  The lemmas cited do not     *)
(* mention the variables of Rings.                                         *)
(***************************************************************************)
Ring == INSTANCE RingProofs WITH Byte <- Nat, MaxData <- 0,
                                 ring <- inBuf, mutex <- mode, out <- packet

RingSet == RingBuffer(Size, Nat)

LEMMA SizeType == /\ Size \in Nat /\ Size > 1 /\ CounterSize \in Nat /\ Size < CounterSize
                  /\ 0 \in Nat
                  /\ HeaderSize = 3 /\ PreambleSize \in Nat /\ PreambleSize > 0
                  /\ PreambleSize = Len(Preamble) /\ Preamble \in Seq(Nat)
                  /\ FragSize \in Nat /\ PreambleSize + 3 < FragSize /\ FragSize < Size
                  /\ TickTail \in Nat
  BY GateOutStreamAssumption DEF HeaderSize, PreambleSize

LEMMA SameOps ==
    /\ Ring!RingBuffer(Size, Nat) = RingSet
    /\ \A r : /\ Ring!DataLenght(r) = DataLenght(r) /\ Ring!Contents(r) = Contents(r)
              /\ Ring!DataClear(r) = DataClear(r)
    /\ \A r, b : Ring!Write(r, b) = Write(r, b)
    /\ \A r, n : Ring!ShiftReader(r, n) = ShiftReader(r, n)
    /\ \A r, off, w : Ring!CmpData(r, off, w) <=> CmpData(r, off, w)
    /\ \A r, p, n : Ring!ExtractData(r, p, n) = ExtractData(r, p, n)
  <1>1. \A r, p, n : Ring!Bytes(r, p, n) = Bytes(r, p, n)
    BY DEF Bytes, Ring!Bytes, Wrap, Ring!Wrap
  <1>2. Ring!RingBuffer(Size, Nat) = RingSet
    BY DEF RingSet, RingBuffer, Ring!RingBuffer
  <1>3. \A r : Ring!DataLenght(r) = DataLenght(r)
    BY DEF DataLenght, Ring!DataLenght
  <1>4. \A r : Ring!Contents(r) = Contents(r) /\ Ring!DataClear(r) = DataClear(r)
    BY <1>1, <1>3 DEF Contents, Ring!Contents, DataClear, Ring!DataClear
  <1>5. \A r, b : Ring!Write(r, b) = Write(r, b)
    BY DEF Write, Ring!Write, Succ, Ring!Succ
  <1>6. \A r, n : Ring!ShiftReader(r, n) = ShiftReader(r, n)
    BY DEF ShiftReader, Ring!ShiftReader, Shifted, Ring!Shifted
  <1>7. \A r, off, w : Ring!CmpData(r, off, w) <=> CmpData(r, off, w)
    BY <1>1 DEF CmpData, Ring!CmpData, Counter, Ring!Counter
  <1>8. \A r, p, n : Ring!ExtractData(r, p, n) = ExtractData(r, p, n)
    BY <1>1 DEF ExtractData, Ring!ExtractData, RealPosition, Ring!RealPosition
  <1> QED BY <1>2, <1>3, <1>4, <1>5, <1>6, <1>7, <1>8

LEMMA RingIsTyped ==
    ASSUME NEW r \in RingSet
    PROVE  /\ DataLenght(r) \in 0..(Size - 1)
           /\ Contents(r) \in Seq(Nat)
           /\ Len(Contents(r)) = DataLenght(r)
  <1>1. r \in Ring!RingBuffer(Size, Nat)
    BY SameOps
  <1>2. Ring!DataLenght(r) \in 0..(Size - 1)
    BY <1>1, Ring!LengthRange, SizeType
  <1>3. Ring!Contents(r) \in Seq(Nat) /\ Len(Ring!Contents(r)) = Ring!DataLenght(r)
    BY <1>1, Ring!ContentsSeq, SizeType
  <1> QED BY <1>2, <1>3, SameOps

LEMMA ByteWritten ==
    ASSUME NEW r \in RingSet, NEW b \in Nat
    PROVE  /\ Write(r, b) \in RingSet
           /\ Contents(Write(r, b)) =
                 IF Len(Contents(r)) = Size - 1 THEN Append(Tail(Contents(r)), b)
                                                ELSE Append(Contents(r), b)
  <1>1. r \in Ring!RingBuffer(Size, Nat) /\ b \in Nat
    BY SameOps
  <1>2. Size \in Nat /\ Size > 1 /\ CounterSize \in Nat /\ Size < CounterSize /\ 0 \in Nat
    BY SizeType
  <1>3. Ring!Write(r, b) \in Ring!RingBuffer(Size, Nat)
    BY <1>1, <1>2, Ring!ByteAdded
  <1>4. Ring!Contents(Ring!Write(r, b)) =
           IF Len(Ring!Contents(r)) = Size - 1 THEN Append(Tail(Ring!Contents(r)), b)
                                               ELSE Append(Ring!Contents(r), b)
    BY <1>1, <1>2, Ring!ByteAdded
  <1> QED BY <1>3, <1>4, SameOps

LEMMA RingCleared ==
    ASSUME NEW r \in RingSet
    PROVE  DataClear(r) \in RingSet /\ Contents(DataClear(r)) = <<>>
  <1>1. r \in Ring!RingBuffer(Size, Nat)
    BY SameOps
  <1>2. Size \in Nat /\ Size > 1 /\ CounterSize \in Nat /\ Size < CounterSize /\ 0 \in Nat
    BY SizeType
  <1>3. /\ Ring!DataClear(r) \in Ring!RingBuffer(Size, Nat)
        /\ Ring!Contents(Ring!DataClear(r)) = <<>>
    BY <1>1, <1>2, Ring!RingEmptied
  <1> QED BY <1>3, SameOps

(***************************************************************************)
(* The reader is shifted within the data.                                  *)
(***************************************************************************)
LEMMA ReaderShifted ==
    ASSUME NEW r \in RingSet, NEW n \in 0..DataLenght(r)
    PROVE  /\ ShiftReader(r, n) \in RingSet
           /\ Contents(ShiftReader(r, n)) = SubSeq(Contents(r), n + 1, Len(Contents(r)))
  <1>1. r \in Ring!RingBuffer(Size, Nat) /\ n \in 0..Ring!DataLenght(r)
    BY SameOps
  <1>2. Size \in Nat /\ Size > 1 /\ CounterSize \in Nat /\ Size < CounterSize /\ 0 \in Nat
    BY SizeType
  <1>3. /\ Ring!ShiftReader(r, n) \in Ring!RingBuffer(Size, Nat)
        /\ Ring!Contents(Ring!ShiftReader(r, n))
              = SubSeq(Ring!Contents(r), n + 1, Len(Ring!Contents(r)))
    BY <1>1, <1>2, Ring!ReaderShifted
  <1> QED BY <1>3, SameOps

(***************************************************************************)
(* A part of the data, compared and copied.                                *)
(***************************************************************************)
LEMMA PartFound ==
    ASSUME NEW r \in RingSet, NEW off \in 0..DataLenght(r),
           NEW n \in 0..(DataLenght(r) - off)
    PROVE  /\ \A w : Len(w) = n =>
                 (CmpData(r, off, w) <=> SubSeq(Contents(r), off + 1, off + n) = w)
           /\ ExtractData(r, r.reader + off, n) = SubSeq(Contents(r), off + 1, off + n)
  <1>1. /\ r \in Ring!RingBuffer(Size, Nat) /\ off \in 0..Ring!DataLenght(r)
        /\ n \in 0..(Ring!DataLenght(r) - off)
    BY SameOps
  <1>2. Size \in Nat /\ Size > 1 /\ CounterSize \in Nat /\ Size < CounterSize /\ 0 \in Nat
    BY SizeType
  <1>3. /\ \A w : Len(w) = n =>
              (Ring!CmpData(r, off, w) <=>
                  SubSeq(Ring!Contents(r), off + 1, off + n) = w)
        /\ Ring!ExtractData(r, r.reader + off, n)
              = SubSeq(Ring!Contents(r), off + 1, off + n)
    <2>1. r.reader + off < CounterSize
      <3>1. 2 * Size <= CounterSize
        BY GateOutStreamAssumption
      <3>2. DataLenght(r) \in 0..(Size - 1) /\ r.reader \in 0..(Size - 1)
        BY RingIsTyped DEF RingSet, RingBuffer
      <3> QED BY <1>2, <3>1, <3>2
    <2> QED BY <1>1, <1>2, <2>1, Ring!PartFound
  <1> QED BY <1>3, SameOps

-----------------------------------------------------------------------------
(* The shape of the state.                                                 *)

Burst  == [addr : Exbs \cup {TickAddr}, data : Seq(Nat)]
Bursts == Seq(Burst)

(***************************************************************************)
(* A device that has fragments left sends one of its packets.              *)
(***************************************************************************)
AirOK    == \A s \in Exbs : OnAir(s) => air[s].packet \in Packet
StateOK  == TypeOK /\ AirOK

LEMMA EncodeType ==
    ASSUME NEW p \in Packet
    PROVE  /\ p.tid \in Nat /\ p.type \in Nat /\ p.data \in Seq(Nat)
           /\ Encode(p) \in Seq(Nat)
           /\ \A s \in Exbs : Blob(s, p) \in Blobs
  <1>1. p.tid \in Nat /\ p.type \in Nat /\ p.data \in Seq(Nat)
    BY GateOutStreamAssumption
  <1>2. Encode(p) \in Seq(Nat)
    BY <1>1, SizeType DEF Encode
  <1> QED BY <1>1, <1>2 DEF Blob, Blobs

LEMMA RoundedUp ==
    ASSUME NEW m \in Nat, NEW f \in Nat, f > 0
    PROVE  (m + f - 1) \div f \in Nat
  OBVIOUS

LEMMA Multiple ==
    ASSUME NEW m \in Nat, NEW f \in Nat
    PROVE  m * f \in Nat
  OBVIOUS

LEMMA FragmentsType ==
    ASSUME NEW bytes \in Seq(Nat)
    PROVE  Fragments(bytes) \in Seq(Seq(Nat))
  <1> DEFINE n == (Len(bytes) + FragSize - 1) \div FragSize
             J(i, k) == (i - 1) * FragSize + k
             F(i) == [k \in 1..FragSize |-> IF J(i, k) <= Len(bytes) THEN bytes[J(i, k)] ELSE 0]
  <1>1. n \in Nat
    BY RoundedUp, SizeType
  <1>2. ASSUME NEW i \in 1..n PROVE F(i) \in Seq(Nat)
    <2>1. ASSUME NEW k \in 1..FragSize
          PROVE  (IF J(i, k) <= Len(bytes) THEN bytes[J(i, k)] ELSE 0) \in Nat
      <3> DEFINE m == (i - 1) * FragSize
      <3>1. i - 1 \in Nat
        BY <1>1
      <3>2. m \in Nat
        BY <3>1, Multiple, SizeType
      <3> HIDE DEF m
      <3>3. m + k \in Nat /\ m + k > 0
        BY <3>2, SizeType
      <3>4. (IF m + k <= Len(bytes) THEN bytes[m + k] ELSE 0) \in Nat
        BY <3>3
      <3> QED BY <3>4 DEF m
    <2>2. F(i) \in [1..FragSize -> Nat]
      BY <2>1
    <2> HIDE DEF F
    <2> QED BY <2>2, SizeType
  <1> HIDE DEF n, F
  <1>3. [i \in 1..n |-> F(i)] \in [1..n -> Seq(Nat)]
    BY <1>2
  <1>4. [i \in 1..n |-> F(i)] \in Seq(Seq(Nat))
    BY <1>1, <1>3
  <1> QED BY <1>4 DEF Fragments, n, F

LEMMA InitType == Init => StateOK
  <1> SUFFICES ASSUME Init PROVE StateOK
    OBVIOUS
  <1>1. PICK junk \in Junk : inBuf = [CreateRingBuffer(Size, junk) EXCEPT !.reader = 1]
    BY DEF Init
  <1>2. inBuf \in [buffer : [0..(Size - 1) -> Nat], reader : 0..(Size - 1),
                  writer : 0..(Size - 1), size : {Size}]
    <2>1. junk \in [0..(Size - 1) -> Nat]
      BY GateOutStreamAssumption
    <2>2. inBuf = [buffer |-> junk, reader |-> 1, writer |-> 0, size |-> Size]
      BY <1>1 DEF CreateRingBuffer
    <2> QED BY <2>1, <2>2, SizeType
  <1>3. Silent \in [packet : Packet \cup {NoPacket}, left : Seq(Seq(Nat)), whole : BOOLEAN]
    BY DEF Silent
  <1>4. NoPacket \in [tid : Nat, type : Nat, length : Nat]
        /\ NoElem \in [addr : Exbs \cup {TickAddr}, data : Seq(Nat)]
    BY DEF NoPacket, NoElem, Elem
  <1>5. AirOK
    BY DEF Init, AirOK, OnAir, Silent
  <1>6. TypeOK
    BY <1>2, <1>3, <1>4, GateOutStreamAssumption DEF Init, TypeOK
  <1> QED BY <1>5, <1>6 DEF StateOK

(***************************************************************************)
(* The steps of the devices, of the air and of RfReceiver_thread.          *)
(***************************************************************************)
LEMMA AirType ==
    ASSUME StateOK,
           \/ \E s \in Exbs : Receive(s) \/ Lose(s) \/ \E p \in Packet : Begin(s, p)
           \/ Tick
    PROVE  StateOK'
  <1> DEFINE Sending == [packet : Packet \cup {NoPacket}, left : Seq(Seq(Nat)), whole : BOOLEAN]
  <1>1. /\ air \in [Exbs -> Sending] /\ upQueue \in Bursts /\ arrived \in Seq(Blobs)
        /\ ticks \in 0..MaxTicks /\ started \in 0..MaxPackets
        /\ MaxTicks \in Nat /\ MaxPackets \in Nat
    BY GateOutStreamAssumption DEF StateOK, TypeOK, Bursts, Burst
  <1>2. ASSUME /\ air' \in [Exbs -> Sending] /\ upQueue' \in Bursts /\ arrived' \in Seq(Blobs)
               /\ ticks' \in 0..MaxTicks /\ started' \in 0..MaxPackets
               /\ UNCHANGED <<orderly, parser, queued>> /\ AirOK'
        PROVE  StateOK'
    BY <1>2 DEF StateOK, TypeOK, Bursts, Burst, parser
  <1>3. ASSUME NEW s \in Exbs, OnAir(s)
        PROVE  /\ air[s].packet \in Packet /\ air[s].left # <<>>
               /\ Head(air[s].left) \in Seq(Nat) /\ Tail(air[s].left) \in Seq(Seq(Nat))
               /\ air[s] \in Sending
    <2>1. air[s] \in Sending /\ air[s].left # <<>> /\ air[s].packet \in Packet
      BY <1>1, <1>3 DEF OnAir, StateOK, AirOK
    <2>2. air[s].left \in Seq(Seq(Nat))
      BY <2>1
    <2> DEFINE w == air[s].left
    <2> HIDE DEF w
    <2>3. w \in Seq(Seq(Nat)) /\ w # <<>>
      BY <2>1, <2>2 DEF w
    <2>4. Head(w) \in Seq(Nat) /\ Tail(w) \in Seq(Seq(Nat))
      BY <2>3
    <2> QED BY <2>1, <2>4 DEF w
  <1>4. ASSUME NEW s \in Exbs, NEW e \in Sending, air' = [air EXCEPT ![s] = e],
               e.left = <<>> \/ e.packet \in Packet
        PROVE  air' \in [Exbs -> Sending] /\ AirOK'
    BY <1>1, <1>4 DEF AirOK, OnAir, StateOK
  <1>5. ASSUME NEW s \in Exbs, Receive(s) PROVE StateOK'
    <2>1. OnAir(s) /\ orderly' = orderly /\ UNCHANGED <<ticks, started, parser, queued>>
      BY <1>5 DEF Receive
    <2> DEFINE e == [air[s] EXCEPT !.left = Tail(@)]
    <2>2. e \in Sending /\ e.packet \in Packet
      BY <1>3, <2>1
    <2>3. air' = [air EXCEPT ![s] = e]
      BY <1>5, <1>1 DEF Receive
    <2> HIDE DEF e
    <2>4. Elem(s, Head(air[s].left)) \in Burst
      BY <1>3, <2>1 DEF Elem, Burst
    <2>5. upQueue' \in Bursts
      BY <1>1, <1>5, <2>4 DEF Receive, Bursts
    <2>6. Blob(s, air[s].packet) \in Blobs
      BY <1>3, <2>1, EncodeType
    <2>7. arrived' \in Seq(Blobs)
      BY <1>1, <1>5, <2>6 DEF Receive
    <2> QED BY <1>1, <1>2, <1>4, <2>1, <2>2, <2>3, <2>5, <2>7
  <1>6. ASSUME NEW s \in Exbs, Lose(s) PROVE StateOK'
    <2>1. OnAir(s) /\ UNCHANGED <<orderly, ticks, started, arrived, upQueue, parser, queued>>
      BY <1>6 DEF Lose
    <2> DEFINE e == [air[s] EXCEPT !.left = Tail(@), !.whole = FALSE]
    <2>2. e \in Sending /\ e.packet \in Packet
      BY <1>3, <2>1
    <2>3. air' = [air EXCEPT ![s] = e]
      BY <1>6, <1>1 DEF Lose
    <2> HIDE DEF e
    <2> QED BY <1>1, <1>2, <1>4, <2>1, <2>2, <2>3
  <1>7. ASSUME NEW s \in Exbs, NEW p \in Packet, Begin(s, p) PROVE StateOK'
    <2> DEFINE e == [packet |-> p, left |-> Fragments(Encode(p)), whole |-> TRUE]
    <2>1. e \in Sending /\ e.packet \in Packet
      BY EncodeType, FragmentsType
    <2>2. air' = [air EXCEPT ![s] = e]
          /\ UNCHANGED <<orderly, ticks, arrived, upQueue, parser, queued>>
      BY <1>7 DEF Begin
    <2>3. started' \in 0..MaxPackets
      BY <1>1, <1>7 DEF Begin
    <2> HIDE DEF e
    <2> QED BY <1>1, <1>2, <1>4, <2>1, <2>2, <2>3
  <1>8. ASSUME Tick PROVE StateOK'
    <2>1. TickFragment \in Seq(Nat)
      <3> DEFINE bytes == Preamble \o <<1, EXB_TYPE_TICK, 0>>
      <3>1. bytes \in Seq(Nat)
        BY SizeType DEF EXB_TYPE_TICK
      <3> HIDE DEF bytes
      <3>2. TickFragment = [k \in 1..FragSize |-> IF k <= Len(bytes) THEN bytes[k] ELSE TickTail]
        BY DEF TickFragment, bytes
      <3>3. ASSUME NEW k \in 1..FragSize
            PROVE  (IF k <= Len(bytes) THEN bytes[k] ELSE TickTail) \in Nat
        BY <3>1, SizeType
      <3>4. TickFragment \in [1..FragSize -> Nat]
        BY <3>2, <3>3
      <3> QED BY <3>4, SizeType
    <2>2. Elem(TickAddr, TickFragment) \in Burst
      BY <2>1 DEF Elem, Burst
    <2>3. upQueue' \in Bursts
      BY <1>1, <1>8, <2>2 DEF Tick, Bursts
    <2>4. ticks' \in 0..MaxTicks
      BY <1>1, <1>8 DEF Tick
    <2>5. AirOK'
      BY <1>8 DEF Tick, StateOK, AirOK, OnAir
    <2> QED BY <1>1, <1>2, <1>8, <2>3, <2>4, <2>5 DEF Tick
  <1> QED BY <1>5, <1>6, <1>7, <1>8

LEMMA FragmentType == ASSUME StateOK, TakeFragment PROVE StateOK'
  <1>1. upQueue \in Bursts /\ upQueue # <<>> /\ UNCHANGED <<radio, inBuf, mode, packet, queued>>
    BY DEF StateOK, TypeOK, Bursts, Burst, TakeFragment
  <1>2. Head(upQueue) \in Burst /\ Tail(upQueue) \in Bursts
    BY <1>1 DEF Bursts
  <1>3. elem' = Head(upQueue) /\ upQueue' = Tail(upQueue)
    BY DEF TakeFragment
  <1> QED BY <1>1, <1>2, <1>3 DEF StateOK, TypeOK, AirOK, OnAir, radio, Bursts, Burst

(***************************************************************************)
(* The ring with the byte just taken, and the data it hands out.           *)
(***************************************************************************)
LEMMA ByteType ==
    ASSUME TypeOK, FeedByte
    PROVE  /\ inBuf \in RingSet /\ Head(elem.data) \in Nat /\ Tail(elem.data) \in Seq(Nat)
           /\ Write(inBuf, Head(elem.data)) \in RingSet
  <1> DEFINE d == elem.data
  <1>1. d \in Seq(Nat) /\ d # <<>> /\ inBuf \in RingSet
    BY DEF TypeOK, FeedByte, RingSet, RingBuffer
  <1> HIDE DEF d
  <1>2. Head(d) \in Nat /\ Tail(d) \in Seq(Nat)
    BY <1>1
  <1> QED BY <1>1, <1>2, ByteWritten DEF d

LEMMA ReaderType == ASSUME StateOK, FeedByte PROVE StateOK'
  <1> DEFINE r == Write(inBuf, Head(elem.data))
             c == Contents(r)
  <1> USE DEF Bursts, Burst
  <1>1. r \in RingSet /\ c \in Seq(Nat) /\ Len(c) = DataLenght(r) /\ DataLenght(r) \in Nat
        /\ packet \in [tid : Nat, type : Nat, length : Nat] /\ queued \in Seq(Blobs)
        /\ elem \in Burst
    <2>1. r \in RingSet
      BY ByteType DEF StateOK
    <2> HIDE DEF r
    <2>2. c \in Seq(Nat) /\ Len(c) = DataLenght(r) /\ DataLenght(r) \in Nat
      BY <2>1, RingIsTyped, SizeType
    <2>3. /\ packet \in [tid : Nat, type : Nat, length : Nat] /\ queued \in Seq(Blobs)
          /\ elem \in Burst
      BY DEF StateOK, TypeOK
    <2> QED BY <2>1, <2>2, <2>3
  <1>2. /\ elem' \in Burst /\ UNCHANGED <<radio, upQueue>>
        /\ HuntPreamble(r) \/ ParseHeader(r) \/ ParseBody(r)
    <2>1. elem' = [elem EXCEPT !.data = Tail(@)] /\ Tail(elem.data) \in Seq(Nat)
      BY ByteType DEF FeedByte, StateOK
    <2>2. elem' \in Burst
      BY <1>1, <2>1
    <2> QED BY <2>2 DEF FeedByte
  <1>3. DataClear(r) \in RingSet
    BY <1>1, RingCleared
  <1>4. ASSUME inBuf' \in RingSet, mode' \in {"preamble", "header", "body"},
               packet' \in [tid : Nat, type : Nat, length : Nat], queued' \in Seq(Blobs)
        PROVE  StateOK'
    BY <1>2, <1>4 DEF StateOK, TypeOK, AirOK, OnAir, radio, RingSet, RingBuffer
  <1>5. mode \in {"preamble", "header", "body"}
    BY DEF StateOK, TypeOK
  <1>6. CASE HuntPreamble(r)
    <2>1. CASE PreambleEnds(r)
      <3>1. DataLenght(r) - PreambleSize \in 0..DataLenght(r)
        BY <1>1, <2>1, SizeType DEF PreambleEnds
      <3>2. ShiftReader(r, DataLenght(r) - PreambleSize) \in RingSet
        BY <1>1, <3>1, ReaderShifted
      <3> QED BY <1>1, <1>4, <1>6, <2>1, <3>2 DEF HuntPreamble
    <2>2. CASE ~PreambleEnds(r)
      BY <1>1, <1>4, <1>5, <1>6, <2>2 DEF HuntPreamble
    <2> QED BY <2>1, <2>2
  <1>7. CASE ParseHeader(r)
    <2>1. CASE DataLenght(r) >= HeaderSize + PreambleSize
      <3> DEFINE h == ExtractData(r, r.reader + PreambleSize, HeaderSize)
      <3>1. h = SubSeq(c, PreambleSize + 1, PreambleSize + HeaderSize)
        <4>1. PreambleSize \in 0..DataLenght(r)
              /\ HeaderSize \in 0..(DataLenght(r) - PreambleSize)
          BY <1>1, <2>1, SizeType
        <4> QED BY <1>1, <4>1, PartFound
      <3> HIDE DEF h, c, r
      <3>2. h[1] \in Nat /\ h[2] \in Nat /\ h[3] \in Nat
        <4> DEFINE n == Len(c)
        <4>1. n \in Nat /\ n >= 3 + PreambleSize
          BY <1>1, <2>1, SizeType
        <4> HIDE DEF n
        <4>2. /\ PreambleSize + 1 \in 1..n /\ PreambleSize + 2 \in 1..n
              /\ PreambleSize + 3 \in 1..n
          BY <4>1, SizeType
        <4>3. /\ h[1] = c[PreambleSize + 1] /\ h[2] = c[PreambleSize + 2]
              /\ h[3] = c[PreambleSize + 3]
          BY <1>1, <3>1, <4>2, SizeType DEF n
        <4> QED BY <1>1, <4>2, <4>3 DEF n
      <3>3. /\ packet' = [tid |-> h[1], type |-> h[2], length |-> h[3]]
            /\ inBuf' = r /\ mode' = "body" /\ queued' = queued
        BY <1>7, <2>1 DEF ParseHeader, h
      <3> QED BY <1>1, <1>4, <3>2, <3>3
    <2>2. CASE ~(DataLenght(r) >= HeaderSize + PreambleSize)
      BY <1>1, <1>4, <1>5, <1>7, <2>2 DEF ParseHeader
    <2> QED BY <2>1, <2>2
  <1>8. CASE ParseBody(r)
    <2> DEFINE n    == packet.length + HeaderSize + PreambleSize
               blob == [addr |-> elem.addr, tid |-> packet.tid, bytes |-> SubSeq(c, 1, n),
                        event |-> packet.type \in {EXB_TYPE_EVENT, EXB_TYPE_EVENTC}]
    <2>1. CASE DataLenght(r) >= n
      <3> HIDE DEF c, r
      <3>0. n \in Nat /\ n <= Len(c)
        <4>1. packet.length \in Nat
          BY <1>1
        <4>2. n \in Nat
          BY <4>1, SizeType
        <4> HIDE DEF n
        <4> QED BY <1>1, <2>1, <4>2
      <3>1. SubSeq(c, 1, n) \in Seq(Nat)
        <4> HIDE DEF n
        <4> QED BY <1>1, <3>0
      <3>2. blob \in Blobs
        BY <1>1, <3>1 DEF Blobs
      <3>3. /\ queued' = (IF packet.type = EXB_TYPE_TICK THEN queued ELSE Append(queued, blob))
            /\ inBuf' = DataClear(r) /\ mode' = "preamble" /\ packet' = packet
        BY <1>8, <2>1 DEF ParseBody, c
      <3> HIDE DEF blob
      <3>4. queued' \in Seq(Blobs)
        BY <1>1, <3>2, <3>3
      <3> QED BY <1>1, <1>3, <1>4, <3>3, <3>4
    <2>2. CASE ~(DataLenght(r) >= n)
      BY <1>1, <1>4, <1>5, <1>8, <2>2 DEF ParseBody
    <2> QED BY <2>1, <2>2
  <1> QED BY <1>2, <1>6, <1>7, <1>8

LEMMA StateType == StateOK /\ [Next]_vars => StateOK'
  <1>1. StateOK /\ UNCHANGED vars => StateOK'
    BY DEF StateOK, TypeOK, AirOK, OnAir, vars
  <1> QED BY <1>1, AirType, FragmentType, ReaderType DEF Next

(***************************************************************************)
(* Every variable keeps the shape TypeOK gives it: whatever the air brings *)
(* and in whatever order, the positions of the ring stay in its buffer.    *)
(***************************************************************************)
THEOREM TypeCorrect == Spec => []TypeOK
  <1>1. StateOK => TypeOK
    BY DEF StateOK
  <1> QED BY <1>1, InitType, StateType, PTL DEF Spec

-----------------------------------------------------------------------------
(* A packet that is queued is well formed.                                 *)

(***************************************************************************)
(* The bytes c of the ring: while the header is awaited they begin with    *)
(* the preamble and end before the header does; while the body is awaited  *)
(* of a packet the ring can hold, they begin with the preamble and with    *)
(* the header that was read, and are not yet complete.                     *)
(***************************************************************************)
Total(q) == q.length + HeaderSize + PreambleSize

Begun(c, m, q) ==
    /\ m = "header" =>
          /\ PreambleSize <= Len(c) /\ Len(c) < PreambleSize + HeaderSize
          /\ SubSeq(c, 1, PreambleSize) = Preamble
    /\ m = "body" /\ Total(q) < Size =>
          /\ PreambleSize + HeaderSize <= Len(c)
          /\ Len(c) < Total(q) \/ Len(c) = PreambleSize + HeaderSize
          /\ SubSeq(c, 1, PreambleSize) = Preamble
          /\ q = [tid |-> c[PreambleSize + 1], type |-> c[PreambleSize + 2],
                  length |-> c[PreambleSize + 3]]

RingBegun  == Begun(Contents(inBuf), mode, packet)
PacketsOK  == StateOK /\ RingBegun /\ WellFormed

LEMMA ByteAppended ==
    ASSUME NEW c \in Seq(Nat), NEW b \in Nat, NEW m \in Nat, m <= Len(c)
    PROVE  /\ Append(c, b) \in Seq(Nat) /\ Len(Append(c, b)) = Len(c) + 1
           /\ SubSeq(Append(c, b), 1, m) = SubSeq(c, 1, m)
           /\ \A i \in 1..Len(c) : Append(c, b)[i] = c[i]
  OBVIOUS

(***************************************************************************)
(* What WellFormed asks of one packet.                                     *)
(***************************************************************************)
GoodPacket(q) ==
    LET bytes  == q.bytes
        header == SubSeq(bytes, PreambleSize + 1, PreambleSize + HeaderSize)
    IN  /\ SubSeq(bytes, 1, PreambleSize) = Preamble
        /\ q.tid = header[1]
        /\ q.event = (header[2] \in {EXB_TYPE_EVENT, EXB_TYPE_EVENTC})
        /\ Len(bytes) = PreambleSize + HeaderSize + header[3]

LEMMA GoodQueued ==
    ASSUME WellFormed, queued \in Seq(Blobs), NEW q \in Blobs, GoodPacket(q),
           queued' = Append(queued, q)
    PROVE  WellFormed'
  <1>1. \A i \in 1..Len(queued) : GoodPacket(queued[i])
    BY DEF WellFormed, GoodPacket
  <1>2. ASSUME NEW i \in 1..Len(queued') PROVE GoodPacket(queued'[i])
    BY <1>1
  <1> QED BY <1>2 DEF WellFormed, GoodPacket

(***************************************************************************)
(* The header of a complete packet, taken from the bytes of the ring.      *)
(***************************************************************************)
LEMMA CutPacket ==
    ASSUME NEW c \in Seq(Nat), NEW n \in Nat, n <= Len(c), n >= PreambleSize + HeaderSize
    PROVE  /\ SubSeq(SubSeq(c, 1, n), 1, PreambleSize) = SubSeq(c, 1, PreambleSize)
           /\ LET h == SubSeq(SubSeq(c, 1, n), PreambleSize + 1, PreambleSize + HeaderSize)
              IN  /\ h[1] = c[PreambleSize + 1] /\ h[2] = c[PreambleSize + 2]
                  /\ h[3] = c[PreambleSize + 3]
           /\ Len(SubSeq(c, 1, n)) = n
  <1> DEFINE z == SubSeq(c, 1, n)
             p == PreambleSize
  <1>1. p \in Nat /\ HeaderSize = 3
    BY SizeType
  <1> HIDE DEF p
  <1>2. z \in Seq(Nat) /\ Len(z) = n /\ \A i \in 1..n : z[i] = c[i]
    BY <1>1
  <1>3. SubSeq(z, 1, p) = SubSeq(c, 1, p)
    BY <1>1 DEF p
  <1> HIDE DEF z
  <1> DEFINE h == SubSeq(z, p + 1, p + 3)
  <1>4. p + 1 \in 1..n /\ p + 2 \in 1..n /\ p + 3 \in 1..n
    BY <1>1 DEF p
  <1>5. h[1] = z[p + 1] /\ h[2] = z[p + 2] /\ h[3] = z[p + 3]
    BY <1>1, <1>2, <1>4
  <1> HIDE DEF h
  <1>6. h[1] = c[p + 1] /\ h[2] = c[p + 2] /\ h[3] = c[p + 3]
    BY <1>2, <1>4, <1>5
  <1> QED BY <1>1, <1>2, <1>3, <1>6 DEF z, h, p

(***************************************************************************)
(* The ring of a byte taken: a packet that can be completed is not pushed  *)
(* out of it.                                                              *)
(***************************************************************************)
LEMMA Unpushed ==
    ASSUME StateOK, RingBegun, FeedByte,
           mode = "header" \/ (mode = "body" /\ Total(packet) < Size)
    PROVE  LET c == Contents(inBuf)
           IN  /\ c \in Seq(Nat) /\ Len(c) < Size - 1 /\ Head(elem.data) \in Nat
               /\ Contents(Write(inBuf, Head(elem.data))) = Append(c, Head(elem.data))
  <1> DEFINE c == Contents(inBuf)
  <1>1. inBuf \in RingSet /\ Head(elem.data) \in Nat
    BY ByteType DEF StateOK
  <1>2. c \in Seq(Nat) /\ Len(c) \in Nat
    BY <1>1, RingIsTyped, SizeType
  <1>3. packet.length \in Nat
    BY DEF StateOK, TypeOK
  <1> DEFINE n == packet.length
  <1> HIDE DEF c, n
  <1>4. Len(c) < Size - 1
    <2> DEFINE l == Len(c)
    <2>1. /\ mode = "header" => l < PreambleSize + HeaderSize
          /\ mode = "body" /\ n + HeaderSize + PreambleSize < Size =>
                \/ l < n + HeaderSize + PreambleSize
                \/ l = PreambleSize + HeaderSize
      BY DEF RingBegun, Begun, Total, c, n
    <2>2. mode = "header" \/ (mode = "body" /\ n + HeaderSize + PreambleSize < Size)
      BY DEF Total, n
    <2>3. l \in Nat /\ n \in Nat
      BY <1>2, <1>3 DEF n
    <2> HIDE DEF l
    <2>4. l < Size - 1
      BY <2>1, <2>2, <2>3, SizeType
    <2> QED BY <2>4 DEF l
  <1>5. Contents(Write(inBuf, Head(elem.data))) = Append(c, Head(elem.data))
    <2>1. Len(c) # Size - 1
      BY <1>2, <1>4, SizeType
    <2>2. Len(Contents(inBuf)) # Size - 1
      BY <2>1 DEF c
    <2> QED BY <1>1, <2>2, ByteWritten DEF c
  <1> QED BY <1>1, <1>2, <1>4, <1>5 DEF c

LEMMA HuntKeeps ==
    ASSUME PacketsOK, FeedByte, HuntPreamble(Write(inBuf, Head(elem.data)))
    PROVE  RingBegun' /\ WellFormed'
  <1> DEFINE r == Write(inBuf, Head(elem.data))
             c == Contents(r)
             l == Len(c)
  <1>1. r \in RingSet
    BY ByteType DEF PacketsOK, StateOK
  <1> HIDE DEF r
  <1>2. c \in Seq(Nat) /\ l = DataLenght(r) /\ l \in Nat
    BY <1>1, RingIsTyped, SizeType
  <1>3. queued' = queued /\ mode = "preamble" /\ HuntPreamble(r)
    BY DEF HuntPreamble, r
  <1>4. WellFormed'
    BY <1>3 DEF PacketsOK, WellFormed
  <1>5. CASE PreambleEnds(r)
    <2> DEFINE z == SubSeq(c, l - PreambleSize + 1, l)
    <2>1. mode' = "header" /\ inBuf' = ShiftReader(r, l - PreambleSize)
      BY <1>2, <1>3, <1>5 DEF HuntPreamble
    <2>2. l >= PreambleSize /\ CmpData(r, l - PreambleSize, Preamble)
      BY <1>2, <1>5 DEF PreambleEnds
    <2> HIDE DEF l
    <2>3. l - PreambleSize \in 0..l /\ PreambleSize \in 0..(l - (l - PreambleSize))
          /\ l - PreambleSize + PreambleSize = l
      BY <1>2, <2>2, SizeType
    <2>4. z = Preamble
      <3> DEFINE off == l - PreambleSize
                 n   == PreambleSize
      <3>1. /\ off \in 0..DataLenght(r) /\ n \in 0..(DataLenght(r) - off)
            /\ CmpData(r, off, Preamble) /\ Len(Preamble) = n
        BY <1>2, <2>2, <2>3, SizeType
      <3>2. off + n = l
        BY <2>3
      <3> HIDE DEF off, n
      <3>3. SubSeq(Contents(r), off + 1, off + n) = Preamble
        BY <1>1, <3>1, PartFound
      <3> QED BY <3>2, <3>3 DEF off
    <2>5. Contents(inBuf') = z
      BY <1>1, <1>2, <2>1, <2>3, ReaderShifted DEF l
    <2>6. SubSeq(Preamble, 1, PreambleSize) = Preamble
      BY SizeType
    <2>7. Len(Preamble) = PreambleSize /\ PreambleSize < PreambleSize + HeaderSize
      BY SizeType
    <2>8. Begun(Preamble, "header", packet')
      BY <2>6, <2>7, SizeType DEF Begun
    <2> QED BY <1>4, <2>1, <2>4, <2>5, <2>8 DEF RingBegun
  <1>6. CASE ~PreambleEnds(r)
    <2>1. mode' = "preamble"
      BY <1>3, <1>6 DEF HuntPreamble
    <2> QED BY <1>4, <2>1 DEF RingBegun, Begun
  <1> QED BY <1>5, <1>6

LEMMA HeaderKeeps ==
    ASSUME PacketsOK, FeedByte, ParseHeader(Write(inBuf, Head(elem.data)))
    PROVE  RingBegun' /\ WellFormed'
  <1> DEFINE b == Head(elem.data)
             r == Write(inBuf, b)
             c == Contents(inBuf)
             z == Append(c, b)
             p == PreambleSize
  <1>1. mode = "header" /\ queued' = queued /\ inBuf' = r
    BY DEF ParseHeader
  <1>2. /\ c \in Seq(Nat) /\ b \in Nat /\ Contents(r) = z
    BY <1>1, Unpushed DEF PacketsOK
  <1>3. p <= Len(c) /\ Len(c) < p + 3 /\ SubSeq(c, 1, p) = Preamble /\ p \in Nat
    BY <1>1, SizeType DEF PacketsOK, RingBegun, Begun
  <1>4. r \in RingSet
    BY ByteType DEF PacketsOK, StateOK
  <1>5. WellFormed'
    BY <1>1 DEF PacketsOK, WellFormed
  <1>6. Len(z) = DataLenght(r)
    BY <1>2, <1>4, RingIsTyped
  <1>7. ParseHeader(r)
    OBVIOUS
  <1> HIDE DEF b, r, c
  <1>8. /\ z \in Seq(Nat) /\ Len(z) = Len(c) + 1 /\ SubSeq(z, 1, p) = Preamble
    BY <1>2, <1>3, ByteAppended
  <1> HIDE DEF z
  <1> DEFINE l == Len(c)
  <1>9. l \in Nat /\ Len(z) = l + 1 /\ p <= l /\ l < p + 3 /\ DataLenght(r) = l + 1
    BY <1>2, <1>3, <1>6, <1>8
  <1> HIDE DEF p, l
  <1>10. CASE DataLenght(r) >= HeaderSize + PreambleSize
    <2> DEFINE h == ExtractData(r, r.reader + PreambleSize, HeaderSize)
    <2>1. l + 1 = p + 3 /\ HeaderSize = 3
      BY <1>3, <1>9, <1>10, SizeType DEF p
    <2>2. h = SubSeq(z, p + 1, p + 3)
      <3>1. p \in 0..DataLenght(r) /\ 3 \in 0..(DataLenght(r) - p)
        BY <1>3, <1>9, <2>1
      <3> QED BY <1>2, <1>4, <2>1, <3>1, PartFound DEF p
    <2>3. mode' = "body" /\ packet' = [tid |-> h[1], type |-> h[2], length |-> h[3]]
      BY <1>7, <1>10 DEF ParseHeader
    <2> HIDE DEF h
    <2>4. Len(z) = p + 3
      BY <1>9, <2>1
    <2>5. p + 1 \in 1..Len(z) /\ p + 2 \in 1..Len(z) /\ p + 3 \in 1..Len(z)
      BY <1>3, <2>4
    <2>6. h[1] = z[p + 1] /\ h[2] = z[p + 2] /\ h[3] = z[p + 3]
      BY <1>3, <1>8, <2>2, <2>4, <2>5
    <2>7. Begun(z, "body", packet')
      BY <1>3, <1>8, <2>1, <2>3, <2>4, <2>6 DEF Begun, p
    <2> QED BY <1>1, <1>2, <1>5, <2>3, <2>7 DEF RingBegun
  <1>11. CASE ~(DataLenght(r) >= HeaderSize + PreambleSize)
    <2>1. mode' = "header"
      BY <1>1, <1>7, <1>11 DEF ParseHeader
    <2>2. p <= Len(z) /\ Len(z) < p + 3 /\ HeaderSize = 3
      BY <1>3, <1>9, <1>11, SizeType DEF p
    <2>3. Begun(z, "header", packet')
      BY <1>8, <2>2 DEF Begun, p
    <2> QED BY <1>1, <1>2, <1>5, <2>1, <2>3 DEF RingBegun
  <1> QED BY <1>10, <1>11

LEMMA BodyKeeps ==
    ASSUME PacketsOK, FeedByte, ParseBody(Write(inBuf, Head(elem.data)))
    PROVE  RingBegun' /\ WellFormed'
  <1> DEFINE b == Head(elem.data)
             r == Write(inBuf, b)
             c == Contents(inBuf)
             z == Append(c, b)
             p == PreambleSize
             n == Total(packet)
             q == [addr |-> elem.addr, tid |-> packet.tid, bytes |-> SubSeq(Contents(r), 1, n),
                   event |-> packet.type \in {EXB_TYPE_EVENT, EXB_TYPE_EVENTC}]
  <1>1. mode = "body" /\ packet' = packet
    BY DEF ParseBody
  <1>2. /\ r \in RingSet /\ p \in Nat /\ HeaderSize = 3 /\ p = PreambleSize
        /\ packet.length \in Nat /\ n = packet.length + 3 + p /\ n \in Nat
        /\ packet \in [tid : Nat, type : Nat, length : Nat]
    <2>1. r \in RingSet
      BY ByteType DEF PacketsOK, StateOK
    <2>2. packet \in [tid : Nat, type : Nat, length : Nat]
      BY DEF PacketsOK, StateOK, TypeOK
    <2>3. n = packet.length + 3 + p
      BY <2>2, SizeType DEF Total
    <2> HIDE DEF n, r
    <2>4. packet.length \in Nat
      BY <2>2
    <2> QED BY <2>1, <2>2, <2>3, <2>4, SizeType
  <1>3. /\ DataLenght(r) \in 0..(Size - 1) /\ Len(Contents(r)) = DataLenght(r)
        /\ Contents(r) \in Seq(Nat)
    BY <1>2, RingIsTyped
  <1>4. /\ DataLenght(r) >= n =>
              /\ queued' = (IF packet.type = EXB_TYPE_TICK THEN queued ELSE Append(queued, q))
              /\ mode' = "preamble"
        /\ ~(DataLenght(r) >= n) => queued' = queued /\ mode' = mode /\ inBuf' = r
    BY DEF ParseBody, Total
  <1> HIDE DEF n
  <1>5. CASE n >= Size
    <2>1. ~(DataLenght(r) >= n)
      BY <1>2, <1>3, <1>5, SizeType
    <2>2. queued' = queued /\ mode' = mode
      BY <1>4, <2>1
    <2>3. ~(Total(packet) < Size)
      BY <1>2, <1>5, SizeType DEF n
    <2> QED BY <1>1, <2>2, <2>3 DEF RingBegun, Begun, PacketsOK, WellFormed
  <1>6. CASE n < Size
    <2>1. c \in Seq(Nat) /\ b \in Nat /\ Contents(r) = z
      BY <1>1, <1>6, Unpushed DEF PacketsOK, n
    <2>2. /\ Len(c) < n \/ Len(c) = p + 3
          /\ SubSeq(c, 1, p) = Preamble /\ p + 3 <= Len(c)
          /\ packet = [tid |-> c[p + 1], type |-> c[p + 2], length |-> c[p + 3]]
      BY <1>1, <1>2, <1>6 DEF PacketsOK, RingBegun, Begun, n
    <2> HIDE DEF b, r, c, p, q
    <2>3. /\ z \in Seq(Nat) /\ Len(z) = Len(c) + 1 /\ SubSeq(z, 1, p) = Preamble
          /\ \A i \in 1..Len(c) : z[i] = c[i]
      BY <1>2, <2>1, <2>2, ByteAppended
    <2> HIDE DEF z
    <2> DEFINE l == Len(c)
    <2>4. /\ l \in Nat /\ Len(z) = l + 1 /\ p + 3 <= l /\ (l < n \/ l = p + 3)
          /\ DataLenght(r) = l + 1
      BY <1>3, <2>1, <2>2, <2>3
    <2>5. /\ packet.tid = z[p + 1] /\ packet.type = z[p + 2] /\ packet.length = z[p + 3]
          /\ packet = [tid |-> z[p + 1], type |-> z[p + 2], length |-> z[p + 3]]
      <3>1. p + 1 \in 1..Len(c) /\ p + 2 \in 1..Len(c) /\ p + 3 \in 1..Len(c)
        BY <1>2, <2>4
      <3>2. z[p + 1] = c[p + 1] /\ z[p + 2] = c[p + 2] /\ z[p + 3] = c[p + 3]
        BY <2>3, <3>1
      <3> QED BY <2>2, <3>2
    <2> HIDE DEF l
    <2>6. CASE DataLenght(r) >= n
      <3>1. n <= Len(z) /\ n >= PreambleSize + HeaderSize
        BY <1>2, <2>4, <2>6
      <3>2. /\ SubSeq(SubSeq(z, 1, n), 1, p) = Preamble
            /\ LET h == SubSeq(SubSeq(z, 1, n), p + 1, p + HeaderSize)
               IN  h[1] = packet.tid /\ h[2] = packet.type /\ h[3] = packet.length
            /\ Len(SubSeq(z, 1, n)) = n
        BY <1>2, <2>3, <2>5, <3>1, CutPacket DEF p
      <3>3. /\ q.bytes = SubSeq(z, 1, n) /\ q.tid = packet.tid
            /\ q.event = (packet.type \in {EXB_TYPE_EVENT, EXB_TYPE_EVENTC})
        BY <2>1 DEF q
      <3>4. n = PreambleSize + HeaderSize + packet.length
        BY <1>2
      <3>5. GoodPacket(q)
        BY <3>2, <3>3, <3>4 DEF GoodPacket, p
      <3>6. q \in Blobs
        <4>1. elem.addr \in Exbs \cup {TickAddr}
          BY DEF PacketsOK, StateOK, TypeOK
        <4>2. SubSeq(z, 1, n) \in Seq(Nat)
          BY <1>2, <2>3, <3>1
        <4> QED BY <1>2, <2>1, <4>1, <4>2 DEF Blobs, q
      <3>7. WellFormed'
        <4>1. CASE packet.type = EXB_TYPE_TICK
          BY <1>4, <2>6, <4>1 DEF PacketsOK, WellFormed
        <4>2. CASE packet.type # EXB_TYPE_TICK
          BY <1>4, <2>6, <3>5, <3>6, <4>2, GoodQueued DEF PacketsOK, StateOK, TypeOK
        <4> QED BY <4>1, <4>2
      <3>8. mode' = "preamble"
        BY <1>4, <2>6
      <3> QED BY <3>7, <3>8 DEF RingBegun, Begun
    <2>7. CASE ~(DataLenght(r) >= n)
      <3>1. queued' = queued /\ mode' = "body" /\ inBuf' = r
        BY <1>1, <1>4, <2>7
      <3>2. p + 3 <= Len(z) /\ Len(z) < n
        BY <1>2, <2>4, <2>7
      <3>3. Begun(z, "body", packet)
        BY <1>2, <2>3, <2>5, <3>2 DEF Begun, p, n
      <3>4. RingBegun'
        BY <1>1, <2>1, <3>1, <3>3 DEF RingBegun
      <3> QED BY <3>1, <3>4 DEF PacketsOK, WellFormed
    <2> QED BY <2>6, <2>7
  <1>7. n >= Size \/ n < Size
    BY <1>2, SizeType
  <1> QED BY <1>5, <1>6, <1>7

(***************************************************************************)
(* A packet that is queued begins with the preamble and has the            *)
(* transaction, the kind and the length its header gives, whatever the     *)
(* fragments are mixed with.                                               *)
(***************************************************************************)
THEOREM QueuedWellFormed == Spec => []WellFormed
  <1>1. Init => PacketsOK
    BY InitType DEF Init, PacketsOK, RingBegun, Begun, WellFormed
  <1>2. ASSUME PacketsOK, [Next]_vars PROVE PacketsOK'
    <2>1. StateOK'
      BY <1>2, StateType DEF PacketsOK
    <2>2. CASE UNCHANGED <<parser, queued>> \/ TakeFragment
      <3>1. UNCHANGED <<inBuf, mode, packet, queued>>
        BY <2>2 DEF parser, TakeFragment
      <3> QED BY <1>2, <2>1, <3>1 DEF PacketsOK, RingBegun, WellFormed
    <2>3. CASE FeedByte
      BY <1>2, <2>1, <2>3, HuntKeeps, HeaderKeeps, BodyKeeps DEF FeedByte, PacketsOK
    <2> QED BY <1>2, <2>2, <2>3 DEF Next, vars, parser, Receive, Lose, Begin, Tick
  <1>3. PacketsOK => WellFormed
    BY DEF PacketsOK
  <1> QED BY <1>1, <1>2, <1>3, PTL DEF Spec

-----------------------------------------------------------------------------
(* The parser is a channel while the air is orderly.  First, one byte: e   *)
(* is a packet, of which the parser has read o bytes, or all of it and     *)
(* some of the bytes that fill its last fragment up.                       *)

Sent       == [tid : Nat, type : Nat, data : Seq(Nat)]
TickPacket == [tid |-> 1, type |-> EXB_TYPE_TICK, data |-> <<>>]

(***************************************************************************)
(* The bytes after which the packet is queued: one more than it has when   *)
(* it has no body.                                                         *)
(***************************************************************************)
Complete(e) == IF Len(e) = PreambleSize + HeaderSize THEN Len(e) + 1 ELSE Len(e)

EndsWith(c, o, w) == o <= Len(c) /\ \A k \in 1..o : c[Len(c) - o + k] = w[k]

Scanned(e, o, c, m, q) ==
    /\ o < PreambleSize => m = "preamble" /\ EndsWith(c, o, Preamble)
    /\ PreambleSize <= o /\ o < PreambleSize + HeaderSize =>
          m = "header" /\ c = SubSeq(e, 1, o)
    /\ PreambleSize + HeaderSize <= o /\ o < Complete(e) =>
          /\ m = "body" /\ c = SubSeq(e, 1, o)
          /\ q = [tid |-> e[PreambleSize + 1], type |-> e[PreambleSize + 2],
                  length |-> e[PreambleSize + 3]]
    /\ o >= Complete(e) =>
          m = "preamble" /\ \A k \in 1..Len(c) : c[k] # Preamble[1]

RingScanned(e, o) == Scanned(e, o, Contents(inBuf), mode, packet)

NextByte(e, o, b) == IF o + 1 <= Len(e) THEN b = e[o + 1] ELSE b # Preamble[1]

LEMMA ThreeParts ==
    ASSUME NEW p \in Seq(Nat), NEW h \in Seq(Nat), NEW d \in Seq(Nat)
    PROVE  /\ p \o h \o d \in Seq(Nat) /\ Len(p \o h \o d) = Len(p) + Len(h) + Len(d)
           /\ \A i \in 1..Len(p) : (p \o h \o d)[i] = p[i]
           /\ \A i \in 1..Len(h) : (p \o h \o d)[Len(p) + i] = h[i]
  <1> DEFINE q == p \o h
             z == q \o d
  <1>1. /\ q \in Seq(Nat) /\ Len(q) = Len(p) + Len(h)
        /\ \A i \in 1..(Len(p) + Len(h)) :
              q[i] = IF i <= Len(p) THEN p[i] ELSE h[i - Len(p)]
    BY ConcatProperties
  <1>2. Len(p) \in Nat /\ Len(h) \in Nat /\ Len(d) \in Nat
    BY LenProperties
  <1> HIDE DEF q
  <1>3. /\ z \in Seq(Nat) /\ Len(z) = Len(q) + Len(d)
        /\ \A i \in 1..(Len(q) + Len(d)) :
              z[i] = IF i <= Len(q) THEN q[i] ELSE d[i - Len(q)]
    BY <1>1, ConcatProperties
  <1> HIDE DEF z
  <1>4. ASSUME NEW i \in 1..Len(p) PROVE z[i] = p[i]
    <2>1. i \in 1..(Len(q) + Len(d)) /\ i \in 1..(Len(p) + Len(h)) /\ i <= Len(q) /\ i <= Len(p)
      BY <1>1, <1>2
    <2>2. z[i] = q[i] /\ q[i] = p[i]
      BY <1>1, <1>3, <2>1
    <2> QED BY <2>2
  <1>5. ASSUME NEW i \in 1..Len(h) PROVE z[Len(p) + i] = h[i]
    <2>1. /\ Len(p) + i \in 1..(Len(q) + Len(d)) /\ Len(p) + i \in 1..(Len(p) + Len(h))
          /\ ~(Len(p) + i <= Len(p)) /\ Len(p) + i - Len(p) = i /\ Len(p) + i <= Len(q)
      BY <1>1, <1>2
    <2>2. z[Len(p) + i] = q[Len(p) + i]
      BY <1>3, <2>1
    <2>3. q[Len(p) + i] = h[Len(p) + i - Len(p)]
      <3> DEFINE x == Len(p) + i
      <3>1. x \in 1..(Len(p) + Len(h)) /\ ~(x <= Len(p))
        BY <2>1
      <3> HIDE DEF x
      <3>2. q[x] = h[x - Len(p)]
        BY <1>1, <3>1
      <3> QED BY <3>2 DEF x
    <2> QED BY <2>1, <2>2, <2>3
  <1>6. q \o d = z
    BY DEF z
  <1> QED BY <1>1, <1>3, <1>4, <1>5, <1>6 DEF q

LEMMA EncodeBytes ==
    ASSUME NEW p \in Sent
    PROVE  /\ Encode(p) \in Seq(Nat) /\ Len(p.data) \in Nat
           /\ Len(Encode(p)) = PreambleSize + 3 + Len(p.data)
           /\ \A k \in 1..PreambleSize : Encode(p)[k] = Preamble[k]
           /\ Encode(p)[PreambleSize + 1] = p.tid
           /\ Encode(p)[PreambleSize + 2] = p.type
           /\ Encode(p)[PreambleSize + 3] = Len(p.data)
  <1> DEFINE h == <<p.tid, p.type, Len(p.data)>>
  <1>1. p.tid \in Nat /\ p.type \in Nat /\ p.data \in Seq(Nat) /\ Len(p.data) \in Nat
    BY DEF Sent
  <1>2. h \in Seq(Nat) /\ Len(h) = 3 /\ h[1] = p.tid /\ h[2] = p.type /\ h[3] = Len(p.data)
    BY <1>1
  <1>3. Encode(p) = Preamble \o h \o p.data
    BY DEF Encode
  <1> HIDE DEF h
  <1>4. 1 \in 1..Len(h) /\ 2 \in 1..Len(h) /\ 3 \in 1..Len(h)
    BY <1>2
  <1> DEFINE d == p.data
             e == Encode(p)
  <1>5. d \in Seq(Nat) /\ Len(d) \in Nat /\ e = Preamble \o h \o d
    BY <1>1, <1>3
  <1> HIDE DEF d, e
  <1>6. /\ e \in Seq(Nat) /\ Len(e) = Len(Preamble) + Len(h) + Len(d)
        /\ \A i \in 1..Len(Preamble) : e[i] = Preamble[i]
        /\ \A i \in 1..Len(h) : e[Len(Preamble) + i] = h[i]
    <2>1. h \in Seq(Nat) /\ Preamble \in Seq(Nat) /\ d \in Seq(Nat)
      BY <1>2, <1>5, SizeType
    <2> QED BY <1>5, <2>1, ThreeParts
  <1>7. e[Len(Preamble) + 1] = h[1] /\ e[Len(Preamble) + 2] = h[2]
        /\ e[Len(Preamble) + 3] = h[3]
    BY <1>4, <1>6
  <1>8. Len(Preamble) = PreambleSize
    BY SizeType
  <1> QED BY <1>2, <1>5, <1>6, <1>7, <1>8 DEF d, e

(***************************************************************************)
(* The ring ends with the preamble.                                        *)
(***************************************************************************)
LEMMA EndFound ==
    ASSUME NEW r \in RingSet, NEW z, z = Contents(r)
    PROVE  PreambleEnds(r) <=> EndsWith(z, PreambleSize, Preamble)
  <1> DEFINE l == Len(z)
             n == PreambleSize
             off == l - n
             w == SubSeq(z, off + 1, off + n)
  <1>1. z \in Seq(Nat) /\ l = DataLenght(r) /\ l \in Nat
    BY RingIsTyped, SizeType
  <1>2. n \in Nat /\ n = Len(Preamble) /\ Preamble \in Seq(Nat)
    BY SizeType
  <1>3. PreambleEnds(r) <=> l >= n /\ CmpData(r, off, Preamble)
    BY <1>1 DEF PreambleEnds
  <1> SUFFICES ASSUME l >= n
               PROVE  CmpData(r, off, Preamble) <=> \A k \in 1..n : z[off + k] = Preamble[k]
    BY <1>1, <1>2, <1>3 DEF EndsWith
  <1> HIDE DEF n, l
  <1>4. off \in 0..l /\ n \in 0..(l - off) /\ off + n = l
    BY <1>1, <1>2
  <1>5. CmpData(r, off, Preamble) <=> w = Preamble
    <2> HIDE DEF off
    <2>1. off \in 0..DataLenght(r) /\ n \in 0..(DataLenght(r) - off) /\ Len(Preamble) = n
      BY <1>1, <1>2, <1>4
    <2>2. CmpData(r, off, Preamble) <=> SubSeq(Contents(r), off + 1, off + n) = Preamble
      BY <2>1, PartFound
    <2> QED BY <2>2
  <1> HIDE DEF off
  <1>6. w \in Seq(Nat) /\ Len(w) = n /\ \A k \in 1..n : w[k] = z[off + k]
    BY <1>1, <1>2, <1>4 DEF l
  <1> HIDE DEF w
  <1>7. w = Preamble <=> \A k \in 1..n : w[k] = Preamble[k]
    BY <1>2, <1>6, SeqEqual
  <1> QED BY <1>5, <1>6, <1>7

(***************************************************************************)
(* The bytes of a ring after one is written, counted from the end.         *)
(***************************************************************************)
Window(c, b) == IF Len(c) = Size - 1 THEN Append(Tail(c), b) ELSE Append(c, b)

IsWindow(z, c, b) ==
    /\ z \in Seq(Nat) /\ Len(z) \in Nat /\ Len(z) > 0 /\ z[Len(z)] = b
    /\ Len(z) = Len(c) + 1 \/ Len(z) = Size - 1
    /\ \A i \in 1..(Len(z) - 1) : /\ Len(c) - i + 1 \in 1..Len(c)
                                  /\ z[Len(z) - i] = c[Len(c) - i + 1]

LEMMA WindowByte ==
    ASSUME NEW c \in Seq(Nat), NEW b \in Nat, Len(c) <= Size - 1
    PROVE  IsWindow(Window(c, b), c, b)
  <1> DEFINE l == Len(c)
  <1>1. l \in Nat /\ Size \in Nat /\ Size > 1
    BY SizeType
  <1>2. CASE l = Size - 1
    <2> DEFINE t == Tail(c)
               z == Append(t, b)
    <2>1. t \in Seq(Nat) /\ Len(t) = l - 1 /\ \A i \in 1..(l - 1) : t[i] = c[i + 1]
      BY <1>1, <1>2
    <2>2. z \in Seq(Nat) /\ Len(z) = l /\ z[l] = b /\ \A i \in 1..(l - 1) : z[i] = t[i]
      <3> HIDE DEF t
      <3> QED BY <1>1, <1>2, <2>1
    <2>3. Window(c, b) = z
      BY <1>2 DEF Window
    <2> HIDE DEF t, z, l
    <2>4. ASSUME NEW i \in 1..(l - 1) PROVE l - i + 1 \in 1..l /\ z[l - i] = c[l - i + 1]
      <3>1. l - i \in 1..(l - 1) /\ l - i + 1 \in 1..l
        BY <1>1
      <3> QED BY <2>1, <2>2, <3>1
    <2> QED BY <1>1, <1>2, <2>2, <2>3, <2>4 DEF l, IsWindow
  <1>3. CASE l # Size - 1
    <2> DEFINE z == Append(c, b)
    <2>1. z \in Seq(Nat) /\ Len(z) = l + 1 /\ z[l + 1] = b /\ \A i \in 1..l : z[i] = c[i]
      BY <1>1
    <2>2. Window(c, b) = z
      BY <1>3 DEF Window
    <2> HIDE DEF z, l
    <2>3. ASSUME NEW i \in 1..l PROVE l - i + 1 \in 1..l /\ z[l + 1 - i] = c[l - i + 1]
      <3>1. l - i + 1 \in 1..l /\ l + 1 - i = l - i + 1
        BY <1>1
      <3> QED BY <2>1, <3>1
    <2>4. l + 1 - 1 = l
      BY <1>1
    <2> QED BY <1>1, <2>1, <2>2, <2>3, <2>4 DEF l, IsWindow
  <1> QED BY <1>2, <1>3

(***************************************************************************)
(* The last o bytes of the ring, and the one that follows them.            *)
(***************************************************************************)
LEMMA EndGrows ==
    ASSUME NEW c \in Seq(Nat), NEW b \in Nat, Len(c) <= Size - 1, NEW w,
           NEW o \in Nat, EndsWith(c, o, w), o + 1 <= Size - 1, b = w[o + 1]
    PROVE  EndsWith(Window(c, b), o + 1, w)
  <1> DEFINE z == Window(c, b)
             l == Len(c)
             n == Len(z)
  <1>1. /\ n \in Nat /\ n > 0 /\ z[n] = b /\ (n = l + 1 \/ n = Size - 1)
        /\ \A i \in 1..(n - 1) : z[n - i] = c[l - i + 1]
        /\ l \in Nat /\ Size \in Nat
    <2>1. IsWindow(z, c, b)
      BY WindowByte
    <2> HIDE DEF z
    <2>2. n \in Nat /\ n > 0 /\ z[n] = b /\ (n = l + 1 \/ n = Size - 1)
      BY <2>1 DEF IsWindow
    <2>3. \A i \in 1..(n - 1) : z[n - i] = c[l - i + 1]
      BY <2>1 DEF IsWindow
    <2>4. l \in Nat /\ Size \in Nat
      BY SizeType
    <2> QED BY <2>2, <2>3, <2>4
  <1>2. \A k \in 1..o : c[l - o + k] = w[k]
    BY DEF EndsWith
  <1>3. o <= l
    BY DEF EndsWith
  <1> HIDE DEF z, l, n
  <1>4. o + 1 <= n
    BY <1>1, <1>3
  <1>5. ASSUME NEW k \in 1..(o + 1) PROVE z[n - (o + 1) + k] = w[k]
    <2>1. CASE k = o + 1
      <3>1. n - (o + 1) + k = n
        BY <1>1, <2>1
      <3> QED BY <1>1, <2>1, <3>1
    <2>2. CASE k # o + 1
      <3> DEFINE i == o + 1 - k
      <3>1. i \in 1..(n - 1) /\ n - (o + 1) + k = n - i /\ l - i + 1 = l - o + k /\ k \in 1..o
        BY <1>1, <1>4, <2>2
      <3> HIDE DEF i
      <3> QED BY <1>1, <1>2, <3>1
    <2> QED BY <2>1, <2>2
  <1> QED BY <1>4, <1>5 DEF z, n, EndsWith

LEMMA WindowKeeps ==
    ASSUME NEW c \in Seq(Nat), NEW b \in Nat, Len(c) <= Size - 1, NEW v,
           b # v, \A k \in 1..Len(c) : c[k] # v
    PROVE  \A k \in 1..Len(Window(c, b)) : Window(c, b)[k] # v
  <1> DEFINE z == Window(c, b)
             l == Len(c)
             n == Len(z)
  <1>1. /\ n \in Nat /\ n > 0 /\ z[n] = b /\ l \in Nat
        /\ \A i \in 1..(n - 1) : l - i + 1 \in 1..l /\ z[n - i] = c[l - i + 1]
    <2>1. IsWindow(z, c, b)
      BY WindowByte
    <2> HIDE DEF z
    <2> QED BY <2>1 DEF IsWindow
  <1>2. \A k \in 1..l : c[k] # v
    OBVIOUS
  <1> HIDE DEF z, l, n
  <1>3. ASSUME NEW k \in 1..n, k # n PROVE z[k] # v
    <2> DEFINE i == n - k
    <2>1. i \in 1..(n - 1) /\ n - i = k
      BY <1>1, <1>3
    <2> HIDE DEF i
    <2> QED BY <1>1, <1>2, <2>1
  <1>4. \A k \in 1..n : z[k] # v
    BY <1>1, <1>3
  <1> QED BY <1>4 DEF z, n

(***************************************************************************)
(* A byte of the packet p, or of what fills its last fragment up, is taken *)
(* when o have been read; what it makes of the ring and of the queue.      *)
(***************************************************************************)
ByteTaken(p, o) ==
    /\ StateOK /\ FeedByte
    /\ p \in Sent /\ o \in Nat /\ Len(Encode(p)) < Size
    /\ RingScanned(Encode(p), o)
    /\ NextByte(Encode(p), o, Head(elem.data))

QueuedBy(p, o) ==
    IF o + 1 = Complete(Encode(p)) /\ p.type # EXB_TYPE_TICK
    THEN Append(queued, Blob(elem.addr, p)) ELSE queued

LEMMA TakenType ==
    ASSUME NEW p, NEW o, ByteTaken(p, o)
    PROVE  LET r == Write(inBuf, Head(elem.data))
           IN  /\ inBuf \in RingSet /\ r \in RingSet /\ Head(elem.data) \in Nat
               /\ Contents(inBuf) \in Seq(Nat) /\ Len(Contents(inBuf)) <= Size - 1
               /\ Contents(r) \in Seq(Nat) /\ Len(Contents(r)) = DataLenght(r)
               /\ Len(Contents(r)) \in Nat
               /\ Contents(r) = Window(Contents(inBuf), Head(elem.data))
  <1> DEFINE b == Head(elem.data)
  <1>1. inBuf \in RingSet /\ b \in Nat /\ Write(inBuf, b) \in RingSet
    BY ByteType DEF ByteTaken, StateOK
  <1> HIDE DEF b
  <1>2. /\ Contents(inBuf) \in Seq(Nat) /\ Len(Contents(inBuf)) = DataLenght(inBuf)
        /\ DataLenght(inBuf) \in 0..(Size - 1)
    BY <1>1, RingIsTyped
  <1>3. /\ Contents(Write(inBuf, b)) \in Seq(Nat)
        /\ Len(Contents(Write(inBuf, b))) = DataLenght(Write(inBuf, b))
        /\ DataLenght(Write(inBuf, b)) \in 0..(Size - 1)
    BY <1>1, RingIsTyped
  <1>4. Contents(Write(inBuf, b)) = Window(Contents(inBuf), b)
    BY <1>1, ByteWritten DEF Window
  <1>5. Size \in Nat
    BY SizeType
  <1>6. Len(Contents(inBuf)) <= Size - 1 /\ Len(Contents(Write(inBuf, b))) \in Nat
    BY <1>2, <1>3, <1>5
  <1> QED BY <1>1, <1>2, <1>3, <1>4, <1>6 DEF b

LEMMA PacketBytes ==
    ASSUME NEW p \in Sent
    PROVE  LET e == Encode(p)
           IN  /\ e \in Seq(Nat) /\ Len(e) \in Nat /\ Len(e) >= PreambleSize + 3
               /\ \A k \in 1..PreambleSize : e[k] = Preamble[k]
               /\ e[PreambleSize + 1] = p.tid /\ e[PreambleSize + 2] = p.type
               /\ e[PreambleSize + 3] + PreambleSize + 3 = Len(e)
               /\ Complete(e) \in Nat /\ Complete(e) > PreambleSize + 3
               /\ Complete(e) = Len(e) \/ (Len(e) = PreambleSize + 3
                                           /\ Complete(e) = PreambleSize + 4)
  <1> DEFINE e == Encode(p)
             n == Len(p.data)
             l == Len(e)
  <1>1. /\ e \in Seq(Nat) /\ n \in Nat /\ l = PreambleSize + 3 + n
        /\ \A k \in 1..PreambleSize : e[k] = Preamble[k]
        /\ e[PreambleSize + 1] = p.tid /\ e[PreambleSize + 2] = p.type
        /\ e[PreambleSize + 3] = n
    BY EncodeBytes
  <1>2. Complete(e) = IF l = PreambleSize + 3 THEN l + 1 ELSE l
    BY SizeType DEF Complete
  <1> HIDE DEF e, n, l
  <1>3. /\ l \in Nat /\ l >= PreambleSize + 3 /\ e[PreambleSize + 3] + PreambleSize + 3 = l
        /\ Complete(e) \in Nat /\ Complete(e) > PreambleSize + 3
        /\ Complete(e) = l \/ (l = PreambleSize + 3 /\ Complete(e) = PreambleSize + 4)
    BY <1>1, <1>2, SizeType
  <1> QED BY <1>1, <1>3 DEF e, l

LEMMA PrefixGrows ==
    ASSUME NEW S, NEW e \in Seq(S), NEW o \in Nat, o + 1 <= Len(e)
    PROVE  Append(SubSeq(e, 1, o), e[o + 1]) = SubSeq(e, 1, o + 1)
  <1> DEFINE c == SubSeq(e, 1, o)
             z == SubSeq(e, 1, o + 1)
  <1>1. c \in Seq(S) /\ Len(c) = o /\ \A i \in 1..o : c[i] = e[i]
    OBVIOUS
  <1>2. z \in Seq(S) /\ Len(z) = o + 1 /\ \A i \in 1..(o + 1) : z[i] = e[i]
    OBVIOUS
  <1> DEFINE b == e[o + 1]
  <1>3. b \in S /\ z[o + 1] = b
    BY <1>2
  <1> HIDE DEF c, z, b
  <1>4. /\ Append(c, b) \in Seq(S) /\ Len(Append(c, b)) = o + 1
        /\ Append(c, b)[o + 1] = b /\ \A i \in 1..o : Append(c, b)[i] = c[i]
    BY <1>1, <1>3
  <1>5. ASSUME NEW i \in 1..(o + 1) PROVE Append(c, b)[i] = z[i]
    <2>1. i = o + 1 \/ i \in 1..o
      OBVIOUS
    <2> QED BY <1>1, <1>2, <1>3, <1>4, <2>1
  <1>6. Append(c, b) = z
    BY <1>2, <1>4, <1>5, SeqEqual
  <1> QED BY <1>6 DEF c, z, b

LEMMA WholePrefix ==
    ASSUME NEW e \in Seq(Nat)
    PROVE  SubSeq(e, 1, Len(e)) = e
  OBVIOUS

LEMMA PreamblePrefix ==
    ASSUME NEW e \in Seq(Nat), PreambleSize <= Len(e),
           \A k \in 1..PreambleSize : e[k] = Preamble[k]
    PROVE  SubSeq(e, 1, PreambleSize) = Preamble
  <1> DEFINE c == SubSeq(e, 1, PreambleSize)
  <1>1. c \in Seq(Nat) /\ Len(c) = PreambleSize /\ \A k \in 1..PreambleSize : c[k] = e[k]
    BY SizeType
  <1> HIDE DEF c
  <1>2. c = Preamble
    BY <1>1, SizeType, SeqEqual
  <1> QED BY <1>2 DEF c

LEMMA ScannedCases ==
    ASSUME NEW e, NEW o \in Nat, NEW c, NEW q,
           Complete(e) \in Nat, Complete(e) > PreambleSize + 3
    PROVE  /\ o < PreambleSize /\ EndsWith(c, o, Preamble) => Scanned(e, o, c, "preamble", q)
           /\ PreambleSize <= o /\ o < PreambleSize + 3 /\ c = SubSeq(e, 1, o)
                 => Scanned(e, o, c, "header", q)
           /\ PreambleSize + 3 <= o /\ o < Complete(e) /\ c = SubSeq(e, 1, o)
              /\ q = [tid |-> e[PreambleSize + 1], type |-> e[PreambleSize + 2],
                      length |-> e[PreambleSize + 3]]
                 => Scanned(e, o, c, "body", q)
           /\ o >= Complete(e) /\ (\A k \in 1..Len(c) : c[k] # Preamble[1])
                 => Scanned(e, o, c, "preamble", q)
  <1> DEFINE n == Complete(e)
             P == PreambleSize
  <1>1. n \in Nat /\ n > P + 3 /\ P \in Nat /\ HeaderSize = 3
    BY SizeType
  <1> HIDE DEF n, P
  <1>2. /\ o < P => ~(P <= o) /\ ~(P + 3 <= o) /\ ~(o >= n)
        /\ P <= o /\ o < P + 3 => ~(o < P) /\ ~(P + 3 <= o) /\ ~(o >= n)
        /\ P + 3 <= o /\ o < n => ~(o < P) /\ ~(o < P + 3) /\ ~(o >= n)
        /\ o >= n => ~(o < P) /\ ~(o < P + 3) /\ ~(o < n)
    BY <1>1
  <1>3. ASSUME o < P, EndsWith(c, o, Preamble) PROVE Scanned(e, o, c, "preamble", q)
    BY <1>1, <1>2, <1>3 DEF Scanned, n, P
  <1>4. ASSUME P <= o, o < P + 3, c = SubSeq(e, 1, o) PROVE Scanned(e, o, c, "header", q)
    BY <1>1, <1>2, <1>4 DEF Scanned, n, P
  <1>5. ASSUME P + 3 <= o, o < n, c = SubSeq(e, 1, o),
               q = [tid |-> e[P + 1], type |-> e[P + 2], length |-> e[P + 3]]
        PROVE  Scanned(e, o, c, "body", q)
    BY <1>1, <1>2, <1>5 DEF Scanned, n, P
  <1>6. ASSUME o >= n, \A k \in 1..Len(c) : c[k] # Preamble[1]
        PROVE  Scanned(e, o, c, "preamble", q)
    BY <1>1, <1>2, <1>6 DEF Scanned, n, P
  <1> QED BY <1>3, <1>4, <1>5, <1>6 DEF n, P

(***************************************************************************)
(* While the preamble is awaited.                                          *)
(***************************************************************************)
LEMMA HuntScan ==
    ASSUME NEW p, NEW o, ByteTaken(p, o), HuntPreamble(Write(inBuf, Head(elem.data)))
    PROVE  /\ Scanned(Encode(p), o + 1, Contents(inBuf'), mode', packet')
           /\ queued' = QueuedBy(p, o)
  <1> DEFINE b == Head(elem.data)
             r == Write(inBuf, b)
             c == Contents(inBuf)
             z == Contents(r)
             e == Encode(p)
             l == Len(z)
             P == PreambleSize
  <1>1. /\ r \in RingSet /\ b \in Nat /\ c \in Seq(Nat) /\ Len(c) <= Size - 1
        /\ z \in Seq(Nat) /\ l = DataLenght(r) /\ l \in Nat /\ z = Window(c, b)
    BY TakenType
  <1>2. p \in Sent /\ o \in Nat /\ Scanned(e, o, c, mode, packet) /\ NextByte(e, o, b)
    BY DEF ByteTaken, RingScanned
  <1>3. /\ e \in Seq(Nat) /\ Len(e) \in Nat /\ Len(e) >= P + 3
        /\ \A k \in 1..P : e[k] = Preamble[k]
        /\ Complete(e) \in Nat /\ Complete(e) > P + 3
        /\ Complete(e) = Len(e) \/ (Len(e) = P + 3 /\ Complete(e) = P + 4)
    BY <1>2, PacketBytes
  <1>4. mode = "preamble" /\ queued' = queued
        /\ IF PreambleEnds(r)
           THEN inBuf' = ShiftReader(r, DataLenght(r) - P) /\ mode' = "header"
           ELSE inBuf' = r /\ mode' = mode
    BY DEF HuntPreamble
  <1>5. P \in Nat /\ P > 0 /\ HeaderSize = 3 /\ P + 3 < Size - 1 /\ Size \in Nat
        /\ P = Len(Preamble)
    BY SizeType
  <1>6. PreambleEnds(r) <=> EndsWith(z, P, Preamble)
    BY <1>1, EndFound
  <1>7. \A i \in 2..P : Preamble[i] # Preamble[1]
    BY GateOutStreamAssumption
  <1>8. QueuedBy(p, o) = IF o + 1 = Complete(e) /\ p.type # EXB_TYPE_TICK
                         THEN Append(queued, Blob(elem.addr, p)) ELSE queued
    BY DEF QueuedBy
  <1> HIDE DEF b, r, c, z, e, l, P
  <1>9. o < P \/ o >= Complete(e)
    BY <1>2, <1>3, <1>4, <1>5 DEF Scanned, P
  <1>10. CASE o < P
    <2>1. EndsWith(c, o, Preamble)
      BY <1>2, <1>10 DEF Scanned, P
    <2>2. b = Preamble[o + 1]
      <3>1. o + 1 \in 1..P /\ o + 1 <= Len(e)
        BY <1>2, <1>3, <1>5, <1>10
      <3> QED BY <1>2, <1>3, <3>1 DEF NextByte
    <2>3. EndsWith(z, o + 1, Preamble)
      <3>1. o + 1 <= Size - 1
        BY <1>2, <1>5, <1>10
      <3> QED BY <1>1, <1>2, <2>1, <2>2, <3>1, EndGrows
    <2>4. o + 1 # Complete(e)
      BY <1>2, <1>3, <1>5, <1>10
    <2>5. queued' = QueuedBy(p, o)
      BY <1>4, <1>8, <2>4
    <2>6. CASE o + 1 = P
      <3>1. PreambleEnds(r)
        BY <1>6, <2>3, <2>6
      <3>2. mode' = "header" /\ inBuf' = ShiftReader(r, l - P) /\ P <= l
        BY <1>1, <1>4, <1>6, <3>1 DEF EndsWith, l
      <3>3. l - P \in 0..l /\ P \in 0..(l - (l - P)) /\ l - P + P = l
        BY <1>1, <1>5, <3>2
      <3> DEFINE off == l - P
      <3>4. /\ off \in 0..DataLenght(r) /\ P \in 0..(DataLenght(r) - off) /\ off + P = l
        BY <1>1, <3>3
      <3>5. CmpData(r, off, Preamble)
        BY <1>1, <3>1 DEF PreambleEnds, P
      <3> HIDE DEF off
      <3>6. SubSeq(z, off + 1, off + P) = Preamble
        BY <1>1, <1>5, <3>4, <3>5, PartFound DEF z
      <3>7. Contents(ShiftReader(r, off)) = SubSeq(z, off + 1, l)
        BY <1>1, <3>4, ReaderShifted DEF z, l
      <3>8. Contents(inBuf') = Preamble
        BY <3>2, <3>4, <3>6, <3>7 DEF off
      <3>9. SubSeq(e, 1, P) = Preamble
        BY <1>3, <1>5, PreamblePrefix DEF P
      <3>10. Scanned(e, P, Preamble, "header", packet')
        <4>1. P \in Nat /\ P <= P /\ P < P + 3
          BY <1>5
        <4> QED BY <1>3, <3>9, <4>1, ScannedCases DEF P
      <3> QED BY <2>5, <2>6, <3>2, <3>8, <3>10 DEF e
    <2>7. CASE o + 1 # P
      <3>1. ~PreambleEnds(r)
        <4> SUFFICES ASSUME EndsWith(z, P, Preamble) PROVE FALSE
          BY <1>6
        <4> DEFINE k == P - o
        <4>1. k \in 2..P /\ 1 \in 1..(o + 1) /\ l - P + k = l - (o + 1) + 1
          <5>1. o + 1 < P
            BY <1>2, <1>5, <1>10, <2>7
          <5>2. k \in 2..P /\ 1 \in 1..(o + 1)
            BY <1>2, <1>5, <5>1
          <5>3. l - P + k = l - (o + 1) + 1
            BY <1>1, <1>2, <1>5
          <5> QED BY <5>2, <5>3
        <4> HIDE DEF k
        <4>2. z[l - P + k] = Preamble[k]
          BY <4>1 DEF EndsWith, l
        <4>3. z[l - (o + 1) + 1] = Preamble[1]
          BY <2>3, <4>1 DEF EndsWith, l
        <4> QED BY <1>7, <4>1, <4>2, <4>3
      <3>2. inBuf' = r /\ mode' = "preamble"
        BY <1>4, <3>1
      <3>3. o + 1 < P /\ o + 1 < Complete(e)
        BY <1>2, <1>3, <1>5, <1>10, <2>7
      <3>4. Scanned(e, o + 1, z, "preamble", packet')
        <4>1. o + 1 \in Nat /\ o + 1 < PreambleSize
          BY <1>2, <3>3 DEF P
        <4> QED BY <1>3, <2>3, <4>1, ScannedCases DEF P
      <3> QED BY <2>5, <3>2, <3>4 DEF e, z
    <2> QED BY <2>6, <2>7
  <1>11. CASE o >= Complete(e)
    <2>1. \A k \in 1..Len(c) : c[k] # Preamble[1]
      BY <1>2, <1>11 DEF Scanned
    <2>2. b # Preamble[1]
      <3>1. ~(o + 1 <= Len(e))
        BY <1>2, <1>3, <1>5, <1>11
      <3> QED BY <1>2, <3>1 DEF NextByte
    <2>3. \A k \in 1..l : z[k] # Preamble[1]
      BY <1>1, <2>1, <2>2, WindowKeeps DEF l
    <2>4. ~PreambleEnds(r)
      <3> SUFFICES ASSUME EndsWith(z, P, Preamble) PROVE FALSE
        BY <1>6
      <3>1. P <= l /\ 1 \in 1..P /\ l - P + 1 \in 1..l
        BY <1>1, <1>5 DEF EndsWith, l
      <3>2. z[l - P + 1] = Preamble[1]
        BY <3>1 DEF EndsWith, l
      <3> QED BY <2>3, <3>1, <3>2
    <2>5. inBuf' = r /\ mode' = "preamble"
      BY <1>4, <2>4
    <2>6. o + 1 > Complete(e) /\ o + 1 # Complete(e)
      BY <1>2, <1>3, <1>11
    <2>7. Scanned(e, o + 1, z, "preamble", packet')
      <3>1. o + 1 \in Nat /\ o + 1 >= Complete(e)
        BY <1>2, <1>3, <2>6
      <3> QED BY <1>3, <2>3, <3>1, ScannedCases DEF P, l
    <2>8. queued' = QueuedBy(p, o)
      BY <1>4, <1>8, <2>6
    <2> QED BY <2>5, <2>7, <2>8 DEF e, z
  <1> QED BY <1>9, <1>10, <1>11

(***************************************************************************)
(* The ring is not full while it holds a part of a packet that fits.       *)
(***************************************************************************)
LEMMA PartGrows ==
    ASSUME NEW p, NEW o, ByteTaken(p, o), Contents(inBuf) = SubSeq(Encode(p), 1, o),
           o + 1 <= Len(Encode(p))
    PROVE  Contents(Write(inBuf, Head(elem.data))) = SubSeq(Encode(p), 1, o + 1)
  <1> DEFINE b == Head(elem.data)
             c == Contents(inBuf)
             e == Encode(p)
  <1>1. /\ Contents(Write(inBuf, b)) = Window(c, b) /\ c = SubSeq(e, 1, o)
        /\ o + 1 <= Len(e)
    BY TakenType
  <1>2. o \in Nat /\ e \in Seq(Nat) /\ Len(e) < Size /\ NextByte(e, o, b) /\ Size \in Nat
    BY PacketBytes, SizeType DEF ByteTaken
  <1> HIDE DEF b, c, e
  <1>3. b = e[o + 1]
    BY <1>1, <1>2 DEF NextByte
  <1>4. Len(c) = o
    BY <1>1, <1>2
  <1>5. Len(c) # Size - 1
    <2>1. Len(e) \in Nat
      BY <1>2
    <2> QED BY <1>1, <1>2, <1>4, <2>1
  <1>6. Window(c, b) = Append(c, b)
    BY <1>5 DEF Window
  <1>7. Append(c, b) = SubSeq(e, 1, o + 1)
    BY <1>1, <1>2, <1>3, PrefixGrows
  <1> QED BY <1>1, <1>6, <1>7 DEF b, e

(***************************************************************************)
(* While the header is awaited.                                            *)
(***************************************************************************)
LEMMA HeaderScan ==
    ASSUME NEW p, NEW o, ByteTaken(p, o), ParseHeader(Write(inBuf, Head(elem.data)))
    PROVE  /\ Scanned(Encode(p), o + 1, Contents(inBuf'), mode', packet')
           /\ queued' = QueuedBy(p, o)
  <1> DEFINE b == Head(elem.data)
             r == Write(inBuf, b)
             c == Contents(inBuf)
             z == Contents(r)
             e == Encode(p)
             P == PreambleSize
             h == ExtractData(r, r.reader + P, 3)
  <1>1. /\ r \in RingSet /\ z \in Seq(Nat) /\ Len(z) = DataLenght(r)
    BY TakenType
  <1>2. p \in Sent /\ o \in Nat /\ Scanned(e, o, c, mode, packet)
    BY DEF ByteTaken, RingScanned
  <1>3. /\ e \in Seq(Nat) /\ Len(e) \in Nat /\ Len(e) >= P + 3
        /\ Complete(e) \in Nat /\ Complete(e) > P + 3
    BY <1>2, PacketBytes
  <1>4. P \in Nat /\ P > 0 /\ HeaderSize = 3
    BY SizeType
  <1>5. /\ mode = "header" /\ queued' = queued /\ inBuf' = r
        /\ IF DataLenght(r) >= 3 + P
           THEN /\ packet' = [tid |-> h[1], type |-> h[2], length |-> h[3]] /\ mode' = "body"
           ELSE UNCHANGED <<packet, mode>>
    BY <1>4 DEF ParseHeader
  <1>6. QueuedBy(p, o) = IF o + 1 = Complete(e) /\ p.type # EXB_TYPE_TICK
                         THEN Append(queued, Blob(elem.addr, p)) ELSE queued
    BY DEF QueuedBy
  <1> HIDE DEF b, r, c, e, P
  <1>7. P <= o /\ o < P + 3 /\ c = SubSeq(e, 1, o)
    BY <1>2, <1>3, <1>4, <1>5 DEF Scanned, P
  <1>8. z = SubSeq(e, 1, o + 1)
    <2>1. o + 1 <= Len(e)
      BY <1>2, <1>3, <1>4, <1>7
    <2> QED BY <1>7, <2>1, PartGrows DEF c, e, r, b
  <1>9. Len(z) = o + 1 /\ \A i \in 1..(o + 1) : z[i] = e[i]
    BY <1>2, <1>3, <1>4, <1>7, <1>8
  <1>10. queued' = QueuedBy(p, o)
    <2>1. o + 1 # Complete(e)
      BY <1>2, <1>3, <1>4, <1>7
    <2> QED BY <1>5, <1>6, <2>1
  <1> HIDE DEF z
  <1>11. CASE o + 1 = P + 3
    <2>1. DataLenght(r) = P + 3 /\ DataLenght(r) >= 3 + P
      BY <1>1, <1>4, <1>9, <1>11
    <2>2. h = SubSeq(z, P + 1, P + 3)
      <3>1. P \in 0..DataLenght(r) /\ 3 \in 0..(DataLenght(r) - P)
        BY <1>4, <2>1
      <3>2. ExtractData(r, r.reader + P, 3) = SubSeq(Contents(r), P + 1, P + 3)
        BY <1>1, <3>1, PartFound
      <3> QED BY <3>2 DEF z
    <2>3. packet' = [tid |-> h[1], type |-> h[2], length |-> h[3]] /\ mode' = "body"
      BY <1>5, <2>1
    <2> HIDE DEF h
    <2>4. /\ P + 1 \in 1..(o + 1) /\ P + 2 \in 1..(o + 1) /\ P + 3 \in 1..(o + 1)
          /\ Len(z) = P + 3
      BY <1>4, <1>9, <1>11
    <2>5. h[1] = z[P + 1] /\ h[2] = z[P + 2] /\ h[3] = z[P + 3]
      BY <1>1, <1>4, <2>2, <2>4
    <2>6. packet' = [tid |-> e[P + 1], type |-> e[P + 2], length |-> e[P + 3]]
      BY <1>9, <2>3, <2>4, <2>5
    <2>7. o + 1 \in Nat /\ P + 3 <= o + 1 /\ o + 1 < Complete(e)
      BY <1>2, <1>3, <1>4, <1>11
    <2>8. Scanned(e, o + 1, z, "body", packet')
      BY <1>3, <1>8, <2>6, <2>7, ScannedCases DEF P
    <2> QED BY <1>5, <1>10, <2>3, <2>8 DEF e, z
  <1>12. CASE o + 1 # P + 3
    <2>1. /\ ~(DataLenght(r) >= 3 + P)
          /\ o + 1 \in Nat /\ P <= o + 1 /\ o + 1 < P + 3
      BY <1>1, <1>2, <1>4, <1>7, <1>9, <1>12
    <2>2. mode' = "header"
      BY <1>5, <2>1
    <2>3. Scanned(e, o + 1, z, "header", packet')
      BY <1>3, <1>8, <2>1, ScannedCases DEF P
    <2> QED BY <1>5, <1>10, <2>2, <2>3 DEF e, z
  <1> QED BY <1>11, <1>12

(***************************************************************************)
(* While the body is awaited.                                              *)
(***************************************************************************)
LEMMA BodyScan ==
    ASSUME NEW p, NEW o, ByteTaken(p, o), ParseBody(Write(inBuf, Head(elem.data)))
    PROVE  /\ Scanned(Encode(p), o + 1, Contents(inBuf'), mode', packet')
           /\ queued' = QueuedBy(p, o)
  <1> DEFINE b == Head(elem.data)
             r == Write(inBuf, b)
             c == Contents(inBuf)
             z == Contents(r)
             e == Encode(p)
             P == PreambleSize
             l == Len(e)
             n == Total(packet)
             q == [addr |-> elem.addr, tid |-> packet.tid, bytes |-> SubSeq(z, 1, n),
                   event |-> packet.type \in {EXB_TYPE_EVENT, EXB_TYPE_EVENTC}]
  <1>1. /\ r \in RingSet /\ z \in Seq(Nat) /\ Len(z) = DataLenght(r) /\ b \in Nat
        /\ c \in Seq(Nat) /\ z = Window(c, b)
    BY TakenType
  <1>2. p \in Sent /\ o \in Nat /\ Scanned(e, o, c, mode, packet) /\ l < Size
    BY DEF ByteTaken, RingScanned
  <1>3. /\ e \in Seq(Nat) /\ l \in Nat /\ l >= P + 3
        /\ e[P + 1] = p.tid /\ e[P + 2] = p.type /\ e[P + 3] + P + 3 = l
        /\ Complete(e) \in Nat /\ Complete(e) > P + 3
        /\ Complete(e) = l \/ (l = P + 3 /\ Complete(e) = P + 4)
    BY <1>2, PacketBytes
  <1>4. P \in Nat /\ P > 0 /\ HeaderSize = 3 /\ P + 3 < Size - 1 /\ Size \in Nat
    BY SizeType
  <1>5. /\ mode = "body" /\ packet' = packet
        /\ IF DataLenght(r) >= n
           THEN /\ queued' = IF packet.type = EXB_TYPE_TICK THEN queued ELSE Append(queued, q)
                /\ inBuf' = DataClear(r) /\ mode' = "preamble"
           ELSE inBuf' = r /\ queued' = queued /\ mode' = mode
    BY DEF ParseBody, Total
  <1>6. QueuedBy(p, o) = IF o + 1 = Complete(e) /\ p.type # EXB_TYPE_TICK
                         THEN Append(queued, Blob(elem.addr, p)) ELSE queued
    BY DEF QueuedBy
  <1>7. n = packet.length + HeaderSize + P
    BY DEF Total
  <1> HIDE DEF b, r, c, e, P, l, n
  <1>8. /\ P + 3 <= o /\ o < Complete(e) /\ c = SubSeq(e, 1, o)
        /\ packet = [tid |-> e[P + 1], type |-> e[P + 2], length |-> e[P + 3]]
    <2>1. /\ o < P => mode = "preamble"
          /\ P <= o /\ o < P + 3 => mode = "header"
          /\ o >= Complete(e) => mode = "preamble"
      BY <1>2, <1>4 DEF Scanned, P
    <2>2. P + 3 <= o /\ o < Complete(e)
      <3> DEFINE n0 == Complete(e)
      <3> HIDE DEF n0
      <3>1. o >= n0 => mode = "preamble"
        BY <2>1 DEF n0
      <3>2. n0 \in Nat
        BY <1>3 DEF n0
      <3>3. P + 3 <= o /\ o < n0
        BY <1>2, <1>4, <1>5, <2>1, <3>1, <3>2
      <3> QED BY <3>3 DEF n0
    <2> QED BY <1>2, <1>4, <2>2 DEF Scanned, P
  <1>9. packet.tid = p.tid /\ packet.type = p.type /\ packet.length = e[P + 3]
    BY <1>3, <1>8
  <1>10. n = l
    <2>1. e[P + 3] \in Nat
      <3>1. P + 3 \in 1..Len(e)
        BY <1>3, <1>4 DEF l
      <3> QED BY <1>3, <3>1
    <2> QED BY <1>3, <1>4, <1>7, <1>9, <2>1
  <1> DEFINE m == Complete(e)
  <1>a. /\ l \in Nat /\ o \in Nat /\ P \in Nat /\ m \in Nat /\ P + 3 <= o /\ o < m
        /\ l >= P + 3 /\ (m = l \/ (l = P + 3 /\ m = P + 4))
    BY <1>2, <1>3, <1>4, <1>8
  <1> HIDE DEF m
  <1>11. ASSUME DataLenght(r) >= l, SubSeq(z, 1, l) = e, o + 1 = Complete(e)
         PROVE  /\ Scanned(e, o + 1, Contents(inBuf'), mode', packet')
                /\ queued' = QueuedBy(p, o)
    <2>1. /\ queued' = IF packet.type = EXB_TYPE_TICK THEN queued ELSE Append(queued, q)
          /\ inBuf' = DataClear(r) /\ mode' = "preamble"
      BY <1>5, <1>10, <1>11
    <2>2. q = Blob(elem.addr, p)
      BY <1>9, <1>10, <1>11 DEF Blob, e
    <2>3. queued' = QueuedBy(p, o)
      BY <1>6, <1>9, <1>11, <2>1, <2>2
    <2>4. Contents(inBuf') = <<>>
      BY <1>1, <2>1, RingCleared
    <2>5. o + 1 \in Nat /\ o + 1 >= Complete(e)
      BY <1>2, <1>3, <1>11
    <2>6. \A k \in 1..Len(<<>>) : <<>>[k] # Preamble[1]
      OBVIOUS
    <2>7. Scanned(e, o + 1, <<>>, "preamble", packet')
      BY <1>3, <2>5, <2>6, ScannedCases DEF P
    <2> QED BY <2>1, <2>3, <2>4, <2>7
  <1>12. CASE o + 1 <= l
    <2>1. z = SubSeq(e, 1, o + 1)
      BY <1>8, <1>12, PartGrows DEF c, e, r, b, l
    <2>2. Len(z) = o + 1
      BY <1>2, <1>3, <1>12, <2>1 DEF l
    <2>3. CASE o + 1 = l
      <3>1. z = e
        BY <1>3, <2>1, <2>3, WholePrefix DEF l
      <3>2. SubSeq(z, 1, l) = e
        BY <1>3, <3>1, WholePrefix DEF l
      <3>3. DataLenght(r) >= l
        BY <1>1, <1>3, <2>2, <2>3
      <3>4. o + 1 = Complete(e)
        <4>1. o + 1 = m
          BY <1>a, <2>3
        <4> QED BY <4>1 DEF m
      <3> QED BY <1>11, <3>2, <3>3, <3>4 DEF e
    <2>4. CASE o + 1 # l
      <3>1. ~(DataLenght(r) >= n) /\ o + 1 # Complete(e)
        <4>1. o + 1 < l /\ o + 1 # m
          BY <1>a, <1>12, <2>4
        <4>2. DataLenght(r) = o + 1
          BY <1>1, <2>2
        <4> QED BY <1>a, <1>10, <4>1, <4>2 DEF m
      <3>2. inBuf' = r /\ queued' = queued /\ mode' = "body"
        BY <1>5, <3>1
      <3>3. o + 1 \in Nat /\ P + 3 <= o + 1 /\ o + 1 < Complete(e)
        <4>1. o + 1 \in Nat /\ P + 3 <= o + 1 /\ o + 1 < m
          BY <1>a, <1>12, <2>4
        <4> QED BY <4>1 DEF m
      <3>4. Scanned(e, o + 1, z, "body", packet')
        BY <1>3, <1>5, <1>8, <2>1, <3>3, ScannedCases DEF P
      <3>5. queued' = QueuedBy(p, o)
        BY <1>6, <3>1, <3>2
      <3> QED BY <3>2, <3>4, <3>5 DEF e
    <2> QED BY <2>3, <2>4
  <1>13. CASE ~(o + 1 <= l)
    <2>1. l = P + 3 /\ o = l /\ o + 1 = Complete(e)
      BY <1>a, <1>13 DEF m
    <2>2. c = e
      BY <1>3, <1>8, <2>1, WholePrefix DEF l
    <2>3. z = Append(e, b)
      <3>1. Len(c) # Size - 1
        BY <1>4, <2>1, <2>2 DEF l
      <3> QED BY <1>1, <2>2, <3>1 DEF Window
    <2>4. Len(z) = l + 1 /\ SubSeq(z, 1, l) = SubSeq(e, 1, l)
      BY <1>1, <1>3, <2>3, ByteAppended DEF l
    <2>5. SubSeq(z, 1, l) = e
      BY <1>3, <2>4, WholePrefix DEF l
    <2>6. DataLenght(r) >= l
      BY <1>1, <1>3, <2>4
    <2> QED BY <1>11, <2>1, <2>5, <2>6 DEF e
  <1> QED BY <1>12, <1>13

(***************************************************************************)
(* One byte of a packet, whichever.                                        *)
(***************************************************************************)
LEMMA ByteScan ==
    ASSUME NEW p, NEW o, ByteTaken(p, o)
    PROVE  /\ Scanned(Encode(p), o + 1, Contents(inBuf'), mode', packet')
           /\ queued' = QueuedBy(p, o)
  BY HuntScan, HeaderScan, BodyScan DEF ByteTaken, FeedByte

-----------------------------------------------------------------------------
(* Second, the fragments of one packet.                                    *)

Before(x) == (x - 1) * FragSize

LEMMA BeforeType ==
    /\ Before(1) = 0
    /\ \A x \in Nat : x > 0 => Before(x) \in Nat /\ Before(x + 1) = Before(x) + FragSize
    /\ \A x, y \in Nat : 0 < x /\ x <= y => Before(x) <= Before(y)
  <1>1. FragSize \in Nat
    BY SizeType
  <1>2. Before(1) = 0
    BY <1>1 DEF Before
  <1>3. ASSUME NEW x \in Nat, x > 0
        PROVE  Before(x) \in Nat /\ Before(x + 1) = Before(x) + FragSize
    <2>1. x - 1 \in Nat
      BY <1>3
    <2>2. (x - 1) * FragSize \in Nat
      BY <1>1, <2>1, Multiple
    <2>3. (x + 1 - 1) * FragSize = (x - 1) * FragSize + FragSize
      BY <1>1
    <2> QED BY <2>2, <2>3 DEF Before
  <1>4. ASSUME NEW x \in Nat, NEW y \in Nat, 0 < x, x <= y PROVE Before(x) <= Before(y)
    <2>1. y - x \in Nat
      BY <1>4
    <2>2. (y - x) * FragSize \in Nat
      BY <1>1, <2>1, Multiple
    <2>3. (y - 1) * FragSize = (x - 1) * FragSize + (y - x) * FragSize
      BY <1>1
    <2>4. (x - 1) * FragSize \in Nat
      BY <1>3, <1>4 DEF Before
    <2> DEFINE u == (x - 1) * FragSize
               v == (y - x) * FragSize
               w == (y - 1) * FragSize
    <2>5. u \in Nat /\ v \in Nat /\ w = u + v
      BY <2>2, <2>3, <2>4
    <2> HIDE DEF u, v, w
    <2>6. u <= w
      BY <2>5
    <2> QED BY <2>6 DEF Before, u, w
  <1> QED BY <1>2, <1>3, <1>4

LEMMA DivBounds ==
    ASSUME NEW m \in Nat, NEW f \in Nat, f > 0
    PROVE  LET n == (m + f - 1) \div f
           IN  n \in Nat /\ m <= n * f /\ n * f < m + f
  OBVIOUS

(***************************************************************************)
(* The fragments q carry the packet e and after it bytes that are not the  *)
(* first of the preamble; the packet is complete in the last of them.      *)
(***************************************************************************)
Cuts(q, e) ==
    /\ q \in Seq(Seq(Nat)) /\ Len(q) > 0
    /\ \A x \in 1..Len(q) :
          Len(q[x]) = FragSize
          /\ \A k \in 1..FragSize : NextByte(e, Before(x) + k - 1, q[x][k])
    /\ Before(Len(q)) < Complete(e) /\ Complete(e) <= Before(Len(q) + 1)

LEMMA PacketCut ==
    ASSUME NEW p \in Sent
    PROVE  Cuts(Fragments(Encode(p)), Encode(p))
  <1> DEFINE e == Encode(p)
             l == Len(e)
             n == (l + FragSize - 1) \div FragSize
             q == Fragments(e)
             C == Complete(e)
  <1>1. /\ e \in Seq(Nat) /\ l \in Nat /\ l >= PreambleSize + 3
        /\ C = l \/ (l = PreambleSize + 3 /\ C = PreambleSize + 4)
    BY PacketBytes
  <1>2. n \in Nat /\ l <= n * FragSize /\ n * FragSize < l + FragSize
    <2> HIDE DEF l
    <2>1. l \in Nat /\ FragSize \in Nat /\ FragSize > 0
      BY <1>1, SizeType
    <2> QED BY <2>1, DivBounds
  <1>3. q \in Seq(Seq(Nat))
    BY <1>1, FragmentsType
  <1>4. q = [i \in 1..n |-> [k \in 1..FragSize |->
               IF Before(i) + k <= l THEN e[Before(i) + k] ELSE 0]]
    BY DEF Fragments, Before
  <1> HIDE DEF e, l, q, n
  <1>5. Len(q) = n
    BY <1>2, <1>4
  <1>6. n > 0
    <2>1. CASE n = 0
      <3>1. n * FragSize = 0
        BY <2>1, SizeType
      <3> QED BY <1>1, <1>2, <3>1, SizeType
    <2> QED BY <1>2, <2>1
  <1>7. ASSUME NEW x \in 1..n PROVE
          /\ Len(q[x]) = FragSize
          /\ \A k \in 1..FragSize : NextByte(e, Before(x) + k - 1, q[x][k])
    <2>1. q[x] = [k \in 1..FragSize |->
                    IF Before(x) + k <= l THEN e[Before(x) + k] ELSE 0]
      BY <1>4
    <2>2. Len(q[x]) = FragSize
      BY <2>1, SizeType
    <2>3. Before(x) \in Nat
      BY <1>2, BeforeType
    <2>4. ASSUME NEW k \in 1..FragSize PROVE NextByte(e, Before(x) + k - 1, q[x][k])
      <3>1. Before(x) + k - 1 + 1 = Before(x) + k
        BY <2>3, SizeType
      <3>2. q[x][k] = IF Before(x) + k <= l THEN e[Before(x) + k] ELSE 0
        BY <2>1
      <3>3. Preamble[1] # 0
        BY GateOutStreamAssumption
      <3> QED BY <3>1, <3>2, <3>3 DEF NextByte, l
    <2> QED BY <2>2, <2>4
  <1>8. Before(n) < C /\ C <= Before(n + 1)
    <2> DEFINE v == Before(n)
    <2>1. v \in Nat /\ Before(n + 1) = v + FragSize
      BY <1>2, <1>6, BeforeType
    <2>2. n * FragSize = v + FragSize
      <3>1. n * FragSize = (n - 1) * FragSize + FragSize
        BY <1>2, SizeType
      <3> QED BY <3>1 DEF Before
    <2> HIDE DEF v, C
    <2>3. l <= v + FragSize /\ v < l
      BY <1>1, <1>2, <2>1, <2>2, SizeType
    <2>4. v < C /\ C <= v + FragSize
      BY <1>1, <2>1, <2>3, SizeType
    <2> QED BY <2>1, <2>4 DEF v
  <1>9. Cuts(q, e)
    BY <1>3, <1>5, <1>6, <1>7, <1>8 DEF Cuts
  <1> QED BY <1>9 DEF q, e

LEMMA TickCut ==
    /\ TickPacket \in Sent /\ TickFragment \in Seq(Nat)
    /\ Len(Encode(TickPacket)) < Size
    /\ Cuts(<<TickFragment>>, Encode(TickPacket))
  <1> DEFINE e == Encode(TickPacket)
             q == <<TickFragment>>
  <1>1. TickPacket \in Sent /\ TickPacket.data = <<>> /\ TickPacket.tid = 1
        /\ TickPacket.type = EXB_TYPE_TICK
    BY DEF TickPacket, Sent, EXB_TYPE_TICK
  <1>2. e = Preamble \o <<1, EXB_TYPE_TICK, 0>>
    <2>1. e = (Preamble \o <<1, EXB_TYPE_TICK, 0>>) \o <<>>
      BY <1>1 DEF Encode
    <2>2. Preamble \o <<1, EXB_TYPE_TICK, 0>> \in Seq(Nat)
      BY SizeType DEF EXB_TYPE_TICK
    <2> QED BY <2>1, <2>2
  <1>3. e \in Seq(Nat) /\ Len(e) = PreambleSize + 3
    <2>1. <<1, EXB_TYPE_TICK, 0>> \in Seq(Nat) /\ Len(<<1, EXB_TYPE_TICK, 0>>) = 3
      BY DEF EXB_TYPE_TICK
    <2> QED BY <1>2, <2>1, SizeType
  <1>4. TickFragment = [k \in 1..FragSize |-> IF k <= Len(e) THEN e[k] ELSE TickTail]
    BY <1>2 DEF TickFragment
  <1> HIDE DEF e
  <1>5. ASSUME NEW k \in 1..FragSize PROVE (IF k <= Len(e) THEN e[k] ELSE TickTail) \in Nat
    BY <1>3, SizeType
  <1>6. TickFragment \in [1..FragSize -> Nat]
    BY <1>4, <1>5
  <1>7. TickFragment \in Seq(Nat) /\ Len(TickFragment) = FragSize
    BY <1>6, SizeType
  <1>8. ASSUME NEW k \in 1..FragSize PROVE NextByte(e, Before(1) + k - 1, TickFragment[k])
    <2>1. Before(1) + k - 1 + 1 = k
      BY BeforeType
    <2>2. TickTail # Preamble[1]
      BY GateOutStreamAssumption
    <2>3. TickFragment[k] = IF k <= Len(e) THEN e[k] ELSE TickTail
      BY <1>4
    <2> QED BY <2>1, <2>2, <2>3 DEF NextByte
  <1>9. Complete(e) = PreambleSize + 4
    BY <1>3, SizeType DEF Complete
  <1>10. Before(1) = 0 /\ Before(1 + 1) = FragSize
    BY BeforeType, SizeType
  <1>11. q \in Seq(Seq(Nat)) /\ Len(q) = 1 /\ q[1] = TickFragment
    BY <1>7
  <1> HIDE DEF q
  <1>12. Before(1) < Complete(e) /\ Complete(e) <= Before(1 + 1)
    BY <1>9, <1>10, SizeType
  <1>13. Cuts(q, e)
    BY <1>7, <1>8, <1>11, <1>12 DEF Cuts
  <1>14. Len(e) < Size
    BY <1>3, SizeType
  <1> QED BY <1>1, <1>7, <1>13, <1>14 DEF e, q

-----------------------------------------------------------------------------
(* Third, all the packets g that have been begun, a TICK among them, each  *)
(* with its fragments, the number of fragments before its first and the    *)
(* number of packets to queue up to it.  The first a packets have arrived, *)
(* the parser has taken m fragments, the last of them one of packet c, and *)
(* has read o bytes of that packet.                                        *)

Jobs == [addr : Exbs \cup {TickAddr}, packet : Sent, parts : Seq(Seq(Nat)),
         first : Nat, nth : Nat]

Code(j)    == Encode(j.packet)
Last(j)    == j.first + Len(j.parts)
Counted(j) == IF j.packet.type = EXB_TYPE_TICK THEN 0 ELSE 1

End(g, i) == IF i = 0 THEN 0 ELSE Last(g[i])
Nth(g, i) == IF i = 0 THEN 0 ELSE g[i].nth

GoodJob(g, i) ==
    /\ Len(Code(g[i])) < Size /\ Cuts(g[i].parts, Code(g[i]))
    /\ g[i].first = End(g, i - 1)
    /\ g[i].nth = Nth(g, i - 1) + Counted(g[i])
    /\ \A k \in 1..(i - 1) : Last(g[k]) <= g[i].first

Chained(g) == \A i \in 1..Len(g) : GoodJob(g, i)

Arrived(g, a) ==
    /\ a \in 0..Len(g) /\ Len(arrived) = Nth(g, a)
    /\ \A i \in 1..a :
          /\ g[i].nth <= Len(arrived)
          /\ Counted(g[i]) = 1 => arrived[g[i].nth] = Blob(g[i].addr, g[i].packet)

Quiet == \A s \in Exbs : ~OnAir(s)

(***************************************************************************)
(* Device s sends the last packet, of which all fragments after the first  *)
(* r of all packets are left.                                              *)
(***************************************************************************)
Sending(g, a, r, s) ==
    /\ Len(g) = a + 1 /\ OnAir(s) /\ \A t \in Exbs \ {s} : ~OnAir(t)
    /\ air[s].whole /\ g[a + 1].addr = s /\ g[a + 1].packet = air[s].packet
    /\ r + Len(air[s].left) = Last(g[a + 1]) /\ g[a + 1].first <= r
    /\ \A k \in 1..Len(air[s].left) :
          air[s].left[k] = g[a + 1].parts[r + k - g[a + 1].first]

OnTheWay(g, a, r) ==
    \/ a = Len(g) /\ r = End(g, a) /\ Quiet
    \/ \E s \in Exbs : Sending(g, a, r, s)

InQueue(g, m) ==
    \A i \in 1..Len(g), y \in 1..Len(upQueue) :
        g[i].first < m + y /\ m + y <= Last(g[i])
            => upQueue[y] = Elem(g[i].addr, g[i].parts[m + y - g[i].first])

Delivered(n) == n \in 0..Len(arrived) /\ queued = SubSeq(arrived, 1, n)

InFragment(j, x, o) ==
    LET l == Len(elem.data)
    IN  /\ l <= FragSize /\ \A k \in 1..l : elem.data[k] = j.parts[x][FragSize - l + k]
        /\ o + l = Before(x + 1)

InJob(j, m, o) ==
    /\ j.first < m /\ m <= Last(j) /\ elem.addr = j.addr
    /\ InFragment(j, m - j.first, o)
    /\ RingScanned(Code(j), o)
    /\ Delivered(IF o >= Complete(Code(j)) THEN j.nth ELSE j.nth - Counted(j))

Parsing(g, c, m, o) ==
    /\ c \in 0..Len(g)
    /\ c = 0 => m = 0 /\ elem.data = <<>> /\ mode = "preamble" /\ queued = <<>>
    /\ c > 0 => InJob(g[c], m, o)

Carried(g, a, m) ==
    Chained(g) /\ Arrived(g, a) /\ OnTheWay(g, a, m + Len(upQueue)) /\ InQueue(g, m)

Follows == orderly => \E g \in Seq(Jobs), a, c, m, o \in Nat :
                          Carried(g, a, m) /\ Parsing(g, c, m, o)

LEMMA JobType ==
    ASSUME NEW j \in Jobs
    PROVE  /\ j.first \in Nat /\ j.nth \in Nat /\ j.packet \in Sent
           /\ j.parts \in Seq(Seq(Nat)) /\ Len(j.parts) \in Nat
           /\ Last(j) \in Nat /\ j.first <= Last(j) /\ Counted(j) \in {0, 1}
  <1>1. /\ j.first \in Nat /\ j.nth \in Nat /\ j.packet \in Sent
        /\ j.parts \in Seq(Seq(Nat))
    BY DEF Jobs
  <1>2. Len(j.parts) \in Nat
    BY <1>1
  <1>3. Last(j) \in Nat /\ j.first <= Last(j)
    BY <1>1, <1>2 DEF Last
  <1> QED BY <1>1, <1>2, <1>3 DEF Counted

LEMMA EndType ==
    ASSUME NEW g \in Seq(Jobs), Chained(g), NEW i \in 0..Len(g)
    PROVE  /\ End(g, i) \in Nat /\ Nth(g, i) \in Nat
           /\ \A k \in 1..i : Last(g[k]) <= End(g, i)
  <1>1. CASE i = 0
    BY <1>1 DEF End, Nth
  <1>2. CASE i # 0
    <2>1. i \in 1..Len(g) /\ g[i] \in Jobs
      BY <1>2
    <2>2. Last(g[i]) \in Nat /\ g[i].nth \in Nat /\ g[i].first <= Last(g[i])
          /\ g[i].first \in Nat
      BY <2>1, JobType
    <2>3. \A k \in 1..(i - 1) : Last(g[k]) <= g[i].first
      BY <2>1 DEF Chained, GoodJob
    <2>4. ASSUME NEW k \in 1..i PROVE Last(g[k]) <= Last(g[i])
      <3>1. CASE k = i
        BY <2>2, <3>1
      <3>2. CASE k # i
        <4>1. k \in 1..(i - 1) /\ k \in 1..Len(g)
          BY <2>1, <3>2
        <4>2. Last(g[k]) \in Nat
          BY <4>1, JobType
        <4>3. Last(g[k]) <= g[i].first
          BY <2>3, <4>1
        <4> QED BY <2>2, <4>2, <4>3
      <3> QED BY <3>1, <3>2
    <2> QED BY <1>2, <2>2, <2>4 DEF End, Nth
  <1> QED BY <1>1, <1>2

(***************************************************************************)
(* A packet is begun: the ones before it stay.                             *)
(***************************************************************************)
LEMMA JobAdded ==
    ASSUME NEW g \in Seq(Jobs), Chained(g), NEW j \in Jobs,
           Len(Code(j)) < Size, Cuts(j.parts, Code(j)),
           j.first = End(g, Len(g)), j.nth = Nth(g, Len(g)) + Counted(j)
    PROVE  /\ Append(g, j) \in Seq(Jobs) /\ Len(Append(g, j)) = Len(g) + 1
           /\ Append(g, j)[Len(g) + 1] = j
           /\ \A i \in 1..Len(g) : Append(g, j)[i] = g[i]
           /\ \A i \in 0..Len(g) : /\ End(Append(g, j), i) = End(g, i)
                                   /\ Nth(Append(g, j), i) = Nth(g, i)
           /\ End(Append(g, j), Len(g) + 1) = Last(j)
           /\ Nth(Append(g, j), Len(g) + 1) = j.nth
           /\ Chained(Append(g, j))
  <1> DEFINE h == Append(g, j)
             n == Len(g)
  <1>1. /\ h \in Seq(Jobs) /\ Len(h) = n + 1 /\ h[n + 1] = j /\ n \in Nat
        /\ \A i \in 1..n : h[i] = g[i]
    OBVIOUS
  <1>2. /\ j.first = End(g, n) /\ j.nth = Nth(g, n) + Counted(j)
        /\ \A i \in 1..n : GoodJob(g, i)
        /\ \A k \in 1..n : Last(g[k]) <= End(g, n)
    <2>1. n \in 0..Len(g)
      BY <1>1
    <2> QED BY <2>1, EndType DEF Chained
  <1> HIDE DEF h, n
  <1>3. ASSUME NEW i \in 0..n PROVE End(h, i) = End(g, i) /\ Nth(h, i) = Nth(g, i)
    <2>1. i = 0 \/ i \in 1..n
      BY <1>1
    <2> QED BY <1>1, <2>1 DEF End, Nth
  <1>4. n + 1 # 0
    BY <1>1
  <1>5. End(h, n + 1) = Last(j) /\ Nth(h, n + 1) = j.nth
    BY <1>1, <1>4 DEF End, Nth
  <1>6. ASSUME NEW i \in 1..(n + 1) PROVE GoodJob(h, i)
    <2>1. CASE i = n + 1
      <3>1. i - 1 = n /\ n \in 0..n
        BY <1>1, <2>1
      <3>2. \A k \in 1..n : h[k] = g[k]
        BY <1>1
      <3> QED BY <1>1, <1>2, <1>3, <2>1, <3>1, <3>2 DEF GoodJob
    <2>2. CASE i # n + 1
      <3>1. i \in 1..n /\ i - 1 \in 0..n /\ \A k \in 1..(i - 1) : k \in 1..n
        BY <1>1, <2>2
      <3>2. h[i] = g[i] /\ \A k \in 1..(i - 1) : h[k] = g[k]
        BY <1>1, <3>1
      <3>3. GoodJob(g, i)
        BY <1>2, <3>1
      <3> QED BY <1>3, <3>1, <3>2, <3>3 DEF GoodJob
    <2> QED BY <2>1, <2>2
  <1> QED BY <1>1, <1>3, <1>5, <1>6 DEF h, n, Chained

LEMMA QueueType ==
    ASSUME StateOK
    PROVE  /\ upQueue \in Seq(Burst) /\ Len(upQueue) \in Nat
           /\ arrived \in Seq(Blobs) /\ Len(arrived) \in Nat
  <1>1. upQueue \in Seq(Burst) /\ arrived \in Seq(Blobs)
    BY DEF StateOK, TypeOK, Burst
  <1> QED BY <1>1

(***************************************************************************)
(* The steps of the air leave the parser where it is.                      *)
(***************************************************************************)
Extends(h, g) == Len(g) <= Len(h) /\ \A i \in 1..Len(g) : h[i] = g[i]

LEMMA ParsingKept ==
    ASSUME StateOK, NEW g \in Seq(Jobs), NEW h \in Seq(Jobs), Extends(h, g),
           NEW c, NEW m, NEW o, Parsing(g, c, m, o), UNCHANGED <<parser, queued>>,
           arrived' = arrived \/ \E b \in Blobs : arrived' = Append(arrived, b)
    PROVE  Parsing(h, c, m, o)'
  <1>1. UNCHANGED <<elem, inBuf, mode, packet, queued>>
    BY DEF parser
  <1>2. arrived \in Seq(Blobs)
    BY DEF StateOK, TypeOK
  <1>3. ASSUME NEW n, Delivered(n) PROVE Delivered(n)'
    <2>1. n \in 0..Len(arrived) /\ queued = SubSeq(arrived, 1, n)
      BY <1>3 DEF Delivered
    <2>2. n \in 0..Len(arrived') /\ SubSeq(arrived', 1, n) = SubSeq(arrived, 1, n)
      <3>1. CASE arrived' = arrived
        BY <2>1, <3>1
      <3>2. ASSUME NEW b \in Blobs, arrived' = Append(arrived, b)
            PROVE n \in 0..Len(arrived') /\ SubSeq(arrived', 1, n) = SubSeq(arrived, 1, n)
        <4> DEFINE z == Append(arrived, b)
        <4>1. /\ z \in Seq(Blobs) /\ Len(z) = Len(arrived) + 1 /\ Len(arrived) \in Nat
              /\ \A i \in 1..Len(arrived) : z[i] = arrived[i]
          BY <1>2
        <4> HIDE DEF z
        <4>2. SubSeq(z, 1, n) = SubSeq(arrived, 1, n)
          BY <1>2, <2>1, <4>1
        <4> QED BY <2>1, <3>2, <4>1, <4>2 DEF z
      <3> QED BY <3>1, <3>2
    <2> QED BY <1>1, <2>1, <2>2 DEF Delivered
  <1>4. c \in 0..Len(g) /\ c \in 0..Len(h) /\ (c > 0 => h[c] = g[c])
    <2>1. Len(g) \in Nat /\ Len(h) \in Nat
      OBVIOUS
    <2> QED BY <2>1 DEF Parsing, Extends
  <1>5. CASE c = 0
    BY <1>1, <1>4, <1>5 DEF Parsing
  <1>6. CASE c > 0
    <2> DEFINE j == g[c]
    <2>1. InJob(j, m, o)
      BY <1>6 DEF Parsing
    <2> HIDE DEF j
    <2>2. InJob(j, m, o)'
      BY <1>1, <1>3, <2>1 DEF InJob, InFragment, RingScanned
    <2>3. c # 0 /\ j = h[c]
      BY <1>4, <1>6 DEF j
    <2> QED BY <1>4, <1>6, <2>2, <2>3 DEF Parsing
  <1> QED BY <1>4, <1>5, <1>6

LEMMA BeginStep ==
    ASSUME StateOK, orderly, NEW g \in Seq(Jobs), NEW a \in Nat, NEW c \in Nat, NEW m \in Nat,
           NEW o \in Nat, Carried(g, a, m), Parsing(g, c, m, o),
           NEW s \in Exbs, NEW p \in Packet, Begin(s, p)
    PROVE  \E h \in Seq(Jobs) : Carried(h, a, m)' /\ Parsing(h, c, m, o)'
  <1> DEFINE n == Len(g)
             q == Fragments(Encode(p))
             j == [addr |-> s, packet |-> p, parts |-> q, first |-> End(g, n),
                   nth |-> Nth(g, n) + IF p.type = EXB_TYPE_TICK THEN 0 ELSE 1]
             h == Append(g, j)
             r == m + Len(upQueue)
  <1>1. /\ Chained(g) /\ Arrived(g, a) /\ OnTheWay(g, a, r) /\ InQueue(g, m)
        /\ n \in Nat /\ Len(upQueue) \in Nat /\ r \in Nat
    BY QueueType DEF Carried
  <1>2. /\ Quiet /\ Len(Encode(p)) < Size
        /\ air' = [air EXCEPT ![s] = [packet |-> p, left |-> q, whole |-> TRUE]]
        /\ UNCHANGED <<orderly, arrived, upQueue, parser, queued>>
    BY DEF Begin, Quiet, Fits
  <1>3. a = n /\ r = End(g, n)
    BY <1>1, <1>2 DEF OnTheWay, Sending, Quiet
  <1>4. p \in Sent
    BY GateOutStreamAssumption DEF Sent
  <1>5. Cuts(q, Encode(p)) /\ q \in Seq(Seq(Nat)) /\ Len(q) > 0 /\ q # <<>> /\ Len(q) \in Nat
    <2>1. Cuts(q, Encode(p))
      BY <1>4, PacketCut
    <2> HIDE DEF q
    <2>2. q \in Seq(Seq(Nat)) /\ Len(q) > 0
      BY <2>1 DEF Cuts
    <2> QED BY <2>1, <2>2
  <1>6. n \in 0..Len(g)
    BY <1>1
  <1>7. j \in Jobs
    <2>1. End(g, n) \in Nat /\ Nth(g, n) \in Nat
      BY <1>1, <1>6, EndType
    <2> QED BY <1>4, <1>5, <2>1 DEF Jobs
  <1>8. /\ Code(j) = Encode(p) /\ j.parts = q /\ j.first = End(g, n) /\ j.addr = s
        /\ j.packet = p /\ j.nth = Nth(g, n) + Counted(j) /\ Last(j) = End(g, n) + Len(q)
    BY DEF Code, Counted, Last
  <1> HIDE DEF j, q
  <1>9. /\ h \in Seq(Jobs) /\ Len(h) = n + 1 /\ h[n + 1] = j /\ Chained(h)
        /\ \A i \in 1..n : h[i] = g[i]
        /\ \A i \in 0..n : End(h, i) = End(g, i) /\ Nth(h, i) = Nth(g, i)
    BY <1>1, <1>2, <1>5, <1>7, <1>8, JobAdded
  <1> HIDE DEF h
  <1>10. Extends(h, g)
    BY <1>1, <1>9 DEF Extends
  <1>11. Parsing(h, c, m, o)'
    BY <1>2, <1>9, <1>10, ParsingKept
  <1>12. Arrived(h, a)'
    BY <1>1, <1>2, <1>3, <1>9 DEF Arrived
  <1>13. Sending(h, a, r, s)'
    <2>1. air'[s] = [packet |-> p, left |-> q, whole |-> TRUE]
          /\ \A t \in Exbs \ {s} : air'[t] = air[t]
      BY <1>2 DEF StateOK, TypeOK
    <2>2. OnAir(s)' /\ \A t \in Exbs \ {s} : ~OnAir(t)'
      BY <1>2, <1>5, <2>1 DEF OnAir, Quiet
    <2>3. \A k \in 1..Len(q) : q[k] = j.parts[r + k - j.first]
      <3>1. \A k \in 1..Len(q) : r + k - j.first = k
        BY <1>1, <1>3, <1>5, <1>8
      <3> QED BY <1>8, <3>1
    <2>4. r + Len(q) = Last(j) /\ j.first <= r
      BY <1>1, <1>3, <1>5, <1>8
    <2>5. r' = r
      BY <1>2
    <2> HIDE DEF r
    <2> QED BY <1>3, <1>8, <1>9, <2>1, <2>2, <2>3, <2>4, <2>5 DEF Sending
  <1>14. InQueue(h, m)'
    <2>1. ASSUME NEW i \in 1..Len(h), NEW y \in 1..Len(upQueue),
                 h[i].first < m + y, m + y <= Last(h[i])
          PROVE  upQueue[y] = Elem(h[i].addr, h[i].parts[m + y - h[i].first])
      <3>1. CASE i \in 1..n
        BY <1>1, <1>9, <2>1, <3>1 DEF InQueue
      <3>2. CASE i = n + 1
        <4>1. m + y <= r
          BY <1>1
        <4>2. h[i].first = r
          BY <1>3, <1>8, <1>9, <3>2
        <4> QED BY <1>1, <2>1, <4>1, <4>2
      <3> QED BY <1>1, <1>9, <3>1, <3>2
    <2> QED BY <1>2, <2>1 DEF InQueue
  <1>15. Chained(h)'
    BY <1>9 DEF Chained, GoodJob
  <1>16. (m + Len(upQueue))' = r'
    OBVIOUS
  <1> QED BY <1>9, <1>11, <1>12, <1>13, <1>14, <1>15, <1>16 DEF Carried, OnTheWay

LEMMA QueueAppended ==
    ASSUME StateOK, NEW u \in Burst, upQueue' = Append(upQueue, u)
    PROVE  /\ Len(upQueue)' = Len(upQueue) + 1 /\ upQueue'[Len(upQueue) + 1] = u
           /\ \A y \in 1..Len(upQueue) : upQueue'[y] = upQueue[y]
  <1>1. upQueue \in Seq(Burst)
    BY QueueType
  <1> QED BY <1>1

LEMMA TickStep ==
    ASSUME StateOK, orderly, NEW g \in Seq(Jobs), NEW a \in Nat, NEW c \in Nat, NEW m \in Nat,
           NEW o \in Nat, Carried(g, a, m), Parsing(g, c, m, o), Tick
    PROVE  \E h \in Seq(Jobs) : Carried(h, a + 1, m)' /\ Parsing(h, c, m, o)'
  <1> DEFINE n == Len(g)
             q == <<TickFragment>>
             j == [addr |-> TickAddr, packet |-> TickPacket, parts |-> q,
                   first |-> End(g, n), nth |-> Nth(g, n)]
             h == Append(g, j)
             l == Len(upQueue)
             r == m + l
             u == Elem(TickAddr, TickFragment)
  <1>1. /\ Chained(g) /\ Arrived(g, a) /\ OnTheWay(g, a, r) /\ InQueue(g, m)
        /\ n \in Nat /\ l \in Nat /\ r \in Nat
    BY QueueType DEF Carried
  <1>2. /\ Quiet /\ upQueue' = Append(upQueue, u)
        /\ UNCHANGED <<orderly, air, arrived, parser, queued>>
    BY DEF Tick, Quiet
  <1>3. a = n /\ r = End(g, n)
    BY <1>1, <1>2 DEF OnTheWay, Sending, Quiet
  <1>4. /\ TickPacket \in Sent /\ TickFragment \in Seq(Nat)
        /\ Len(Encode(TickPacket)) < Size /\ Cuts(q, Encode(TickPacket))
        /\ q \in Seq(Seq(Nat)) /\ Len(q) = 1 /\ q[1] = TickFragment
        /\ TickPacket.type = EXB_TYPE_TICK
    BY TickCut DEF TickPacket
  <1>5. u \in Burst
    BY <1>4 DEF Elem, Burst
  <1>6. n \in 0..Len(g)
    BY <1>1
  <1>7. End(g, n) \in Nat /\ Nth(g, n) \in Nat /\ \A k \in 1..n : Last(g[k]) <= End(g, n)
    BY <1>1, <1>6, EndType
  <1> HIDE DEF q
  <1>8. j \in Jobs
    BY <1>4, <1>7 DEF Jobs
  <1>9. /\ Code(j) = Encode(TickPacket) /\ j.parts = q /\ j.first = End(g, n)
        /\ j.addr = TickAddr /\ Counted(j) = 0 /\ j.nth = Nth(g, n) + Counted(j)
        /\ j.nth = Nth(g, n) /\ Last(j) = End(g, n) + 1
    <2>1. /\ Code(j) = Encode(TickPacket) /\ j.parts = q /\ j.first = End(g, n)
          /\ j.addr = TickAddr /\ j.packet = TickPacket /\ j.nth = Nth(g, n)
      BY DEF Code
    <2> HIDE DEF j
    <2>2. Counted(j) = 0
      BY <1>4, <2>1 DEF Counted
    <2>3. Last(j) = End(g, n) + 1
      BY <1>4, <2>1 DEF Last
    <2>4. Nth(g, n) = Nth(g, n) + 0
      BY <1>7
    <2> QED BY <2>1, <2>2, <2>3, <2>4
  <1> HIDE DEF j, u
  <1>10. /\ h \in Seq(Jobs) /\ Len(h) = n + 1 /\ h[n + 1] = j /\ Chained(h)
         /\ \A i \in 1..n : h[i] = g[i]
         /\ End(h, n + 1) = Last(j) /\ Nth(h, n + 1) = j.nth
    BY <1>1, <1>4, <1>8, <1>9, JobAdded
  <1> HIDE DEF h
  <1>11. Extends(h, g)
    BY <1>1, <1>10 DEF Extends
  <1>12. Parsing(h, c, m, o)'
    BY <1>2, <1>10, <1>11, ParsingKept
  <1>13. Arrived(h, a + 1)'
    <2>1. Len(arrived) = Nth(g, n) /\ Len(arrived) \in Nat
      BY <1>1, <1>3, QueueType DEF Arrived
    <2>2. ASSUME NEW i \in 1..(n + 1)
          PROVE  /\ h[i].nth <= Len(arrived)
                 /\ Counted(h[i]) = 1 => arrived[h[i].nth] = Blob(h[i].addr, h[i].packet)
      <3>1. CASE i = n + 1
        BY <1>9, <1>10, <2>1, <3>1
      <3>2. CASE i # n + 1
        <4>1. i \in 1..n /\ i \in 1..a
          BY <1>1, <1>3, <3>2
        <4> QED BY <1>1, <1>10, <4>1 DEF Arrived
      <3> QED BY <3>1, <3>2
    <2>3. a + 1 \in 0..Len(h) /\ Len(arrived) = Nth(h, a + 1)
      BY <1>1, <1>3, <1>9, <1>10, <2>1
    <2> QED BY <1>2, <1>3, <2>2, <2>3 DEF Arrived
  <1>14. /\ Len(upQueue)' = l + 1 /\ upQueue'[l + 1] = u
         /\ \A y \in 1..l : upQueue'[y] = upQueue[y]
    BY <1>2, <1>5, QueueAppended
  <1>15. OnTheWay(h, a + 1, m + Len(upQueue))'
    <2>1. Quiet'
      BY <1>2 DEF Quiet, OnAir
    <2>2. m + Len(upQueue)' = End(h, a + 1) /\ a + 1 = Len(h)
      BY <1>1, <1>3, <1>7, <1>9, <1>10, <1>14
    <2> QED BY <2>1, <2>2 DEF OnTheWay
  <1>16. InQueue(h, m)'
    <2>1. ASSUME NEW i \in 1..Len(h), NEW y \in 1..(l + 1),
                 h[i].first < m + y, m + y <= Last(h[i])
          PROVE  upQueue'[y] = Elem(h[i].addr, h[i].parts[m + y - h[i].first])
      <3>1. CASE i \in 1..n /\ y \in 1..l
        <4>1. upQueue[y] = Elem(g[i].addr, g[i].parts[m + y - g[i].first])
          BY <1>1, <1>10, <2>1, <3>1 DEF InQueue
        <4> QED BY <1>10, <1>14, <3>1, <4>1
      <3>2. CASE i \in 1..n /\ y = l + 1
        <4>1. Last(g[i]) <= r /\ g[i] \in Jobs
          BY <1>3, <1>7, <3>2
        <4>2. Last(g[i]) \in Nat /\ h[i] = g[i]
          BY <1>10, <3>2, <4>1, JobType
        <4>3. m + y <= Last(g[i])
          BY <2>1, <4>2
        <4>4. m + y = r + 1
          BY <1>1, <3>2
        <4>5. FALSE
          <5> HIDE DEF r
          <5> QED BY <1>1, <4>1, <4>2, <4>3, <4>4
        <4> QED BY <4>5
      <3>3. CASE i = n + 1
        <4>1. h[i] = j /\ j.first = r /\ Last(j) = r + 1
          BY <1>3, <1>9, <1>10, <3>3
        <4>5. r < m + y /\ m + y <= r + 1
          BY <2>1, <4>1
        <4>6. m \in Nat /\ l \in Nat /\ y \in 1..(l + 1)
          BY <1>1, <2>1
        <4>2. y = l + 1 /\ m + y - r = 1
          <5> HIDE DEF l
          <5> QED BY <4>5, <4>6
        <4>3. u = Elem(j.addr, j.parts[1])
          BY <1>4, <1>9 DEF u
        <4> QED BY <1>14, <4>1, <4>2, <4>3
      <3> QED BY <1>1, <1>10, <3>1, <3>2, <3>3
    <2> QED BY <1>14, <2>1 DEF InQueue
  <1>17. Chained(h)'
    BY <1>10 DEF Chained, GoodJob
  <1> QED BY <1>10, <1>12, <1>13, <1>15, <1>16, <1>17 DEF Carried

LEMMA SameDistance ==
    \A m, y, r, f \in Nat : m + y = r + 1 => m + y - f = r + 1 - f
  OBVIOUS

(***************************************************************************)
(* A fragment arrives; the last of a packet makes it one to queue.         *)
(***************************************************************************)
LEMMA ReceiveStep ==
    ASSUME StateOK, orderly, NEW g \in Seq(Jobs), NEW a \in Nat, NEW c \in Nat, NEW m \in Nat,
           NEW o \in Nat, Carried(g, a, m), Parsing(g, c, m, o), NEW s \in Exbs, Receive(s)
    PROVE  /\ \E b \in Nat : Carried(g, b, m)' /\ Parsing(g, c, m, o)'
           /\ \/ UNCHANGED arrived
              \/ \E p \in Packet : arrived' = Append(arrived, Blob(s, p))
  <1> DEFINE l == Len(upQueue)
             r == m + l
             n == a + 1
             j == g[n]
             w == air[s].left
             u == Elem(s, Head(w))
             p == air[s].packet
  <1>1. /\ Chained(g) /\ Arrived(g, a) /\ OnTheWay(g, a, r) /\ InQueue(g, m)
        /\ l \in Nat /\ r \in Nat
    BY QueueType DEF Carried
  <1>2. OnAir(s) /\ upQueue' = Append(upQueue, u) /\ UNCHANGED <<orderly, parser, queued>>
    BY DEF Receive
  <1>3. Sending(g, a, r, s)
    BY <1>1, <1>2 DEF OnTheWay, Sending, Quiet
  <1>4. n = Len(g) /\ n \in 1..Len(g) /\ j \in Jobs /\ n \in Nat /\ a \in 0..Len(g)
    <2>1. Len(g) = n
      BY <1>3 DEF Sending
    <2> QED BY <2>1
  <1>5. w \in Seq(Seq(Nat)) /\ w # <<>> /\ p \in Packet /\ air[s].whole
        /\ air \in [Exbs -> [packet : Packet \cup {NoPacket}, left : Seq(Seq(Nat)),
                             whole : BOOLEAN]]
    BY <1>2, <1>3 DEF StateOK, TypeOK, AirOK, OnAir, Sending
  <1>6. /\ j.addr = s /\ j.packet = p /\ r + Len(w) = Last(j) /\ j.first <= r
        /\ \A k \in 1..Len(w) : w[k] = j.parts[r + k - j.first]
        /\ \A t \in Exbs \ {s} : ~OnAir(t)
    BY <1>3 DEF Sending
  <1>7. /\ air'[s] = [air[s] EXCEPT !.left = Tail(w)]
        /\ \A t \in Exbs \ {s} : air'[t] = air[t]
    BY <1>5 DEF Receive
  <1>8. arrived' = IF Len(w) = 1 /\ p.type # EXB_TYPE_TICK
                   THEN Append(arrived, Blob(s, p)) ELSE arrived
    BY <1>5 DEF Receive
  <1>9. /\ Len(w) \in Nat /\ Len(w) > 0 /\ Head(w) \in Seq(Nat) /\ Head(w) = w[1]
        /\ Tail(w) \in Seq(Seq(Nat)) /\ Len(Tail(w)) = Len(w) - 1
        /\ \A k \in 1..(Len(w) - 1) : Tail(w)[k] = w[k + 1]
    <2> HIDE DEF w
    <2> QED BY <1>5
  <1>10. u \in Burst
    BY <1>9 DEF Elem, Burst
  <1>11. /\ Len(upQueue)' = l + 1 /\ upQueue'[l + 1] = u
         /\ \A y \in 1..l : upQueue'[y] = upQueue[y]
    BY <1>2, <1>10, QueueAppended
  <1>12. /\ Blob(s, p) \in Blobs /\ arrived \in Seq(Blobs) /\ Len(arrived) \in Nat
    BY <1>5, EncodeType, QueueType
  <1>13. Parsing(g, c, m, o)'
    <2>1. Extends(g, g)
      BY DEF Extends
    <2>2. arrived' = arrived \/ \E b \in Blobs : arrived' = Append(arrived, b)
      BY <1>8, <1>12
    <2> QED BY <1>2, <2>1, <2>2, ParsingKept
  <1>14. UNCHANGED arrived \/ \E f \in Packet : arrived' = Append(arrived, Blob(s, f))
    BY <1>5, <1>8
  <1> DEFINE v == Tail(w)
             k0 == Len(w)
  <1>15. /\ OnAir(s)' <=> v # <<>>
         /\ air'[s].left = v /\ air'[s].whole /\ air'[s].packet = p
    BY <1>5, <1>7 DEF OnAir
  <1>16. \A t \in Exbs \ {s} : ~OnAir(t)'
    BY <1>6, <1>7 DEF OnAir
  <1>17. /\ j.first \in Nat /\ Last(j) \in Nat /\ Last(j) = End(g, n)
         /\ \A i \in 1..a : Last(g[i]) <= j.first /\ Last(g[i]) \in Nat
    <2>1. j.first \in Nat /\ Last(j) \in Nat
      BY <1>4, JobType
    <2>2. Last(j) = End(g, n)
      BY <1>4 DEF End
    <2>3. ASSUME NEW i \in 1..a PROVE Last(g[i]) <= j.first /\ Last(g[i]) \in Nat
      <3>1. i \in 1..Len(g) /\ i \in 1..(n - 1)
        BY <1>4
      <3>2. g[i] \in Jobs
        BY <3>1
      <3>3. Last(g[i]) <= j.first
        BY <1>1, <1>4, <3>1 DEF Chained, GoodJob
      <3> QED BY <3>2, <3>3, JobType
    <2> QED BY <2>1, <2>2, <2>3
  <1>22. /\ k0 = Len(w) /\ k0 \in Nat /\ k0 > 0 /\ v \in Seq(Seq(Nat)) /\ Len(v) = k0 - 1
         /\ \A k \in 1..(k0 - 1) : v[k] = w[k + 1]
    BY <1>9
  <1> HIDE DEF w, v, k0, u, j, p
  <1>18. InQueue(g, m)'
    <2>1. ASSUME NEW i \in 1..Len(g), NEW y \in 1..(l + 1),
                 g[i].first < m + y, m + y <= Last(g[i])
          PROVE  upQueue'[y] = Elem(g[i].addr, g[i].parts[m + y - g[i].first])
      <3>1. CASE y \in 1..l
        <4>1. upQueue[y] = Elem(g[i].addr, g[i].parts[m + y - g[i].first])
          BY <1>1, <2>1, <3>1 DEF InQueue
        <4> QED BY <1>11, <3>1, <4>1
      <3>2. CASE y = l + 1 /\ i \in 1..a
        <4>1. Last(g[i]) <= j.first /\ Last(g[i]) \in Nat
          BY <1>17, <3>2
        <4>2. m + y = r + 1
          BY <1>1, <3>2
        <4>3. m + y <= Last(g[i]) /\ j.first <= r
          BY <1>6, <2>1
        <4>4. FALSE
          <5> HIDE DEF r
          <5> QED BY <1>1, <1>17, <4>1, <4>2, <4>3
        <4> QED BY <4>4
      <3>3. CASE y = l + 1 /\ i = n
        <4>1. m + y = r + 1
          BY <1>1, <3>3
        <4>2. 1 \in 1..Len(w)
          BY <1>9
        <4>3. w[1] = j.parts[r + 1 - j.first]
          BY <1>6, <4>2
        <4>4. u = Elem(j.addr, j.parts[m + y - j.first])
          <5>1. Head(w) = j.parts[m + y - j.first]
            <6>1. m + y - j.first = r + 1 - j.first
              <7>1. r \in Nat /\ y \in Nat /\ j.first \in Nat
                BY <1>1, <1>17, <3>3
              <7> DEFINE f == j.first
              <7>2. f \in Nat
                BY <7>1
              <7>3. m \in Nat /\ m + y - f = r + 1 - f
                <8> HIDE DEF f, r
                <8> QED BY <4>1, <7>1, <7>2, SameDistance
              <7> QED BY <7>3
            <6> QED BY <1>9, <4>3, <6>1
          <5> QED BY <1>6, <5>1 DEF u
        <4>5. j = g[i]
          BY <3>3 DEF j
        <4> QED BY <1>11, <3>3, <4>4, <4>5
      <3> QED BY <1>1, <1>4, <3>1, <3>2, <3>3
    <2> QED BY <1>11, <2>1 DEF InQueue
  <1>19. Chained(g)'
    BY <1>1 DEF Chained, GoodJob
  <1>20. CASE k0 = 1
    <2>1. v = <<>>
      <3>1. Len(v) = 0
        BY <1>20, <1>22
      <3> QED BY <1>22, <3>1
    <2>2. OnTheWay(g, n, m + Len(upQueue))'
      <3>1. Quiet'
        BY <1>15, <1>16, <2>1 DEF Quiet
      <3>2. m + Len(upQueue)' = End(g, n)
        <4>1. Len(upQueue)' = l + 1 /\ End(g, n) = m + l + 1 /\ l \in Nat
          <5>1. r + k0 = Last(j) /\ Last(j) = End(g, n)
            BY <1>6, <1>17, <1>22
          <5> QED BY <1>1, <1>11, <1>20, <5>1
        <4> HIDE DEF l
        <4> QED BY <4>1
      <3> QED BY <1>4, <3>1, <3>2 DEF OnTheWay
    <2>3. Arrived(g, n)'
      <3>1. /\ Len(arrived) = Nth(g, a) /\ j.nth = Nth(g, a) + Counted(j) /\ Nth(g, n) = j.nth
            /\ j.nth \in Nat /\ Counted(j) \in {0, 1}
        <4>1. Len(arrived) = Nth(g, a)
          BY <1>1 DEF Arrived
        <4>2. j.nth = Nth(g, a) + Counted(j)
          <5>1. n - 1 = a
            BY <1>4
          <5> QED BY <1>1, <1>4, <5>1 DEF Chained, GoodJob, j
        <4>3. Nth(g, n) = j.nth
          BY <1>4 DEF Nth, j
        <4> QED BY <1>4, <4>1, <4>2, <4>3, JobType
      <3>2. Counted(j) = 1 <=> p.type # EXB_TYPE_TICK
        BY <1>6 DEF Counted
      <3>3. /\ Len(arrived)' = j.nth
            /\ \A i \in 1..Len(arrived) : arrived'[i] = arrived[i]
            /\ Counted(j) = 1 => arrived'[j.nth] = Blob(s, p)
        <4>1. CASE Counted(j) = 1
          <5>1. arrived' = Append(arrived, Blob(s, p)) /\ j.nth = Len(arrived) + 1
            BY <1>8, <1>20, <1>22, <3>1, <3>2, <4>1
          <5> QED BY <1>12, <5>1
        <4>2. CASE Counted(j) # 1
          <5>1. arrived' = arrived /\ j.nth = Len(arrived)
            BY <1>8, <1>12, <3>1, <3>2, <4>2
          <5> QED BY <4>2, <5>1
        <4> QED BY <4>1, <4>2
      <3>4. ASSUME NEW i \in 1..n
            PROVE  /\ g[i].nth <= Len(arrived)'
                   /\ Counted(g[i]) = 1 => arrived'[g[i].nth] = Blob(g[i].addr, g[i].packet)
        <4>1. CASE i = n
          BY <1>6, <3>1, <3>3, <4>1 DEF j
        <4>2. CASE i # n
          <5>1. i \in 1..a /\ i \in 1..Len(g) /\ g[i] \in Jobs
            BY <1>4, <4>2
          <5>2. g[i].nth <= Len(arrived) /\ g[i].nth \in Nat
                /\ (Counted(g[i]) = 1 => arrived[g[i].nth] = Blob(g[i].addr, g[i].packet))
            BY <1>1, <5>1, JobType DEF Arrived
          <5>3. g[i].nth <= Len(arrived)'
            BY <1>12, <3>1, <3>3, <5>2
          <5>4. Counted(g[i]) = 1 => g[i].nth \in 1..Len(arrived)
            <6> SUFFICES ASSUME Counted(g[i]) = 1 PROVE g[i].nth > 0
              BY <1>12, <5>2
            <6>1. i - 1 \in 0..Len(g) /\ g[i].nth = Nth(g, i - 1) + 1
              BY <1>1, <5>1 DEF Chained, GoodJob
            <6>2. Nth(g, i - 1) \in Nat
              BY <1>1, <6>1, EndType
            <6> QED BY <6>1, <6>2
          <5> QED BY <3>3, <5>2, <5>3, <5>4
        <4> QED BY <4>1, <4>2
      <3>5. n \in 0..Len(g) /\ Len(arrived)' = Nth(g, n)
        BY <1>4, <3>1, <3>3
      <3> QED BY <3>4, <3>5 DEF Arrived
    <2> QED BY <1>4, <1>13, <1>14, <1>18, <1>19, <2>2, <2>3 DEF Carried
  <1>21. CASE k0 # 1
    <2>1. v # <<>> /\ Len(v) = k0 - 1 /\ k0 > 1 /\ k0 \in Nat
          /\ \A k \in 1..(k0 - 1) : v[k] = w[k + 1]
      <3>1. k0 > 1 /\ Len(v) > 0
        BY <1>21, <1>22
      <3> QED BY <1>22, <3>1
    <2>2. Sending(g, a, m + Len(upQueue), s)'
      <3>1. r + 1 + Len(v) = Last(j) /\ j.first <= r + 1
        <4> DEFINE e == Last(j)
                   f == j.first
        <4>1. r \in Nat /\ f \in Nat /\ e \in Nat
          BY <1>1, <1>17
        <4>2. r + k0 = e /\ f <= r
          BY <1>6, <1>22
        <4>3. Len(v) = k0 - 1 /\ k0 \in Nat
          BY <1>22
        <4> HIDE DEF r, e, f
        <4>4. r + 1 + Len(v) = e /\ f <= r + 1
          BY <4>1, <4>2, <4>3
        <4> QED BY <4>4 DEF e, f
      <3>2. ASSUME NEW k \in 1..Len(v) PROVE v[k] = j.parts[r + 1 + k - j.first]
        <4>1. k \in 1..(k0 - 1) /\ k + 1 \in 1..Len(w)
          BY <1>22, <2>1
        <4>2. r + (k + 1) - j.first = r + 1 + k - j.first
          <5> DEFINE f == j.first
          <5>1. r \in Nat /\ f \in Nat /\ k \in Nat
            BY <1>1, <1>17, <4>1
          <5> HIDE DEF r, f
          <5>2. r + (k + 1) - f = r + 1 + k - f
            BY <5>1
          <5> QED BY <5>2 DEF f
        <4>3. w[k + 1] = j.parts[r + (k + 1) - j.first]
          BY <1>6, <4>1
        <4> QED BY <1>22, <4>1, <4>2, <4>3
      <3>3. m + Len(upQueue)' = r + 1
        BY <1>1, <1>11
      <3> QED BY <1>4, <1>6, <1>15, <1>16, <2>1, <3>1, <3>2, <3>3 DEF Sending, j
    <2>3. Arrived(g, a)'
      BY <1>1, <1>8, <1>21, <1>22 DEF Arrived
    <2> QED BY <1>13, <1>14, <1>18, <1>19, <2>2, <2>3 DEF Carried, OnTheWay
  <1> QED BY <1>20, <1>21

(***************************************************************************)
(* The parser takes a fragment: that of the packet it is in, or when it    *)
(* has taken the last of that the first of the next.                       *)
(***************************************************************************)
LEMMA Progress ==
    ASSUME StateOK, NEW g \in Seq(Jobs), NEW a \in Nat, NEW r \in Nat,
           Chained(g), Arrived(g, a), OnTheWay(g, a, r)
    PROVE  /\ r <= End(g, Len(g))
           /\ \A i \in 1..Len(g) : Last(g[i]) <= r => i <= a
  <1> DEFINE n == Len(g)
  <1>1. n \in Nat /\ a \in 0..n
    BY DEF Arrived
  <1>2. CASE a = n /\ r = End(g, a)
    <2>1. r <= End(g, n)
      BY <1>2
    <2>2. \A i \in 1..n : i <= a
      BY <1>2
    <2> QED BY <2>1, <2>2
  <1>3. ASSUME NEW s \in Exbs, Sending(g, a, r, s)
        PROVE  r <= End(g, n) /\ \A i \in 1..n : Last(g[i]) <= r => i <= a
    <2> DEFINE k == Len(air[s].left)
    <2>1. n = a + 1 /\ r + k = Last(g[a + 1]) /\ air[s].left # <<>>
      BY <1>3 DEF Sending, OnAir
    <2>2. k \in Nat /\ k > 0
      <3>1. air[s].left \in Seq(Seq(Nat))
        BY DEF StateOK, TypeOK
      <3> QED BY <2>1, <3>1
    <2>3. g[n] \in Jobs /\ n # 0
      BY <1>1, <2>1
    <2>4. Last(g[n]) \in Nat /\ End(g, n) = Last(g[n])
      BY <2>3, JobType DEF End
    <2>5. r + k = Last(g[n])
      BY <2>1
    <2> HIDE DEF n, k
    <2>6. r < Last(g[n])
      BY <2>2, <2>4, <2>5
    <2>7. ASSUME NEW i \in 1..n, Last(g[i]) <= r PROVE i <= a
      <3>1. i # n
        BY <2>4, <2>6, <2>7
      <3> QED BY <1>1, <2>1, <3>1
    <2> QED BY <2>4, <2>6, <2>7
  <1> QED BY <1>2, <1>3 DEF OnTheWay

LEMMA FragmentCarried ==
    ASSUME StateOK, NEW g \in Seq(Jobs), NEW a \in Nat, NEW m \in Nat,
           Carried(g, a, m), TakeFragment
    PROVE  /\ Carried(g, a, m + 1)'
           /\ elem' = upQueue[1] /\ 1 \in 1..Len(upQueue)
  <1> DEFINE l == Len(upQueue)
             v == Tail(upQueue)
  <1>1. upQueue \in Seq(Burst) /\ upQueue # <<>> /\ upQueue' = v /\ elem' = Head(upQueue)
    BY QueueType DEF TakeFragment
  <1>2. /\ l \in Nat /\ l > 0 /\ Len(v) = l - 1 /\ Head(upQueue) = upQueue[1]
        /\ \A y \in 1..(l - 1) : v[y] = upQueue[y + 1]
    BY <1>1
  <1>3. UNCHANGED <<orderly, air, arrived>>
    BY DEF TakeFragment, radio
  <1> HIDE DEF l, v
  <1>4. m + l = m + 1 + Len(v)
    BY <1>2
  <1>5. Chained(g)' /\ Arrived(g, a)'
    BY <1>3 DEF Carried, Chained, GoodJob, Arrived
  <1>6. OnTheWay(g, a, m + 1 + Len(upQueue))'
    <2>1. PICK r : r = m + l
      OBVIOUS
    <2>2. OnTheWay(g, a, r) /\ (m + 1 + Len(upQueue))' = r
      BY <1>1, <1>4, <2>1 DEF Carried, l
    <2>3. CASE a = Len(g) /\ r = End(g, a) /\ Quiet
      BY <1>3, <2>2, <2>3 DEF OnTheWay, Quiet, OnAir
    <2>4. ASSUME NEW s \in Exbs, Sending(g, a, r, s)
          PROVE  Sending(g, a, m + 1 + Len(upQueue), s)'
      BY <1>3, <2>2, <2>4 DEF Sending, OnAir
    <2> QED BY <2>2, <2>3, <2>4 DEF OnTheWay
  <1>7. InQueue(g, m + 1)'
    <2>1. ASSUME NEW i \in 1..Len(g), NEW y \in 1..(l - 1),
                 g[i].first < m + 1 + y, m + 1 + y <= Last(g[i])
          PROVE  v[y] = Elem(g[i].addr, g[i].parts[m + 1 + y - g[i].first])
      <3>1. y + 1 \in 1..l /\ m + (y + 1) = m + 1 + y
        BY <1>2
      <3>2. upQueue[y + 1] = Elem(g[i].addr, g[i].parts[m + (y + 1) - g[i].first])
        BY <2>1, <3>1 DEF Carried, InQueue, l
      <3>3. m + (y + 1) - g[i].first = m + 1 + y - g[i].first
        <4> DEFINE f == g[i].first
        <4>1. f \in Nat /\ y \in Nat
          BY <1>2, JobType
        <4> HIDE DEF f
        <4>2. m + (y + 1) - f = m + 1 + y - f
          BY <4>1
        <4> QED BY <4>2 DEF f
      <3> QED BY <1>2, <3>2, <3>3
    <2> QED BY <1>1, <1>2, <2>1 DEF InQueue
  <1>8. 1 \in 1..l
    BY <1>2
  <1> QED BY <1>1, <1>2, <1>5, <1>6, <1>7, <1>8 DEF Carried, l

LEMMA SamePacket ==
    ASSUME StateOK, NEW g \in Seq(Jobs), NEW a \in Nat, NEW c \in Nat, NEW m \in Nat,
           NEW o \in Nat, Carried(g, a, m), Parsing(g, c, m, o), TakeFragment,
           c > 0, m < Last(g[c])
    PROVE  Parsing(g, c, m + 1, o)'
  <1>12. c \in 1..Len(g) /\ InJob(g[c], m, o)
    <2>1. c \in 0..Len(g) /\ Len(g) \in Nat /\ InJob(g[c], m, o)
      BY DEF Parsing
    <2> QED BY <2>1
  <1>13. PICK j \in Jobs : j = g[c]
    BY <1>12
  <1> DEFINE x == m - j.first
             z == (m + 1) - j.first
             d == j.parts[z]
  <1>1. InJob(j, m, o) /\ j \in Jobs
    BY <1>12, <1>13
  <1>2. UNCHANGED <<inBuf, mode, packet, queued, arrived>> /\ elem.data = <<>>
    BY DEF TakeFragment, radio
  <1>3. /\ j.first \in Nat /\ Last(j) \in Nat /\ Last(j) = j.first + Len(j.parts)
        /\ Len(j.parts) \in Nat
    BY <1>1, JobType DEF Last
  <1>4. /\ j.first < m /\ o + 0 = Before(x + 1) /\ RingScanned(Code(j), o)
        /\ Delivered(IF o >= Complete(Code(j)) THEN j.nth ELSE j.nth - Counted(j))
    BY <1>1, <1>2 DEF InJob, InFragment
  <1>5. Cuts(j.parts, Code(j))
    BY <1>12, <1>13 DEF Carried, Chained, GoodJob
  <1>6. elem' = Elem(j.addr, d)
    <2>1. elem' = upQueue[1] /\ 1 \in 1..Len(upQueue)
      BY FragmentCarried
    <2>2. j.first < m + 1 /\ m + 1 <= Last(j)
      BY <1>3, <1>4, <1>13
    <2>3. upQueue[1] = Elem(j.addr, j.parts[m + 1 - j.first])
      BY <1>12, <1>13, <2>1, <2>2 DEF Carried, InQueue
    <2>4. m + 1 - j.first = z
      <3> DEFINE i == j.first
      <3>1. i \in Nat
        BY <1>3
      <3> HIDE DEF i
      <3>2. m + 1 - i = (m + 1) - i
        BY <3>1
      <3> QED BY <3>2 DEF i
    <2> QED BY <2>1, <2>3, <2>4
  <1>7. x \in Nat /\ z = x + 1 /\ x > 0 /\ z \in 1..Len(j.parts) /\ z \in Nat /\ z > 0
        /\ j.first < m + 1 /\ m + 1 <= Last(j)
    <2> DEFINE i == j.first
               k == Len(j.parts)
               n == Last(j)
    <2>1. i \in Nat /\ k \in Nat /\ n = i + k /\ i < m /\ m < n
      BY <1>3, <1>4, <1>13
    <2> HIDE DEF i, k, n
    <2>2. m - i \in Nat /\ (m + 1) - i = m - i + 1 /\ m - i > 0 /\ (m + 1) - i \in 1..k
          /\ (m + 1) - i \in Nat /\ (m + 1) - i > 0 /\ i < m + 1 /\ m + 1 <= n
      BY <2>1
    <2> QED BY <2>2 DEF i, k, n
  <1> HIDE DEF x, z
  <1>8. /\ Len(d) = FragSize /\ FragSize \in Nat
        /\ Before(z + 1) = Before(z) + FragSize /\ Before(z) \in Nat
    <2>1. Before(z + 1) = Before(z) + FragSize /\ Before(z) \in Nat
      BY <1>7, BeforeType
    <2> QED BY <1>5, <1>7, <2>1, SizeType DEF Cuts
  <1>9. o + FragSize = Before(z + 1)
    BY <1>4, <1>7, <1>8
  <1>10. InJob(j, m + 1, o)'
    <2>1. elem'.addr = j.addr /\ elem'.data = d
      BY <1>6 DEF Elem
    <2>2. \A k \in 1..FragSize : d[k] = j.parts[z][FragSize - FragSize + k]
      <3>1. \A k \in 1..FragSize : FragSize - FragSize + k = k
        BY <1>8
      <3> QED BY <3>1
    <2>4. RingScanned(Code(j), o)'
      BY <1>2, <1>4 DEF RingScanned
    <2>5. Delivered(IF o >= Complete(Code(j)) THEN j.nth ELSE j.nth - Counted(j))'
      BY <1>2, <1>4 DEF Delivered
    <2>6. FragSize <= FragSize
      BY <1>8
    <2>7. InFragment(j, z, o)'
      <3> HIDE DEF d, z
      <3> QED BY <1>8, <1>9, <2>1, <2>2, <2>6 DEF InFragment, d
    <2>8. InFragment(j, (m + 1) - j.first, o)'
      BY <2>7 DEF z
    <2>9. j.first < m + 1 /\ m + 1 <= Last(j)
      BY <1>7
    <2> QED BY <2>1, <2>4, <2>5, <2>8, <2>9 DEF InJob
  <1>11. c \in 0..Len(g) /\ c # 0
    BY <1>12
  <1> QED BY <1>10, <1>11, <1>13 DEF Parsing

LEMMA NextPacket ==
    ASSUME StateOK, NEW g \in Seq(Jobs), NEW a \in Nat, NEW c \in Nat, NEW m \in Nat,
           NEW o \in Nat, Carried(g, a, m), Parsing(g, c, m, o), TakeFragment,
           c = 0 \/ ~(m < Last(g[c]))
    PROVE  Parsing(g, c + 1, m + 1, 0)'
  <1> DEFINE n == Len(g)
             l == Len(upQueue)
  <1>1. UNCHANGED <<inBuf, mode, packet, queued, arrived>> /\ elem.data = <<>>
    BY DEF TakeFragment, radio
  <1>2. /\ Chained(g) /\ Arrived(g, a) /\ OnTheWay(g, a, m + l) /\ InQueue(g, m)
        /\ n \in Nat /\ l \in Nat /\ m + l \in Nat
    BY QueueType DEF Carried
  <1>3. elem' = upQueue[1] /\ l > 0
    <2>1. elem' = upQueue[1] /\ 1 \in 1..l
      BY FragmentCarried
    <2> HIDE DEF l
    <2> QED BY <1>2, <2>1
  <1>4. c \in 0..n /\ m = End(g, c) /\ mode = "preamble" /\ Delivered(Nth(g, c))
    <2>1. CASE c = 0
      <3>1. m = 0 /\ mode = "preamble" /\ queued = <<>>
        BY <2>1 DEF Parsing
      <3>2. 0 \in 0..Len(arrived) /\ SubSeq(arrived, 1, 0) = <<>>
        <4>1. arrived \in Seq(Blobs) /\ Len(arrived) \in Nat
          BY QueueType
        <4> QED BY <4>1
      <3> QED BY <1>2, <2>1, <3>1, <3>2 DEF End, Nth, Delivered
    <2>2. CASE c # 0
      <3>1. c \in 1..n /\ InJob(g[c], m, o)
        <4>1. c \in 0..n /\ InJob(g[c], m, o)
          BY <2>2 DEF Parsing
        <4> QED BY <1>2, <2>2, <4>1
      <3>2. PICK j \in Jobs : j = g[c]
        BY <3>1
      <3>3. /\ j.first \in Nat /\ Last(j) \in Nat /\ Len(j.parts) \in Nat
            /\ Last(j) = j.first + Len(j.parts)
        BY JobType DEF Last
      <3>4. j.first < m /\ m <= Last(j) /\ ~(m < Last(j))
        BY <2>2, <3>1, <3>2 DEF InJob
      <3>5. m = Last(j) /\ m - j.first = Len(j.parts)
        <4> DEFINE i == j.first
                   k == Len(j.parts)
                   e == Last(j)
        <4>1. i \in Nat /\ k \in Nat /\ e \in Nat /\ e = i + k /\ m <= e /\ ~(m < e)
          BY <3>3, <3>4
        <4> HIDE DEF i, k, e
        <4>2. m = e /\ m - i = k
          BY <4>1
        <4> QED BY <4>2 DEF i, k, e
      <3>6. o + 0 = Before(Len(j.parts) + 1)
        BY <1>1, <3>1, <3>2, <3>5 DEF InJob, InFragment
      <3>7. o >= Complete(Code(j))
        <4>1. Complete(Code(j)) <= Before(Len(j.parts) + 1)
          BY <1>2, <3>1, <3>2 DEF Chained, GoodJob, Cuts
        <4> QED BY <3>6, <4>1
      <3>8. mode = "preamble" /\ Delivered(j.nth)
        BY <3>1, <3>2, <3>7 DEF InJob, RingScanned, Scanned
      <3> QED BY <2>2, <3>1, <3>2, <3>5, <3>8 DEF End, Nth
    <2> QED BY <2>1, <2>2
  <1>5. c # n
    <2>1. m + l <= End(g, n)
      BY <1>2, Progress
    <2> HIDE DEF l
    <2> QED BY <1>2, <1>3, <1>4, <2>1
  <1>6. c + 1 \in 1..n /\ c + 1 # 0 /\ (c + 1) - 1 = c
    BY <1>2, <1>4, <1>5
  <1>7. PICK j \in Jobs : j = g[c + 1]
    BY <1>6
  <1>8. /\ GoodJob(g, c + 1) /\ Cuts(j.parts, Code(j)) /\ j.first = m
        /\ j.nth = Nth(g, c) + Counted(j) /\ Nth(g, c) \in Nat
        /\ j.packet \in Sent /\ Counted(j) \in {0, 1} /\ Len(j.parts) \in Nat
    <2>1. GoodJob(g, c + 1)
      BY <1>2, <1>6 DEF Chained
    <2>2. Cuts(j.parts, Code(j)) /\ j.first = m /\ j.nth = Nth(g, c) + Counted(j)
      BY <1>4, <1>6, <1>7, <2>1 DEF GoodJob
    <2> QED BY <1>2, <1>4, <2>1, <2>2, EndType, JobType
  <1> DEFINE k == Len(j.parts)
             d == j.parts[1]
  <1>9. k > 0 /\ k \in Nat /\ Len(d) = FragSize /\ FragSize \in Nat
    <2>1. k > 0 /\ k \in Nat
      BY <1>8 DEF Cuts
    <2>2. 1 \in 1..k
      BY <2>1
    <2> QED BY <1>8, <2>1, <2>2, SizeType DEF Cuts
  <1>10. m < m + 1 /\ m + 1 <= Last(j)
    BY <1>8, <1>9 DEF Last
  <1>11. elem' = Elem(j.addr, d)
    <2>1. 1 \in 1..l
      BY <1>3, FragmentCarried
    <2>2. upQueue[1] = Elem(j.addr, j.parts[m + 1 - j.first])
      BY <1>2, <1>6, <1>7, <1>8, <1>10, <2>1 DEF InQueue
    <2>3. m + 1 - m = 1
      OBVIOUS
    <2> QED BY <1>3, <1>8, <2>2, <2>3
  <1>12. elem'.addr = j.addr /\ elem'.data = d
    BY <1>11 DEF Elem
  <1>13. InFragment(j, 1, 0)'
    <2>1. \A i \in 1..FragSize : d[i] = j.parts[1][FragSize - FragSize + i]
      <3>1. \A i \in 1..FragSize : FragSize - FragSize + i = i
        BY <1>9
      <3> QED BY <3>1
    <2>2. Before(1 + 1) = 0 + FragSize
      BY BeforeType, SizeType
    <2> HIDE DEF d
    <2> QED BY <1>9, <1>12, <2>1, <2>2 DEF InFragment, d
  <1>14. RingScanned(Code(j), 0)' /\ ~(0 >= Complete(Code(j)))
    <2>1. Complete(Code(j)) \in Nat /\ Complete(Code(j)) > PreambleSize + 3
      BY <1>8, PacketBytes DEF Code
    <2>2. 0 < PreambleSize /\ PreambleSize \in Nat
      BY SizeType
    <2>3. EndsWith(Contents(inBuf), 0, Preamble)
      <3>1. inBuf \in RingSet
        BY ByteType DEF StateOK, TypeOK, RingSet, RingBuffer
      <3>2. Len(Contents(inBuf)) \in Nat
        BY <3>1, RingIsTyped
      <3> QED BY <3>2 DEF EndsWith
    <2>4. Scanned(Code(j), 0, Contents(inBuf), "preamble", packet)
      BY <2>1, <2>2, <2>3, ScannedCases
    <2> QED BY <1>1, <1>4, <2>1, <2>2, <2>4 DEF RingScanned
  <1>15. Delivered(j.nth - Counted(j))'
    <2>1. j.nth - Counted(j) = Nth(g, c)
      BY <1>8
    <2> QED BY <1>1, <1>4, <2>1 DEF Delivered
  <1>16. (m + 1) - j.first = 1
    BY <1>8
  <1>17. InJob(j, m + 1, 0)'
    BY <1>8, <1>10, <1>12, <1>13, <1>14, <1>15, <1>16 DEF InJob
  <1>18. c + 1 \in 0..n
    BY <1>6
  <1> QED BY <1>6, <1>7, <1>17, <1>18 DEF Parsing

LEMMA FragmentStep ==
    ASSUME StateOK, NEW g \in Seq(Jobs), NEW a \in Nat, NEW c \in Nat, NEW m \in Nat,
           NEW o \in Nat, Carried(g, a, m), Parsing(g, c, m, o), TakeFragment
    PROVE  \E d, k, e \in Nat : Carried(g, a, k)' /\ Parsing(g, d, k, e)'
  <1>1. Carried(g, a, m + 1)' /\ m + 1 \in Nat /\ c + 1 \in Nat /\ 0 \in Nat
    BY FragmentCarried
  <1>2. CASE c > 0 /\ m < Last(g[c])
    BY <1>1, <1>2, SamePacket
  <1>3. CASE ~(c > 0 /\ m < Last(g[c]))
    <2>1. c = 0 \/ ~(m < Last(g[c]))
      BY <1>3
    <2> QED BY <1>1, <2>1, NextPacket
  <1> QED BY <1>2, <1>3

(***************************************************************************)
(* The parser reads a byte.  When that completes the packet all fragments  *)
(* of the packet have been taken, so it has arrived.                       *)
(***************************************************************************)
LEMMA CarriedKept ==
    ASSUME NEW g, NEW a, NEW m, Carried(g, a, m), UNCHANGED <<air, arrived, upQueue>>
    PROVE  Carried(g, a, m)'
  <1>1. Chained(g)' /\ Arrived(g, a)' /\ InQueue(g, m)'
    BY DEF Carried, Chained, GoodJob, Arrived, InQueue
  <1>2. OnTheWay(g, a, m + Len(upQueue))'
    <2>1. PICK r : r = m + Len(upQueue)
      OBVIOUS
    <2>2. OnTheWay(g, a, r) /\ (m + Len(upQueue))' = r
      BY <2>1 DEF Carried
    <2>3. CASE a = Len(g) /\ r = End(g, a) /\ Quiet
      BY <2>2, <2>3 DEF OnTheWay, Quiet, OnAir
    <2>4. ASSUME NEW s \in Exbs, Sending(g, a, r, s)
          PROVE  Sending(g, a, m + Len(upQueue), s)'
      BY <2>2, <2>4 DEF Sending, OnAir
    <2> QED BY <2>2, <2>3, <2>4 DEF OnTheWay
  <1> QED BY <1>1, <1>2 DEF Carried

LEMMA FragmentByte ==
    ASSUME StateOK, NEW j \in Jobs, NEW x \in Nat, NEW o \in Nat, FeedByte,
           Cuts(j.parts, Code(j)), InFragment(j, x, o), x \in 1..Len(j.parts)
    PROVE  /\ NextByte(Code(j), o, Head(elem.data))
           /\ InFragment(j, x, o + 1)'
           /\ o + 1 <= Before(x + 1)
  <1> DEFINE d == elem.data
             l == Len(d)
             v == Tail(d)
             F == FragSize
             q == j.parts[x]
             B == Before(x)
             B1 == Before(x + 1)
  <1>1. d \in Seq(Nat) /\ d # <<>> /\ elem' = [elem EXCEPT !.data = v]
    BY DEF StateOK, TypeOK, FeedByte
  <1>2. elem'.data = v
    BY <1>1 DEF StateOK, TypeOK
  <1>3. /\ l \in Nat /\ l > 0 /\ Head(d) = d[1] /\ Len(v) = l - 1
        /\ \A k \in 1..(l - 1) : v[k] = d[k + 1]
    <2> HIDE DEF d
    <2> QED BY <1>1
  <1>4. /\ l <= F /\ o + l = B1 /\ \A k \in 1..l : d[k] = q[F - l + k]
    BY DEF InFragment
  <1>5. x > 0 /\ B \in Nat /\ B1 = B + F /\ F \in Nat
    BY BeforeType, SizeType
  <1>6. \A k \in 1..F : NextByte(Code(j), B + k - 1, q[k])
    BY DEF Cuts
  <1> HIDE DEF d, l, v, F, q, B, B1
  <1>7. 1 \in 1..l /\ F - l + 1 \in 1..F /\ B + (F - l + 1) - 1 = o /\ o + 1 <= B1
    BY <1>3, <1>4, <1>5
  <1>8. NextByte(Code(j), o, Head(d))
    BY <1>3, <1>4, <1>6, <1>7
  <1>9. Len(v) <= F /\ o + 1 + Len(v) = B1
    BY <1>3, <1>4, <1>5
  <1>10. ASSUME NEW k \in 1..Len(v) PROVE v[k] = q[F - Len(v) + k]
    <2>1. k \in 1..(l - 1) /\ k + 1 \in 1..l /\ F - l + (k + 1) = F - Len(v) + k
      BY <1>3, <1>5
    <2> QED BY <1>3, <1>4, <2>1
  <1>11. InFragment(j, x, o + 1)'
    BY <1>2, <1>9, <1>10 DEF InFragment, F, q, B1
  <1> QED BY <1>7, <1>8, <1>11 DEF d, B1

LEMMA FeedStep ==
    ASSUME StateOK, NEW g \in Seq(Jobs), NEW a \in Nat, NEW c \in Nat, NEW m \in Nat,
           NEW o \in Nat, Carried(g, a, m), Parsing(g, c, m, o), FeedByte
    PROVE  /\ Carried(g, a, m)' /\ Parsing(g, c, m, o + 1)'
           /\ \/ UNCHANGED queued
              \/ /\ Len(queued) < Len(arrived)
                 /\ queued' = Append(queued, arrived[Len(queued) + 1])
  <1> DEFINE n == Len(g)
  <1>1. UNCHANGED <<air, arrived, upQueue>> /\ elem.data # <<>>
    BY DEF FeedByte, radio
  <1>2. Carried(g, a, m)'
    BY <1>1, CarriedKept
  <1>3. /\ Chained(g) /\ Arrived(g, a) /\ n \in Nat /\ OnTheWay(g, a, m + Len(upQueue))
        /\ Len(upQueue) \in Nat /\ arrived \in Seq(Blobs) /\ Len(arrived) \in Nat
    BY QueueType DEF Carried
  <1>4. c \in 1..n /\ InJob(g[c], m, o)
    <2>1. c \in 0..n /\ c # 0 /\ (c > 0 => InJob(g[c], m, o))
      BY <1>1 DEF Parsing
    <2> QED BY <1>3, <2>1
  <1>5. PICK j \in Jobs : j = g[c]
    BY <1>4
  <1> DEFINE x == m - j.first
             p == j.packet
             C == Complete(Code(j))
  <1>6. /\ j.first < m /\ m <= Last(j) /\ elem.addr = j.addr /\ InFragment(j, x, o)
        /\ RingScanned(Code(j), o)
        /\ Delivered(IF o >= C THEN j.nth ELSE j.nth - Counted(j))
    BY <1>4, <1>5 DEF InJob
  <1>7. /\ Cuts(j.parts, Code(j)) /\ Len(Code(j)) < Size /\ p \in Sent
        /\ j.nth \in Nat /\ Counted(j) \in {0, 1}
    BY <1>3, <1>4, <1>5, JobType DEF Chained, GoodJob
  <1>8. /\ x \in Nat /\ x \in 1..Len(j.parts) /\ (x = Len(j.parts) => m = Last(j))
        /\ Len(j.parts) \in Nat
    <2> DEFINE i == j.first
               k == Len(j.parts)
               e == Last(j)
    <2>1. i \in Nat /\ k \in Nat /\ e = i + k
      BY JobType DEF Last
    <2>2. i < m /\ m <= e
      BY <1>6
    <2> HIDE DEF i, k, e
    <2>3. m - i \in Nat /\ m - i \in 1..k /\ (m - i = k => m = e)
      BY <2>1, <2>2
    <2> QED BY <2>1, <2>3 DEF i, k, e
  <1> HIDE DEF x
  <1>9. /\ NextByte(Code(j), o, Head(elem.data)) /\ InFragment(j, x, o + 1)'
        /\ o + 1 <= Before(x + 1)
    BY <1>6, <1>7, <1>8, FragmentByte
  <1>10. ByteTaken(p, o)
    BY <1>6, <1>7, <1>9 DEF ByteTaken, Code
  <1>11. RingScanned(Code(j), o + 1)' /\ queued' = QueuedBy(p, o)
    BY <1>10, ByteScan DEF RingScanned, Code
  <1>12. elem'.addr = j.addr
    BY <1>6 DEF FeedByte, StateOK, TypeOK
  <1>13. C \in Nat
    BY <1>7, PacketBytes DEF Code
  <1> HIDE DEF C, p
  <1>14. /\ Delivered(IF o + 1 >= C THEN j.nth ELSE j.nth - Counted(j))'
         /\ \/ UNCHANGED queued
            \/ /\ Len(queued) < Len(arrived)
               /\ queued' = Append(queued, arrived[Len(queued) + 1])
    <2>1. CASE o + 1 # C
      <3>1. queued' = queued
        BY <1>11, <2>1 DEF QueuedBy, Code, C, p
      <3>2. (o + 1 >= C) <=> (o >= C)
        BY <1>13, <2>1
      <3>3. Delivered(IF o + 1 >= C THEN j.nth ELSE j.nth - Counted(j))
        BY <1>6, <3>2
      <3> QED BY <1>1, <3>1, <3>3 DEF Delivered
    <2>2. CASE o + 1 = C /\ Counted(j) = 0
      <3>1. queued' = queued
        BY <1>11, <2>2 DEF QueuedBy, Counted, p
      <3>2. o + 1 >= C /\ ~(o >= C) /\ j.nth - Counted(j) = j.nth
        BY <1>7, <1>13, <2>2
      <3>3. Delivered(j.nth)
        BY <1>6, <3>2
      <3> QED BY <1>1, <3>1, <3>2, <3>3 DEF Delivered
    <2>3. CASE o + 1 = C /\ Counted(j) = 1
      <3>1. queued' = Append(queued, Blob(j.addr, p))
        BY <1>6, <1>11, <2>3 DEF QueuedBy, Counted, Code, C, p
      <3>2. o + 1 >= C /\ ~(o >= C)
        BY <1>13, <2>3
      <3>3. x = Len(j.parts)
        <4> DEFINE k == Len(j.parts)
        <4>1. Before(k) < C
          BY <1>7 DEF Cuts, C
        <4>2. x + 1 \in Nat /\ 0 < x + 1 /\ k \in Nat /\ k > 0 /\ x \in 1..k
          BY <1>8
        <4>3. C <= Before(x + 1)
          BY <1>9, <2>3
        <4>4. Before(k) \in Nat /\ Before(x + 1) \in Nat
          BY <4>2, BeforeType
        <4>5. ~(x + 1 <= k)
          <5>1. x + 1 <= k => Before(x + 1) <= Before(k)
            BY <4>2, BeforeType
          <5> QED BY <1>13, <4>1, <4>3, <4>4, <5>1
        <4> HIDE DEF k
        <4>6. x = k
          BY <4>2, <4>5
        <4> QED BY <4>6 DEF k
      <3>4. c \in 1..a
        <4>1. Last(g[c]) <= m + Len(upQueue) /\ m + Len(upQueue) \in Nat
          BY <1>3, <1>5, <1>8, <3>3
        <4>2. c <= a
          BY <1>3, <1>4, <4>1, Progress
        <4> QED BY <1>4, <4>2
      <3>5. j.nth <= Len(arrived) /\ arrived[j.nth] = Blob(j.addr, p)
        BY <1>3, <1>5, <2>3, <3>4 DEF Arrived, p
      <3>6. Delivered(j.nth - 1)
        BY <1>6, <2>3, <3>2
      <3> DEFINE u == j.nth - 1
      <3>7. u \in 0..Len(arrived) /\ queued = SubSeq(arrived, 1, u)
        BY <3>6 DEF Delivered
      <3>8. u \in Nat /\ j.nth = u + 1 /\ u + 1 <= Len(arrived)
        BY <1>3, <1>7, <3>5, <3>7
      <3> HIDE DEF u
      <3>9. Append(queued, arrived[u + 1]) = SubSeq(arrived, 1, u + 1)
        BY <1>3, <3>7, <3>8, PrefixGrows
      <3>10. Len(queued) = u /\ u < Len(arrived)
        BY <1>3, <3>7, <3>8
      <3>11. queued' = Append(queued, arrived[u + 1])
        BY <3>1, <3>5, <3>8
      <3>12. Delivered(j.nth)'
        <4>1. j.nth \in 0..Len(arrived) /\ queued' = SubSeq(arrived, 1, j.nth)
          BY <1>3, <3>8, <3>9, <3>11
        <4> QED BY <1>1, <4>1 DEF Delivered
      <3> QED BY <3>2, <3>10, <3>11, <3>12
    <2> QED BY <1>7, <2>1, <2>2, <2>3
  <1>15. InJob(j, m, o + 1)'
    BY <1>6, <1>9, <1>11, <1>12, <1>14 DEF InJob, x, C
  <1>16. c \in 0..n /\ c # 0
    BY <1>3, <1>4
  <1> QED BY <1>2, <1>5, <1>14, <1>15, <1>16 DEF Parsing

-----------------------------------------------------------------------------
(* The refinement.                                                         *)

LEMMA InitFollows == Init => Follows
  <1> SUFFICES ASSUME Init PROVE Follows
    OBVIOUS
  <1>1. /\ air = [s \in Exbs |-> Silent] /\ arrived = <<>> /\ upQueue = <<>>
        /\ elem = NoElem /\ mode = "preamble" /\ queued = <<>>
    BY DEF Init
  <1> DEFINE g == <<>>
  <1>2. g \in Seq(Jobs) /\ Len(g) = 0 /\ Len(arrived) = 0 /\ Len(upQueue) = 0
    BY <1>1
  <1> HIDE DEF g
  <1>3. \A i : ~(i \in 1..0)
    OBVIOUS
  <1>4. Chained(g) /\ InQueue(g, 0) /\ Arrived(g, 0)
    BY <1>2, <1>3 DEF Chained, InQueue, Arrived, Nth
  <1>5. Quiet
    BY <1>1 DEF Quiet, OnAir, Silent
  <1>6. OnTheWay(g, 0, 0 + Len(upQueue))
    BY <1>2, <1>5 DEF OnTheWay, End
  <1>7. Parsing(g, 0, 0, 0)
    BY <1>1, <1>2 DEF Parsing, NoElem, Elem
  <1> QED BY <1>2, <1>4, <1>6, <1>7 DEF Follows, Carried

LEMMA IdleStep ==
    ASSUME NEW g, NEW a, NEW c, NEW m, NEW o, Carried(g, a, m), Parsing(g, c, m, o),
           UNCHANGED vars
    PROVE  Carried(g, a, m)' /\ Parsing(g, c, m, o)'
  <1>1. UNCHANGED <<air, arrived, upQueue, elem, inBuf, mode, packet, queued>>
    BY DEF vars
  <1>2. Parsing(g, c, m, o)'
    BY <1>1 DEF Parsing, InJob, InFragment, RingScanned, Delivered
  <1> QED BY <1>1, <1>2, CarriedKept

(***************************************************************************)
(* While the air is orderly every packet of which all fragments have       *)
(* arrived is queued once, whole, in order and from its sender, whatever   *)
(* the packets, the sizes and what malloc left in the ring: GateOut_thread *)
(* is a channel of packets (gate_out.c), as far as safety goes.            *)
(***************************************************************************)
THEOREM OrderlyIsChannel == Spec => Channel!Safety
  <1> DEFINE Frame == {Blob(s, p) : s \in Exbs, p \in Packet}
             Sends == \E f \in Frame : arrived' = Append(arrived, f)
             Takes == /\ Len(queued) < Len(arrived)
                      /\ queued' = Append(queued, arrived[Len(queued) + 1])
  <1>1. Init => Follows /\ Channel!Init
    BY InitFollows DEF Init, Channel!Init, InOrderOnly
  <1>2. ASSUME StateOK, Follows, [Next]_vars
        PROVE  Follows' /\ [Channel!Next]_(Channel!vars)
    <2>1. orderly' = orderly
      BY <1>2 DEF Next, vars, Begin, Receive, Lose, Tick, TakeFragment, FeedByte, radio
    <2>2. CASE ~orderly
      BY <2>1, <2>2 DEF Follows, Channel!vars, InOrderOnly
    <2>3. CASE orderly
      <3>1. PICK g \in Seq(Jobs), a \in Nat, c \in Nat, m \in Nat, o \in Nat :
               Carried(g, a, m) /\ Parsing(g, c, m, o)
        BY <1>2, <2>3 DEF Follows
      <3>2. SUFFICES
              /\ \E h \in Seq(Jobs), b, d, k, e \in Nat :
                    Carried(h, b, k)' /\ Parsing(h, d, k, e)'
              /\ \/ UNCHANGED <<arrived, queued>>
                 \/ Sends /\ UNCHANGED queued
                 \/ Takes /\ UNCHANGED arrived
        <4>1. UNCHANGED <<arrived, queued>> => UNCHANGED Channel!vars
          BY <2>1 DEF Channel!vars, InOrderOnly
        <4>2. Sends /\ UNCHANGED queued => Channel!Next
          BY <2>1, <2>3 DEF Channel!Next, Channel!Send, InOrderOnly
        <4>3. Takes /\ UNCHANGED arrived => Channel!Next
          BY <2>1, <2>3 DEF Channel!Next, Channel!Deliver, InOrderOnly
        <4> QED BY <4>1, <4>2, <4>3 DEF Follows
      <3>3. ASSUME NEW s \in Exbs, NEW p \in Packet, Begin(s, p)
            PROVE  /\ \E h \in Seq(Jobs), b, d, k, e \in Nat :
                         Carried(h, b, k)' /\ Parsing(h, d, k, e)'
                   /\ UNCHANGED <<arrived, queued>>
        <4>1. UNCHANGED <<arrived, queued>>
          BY <3>3 DEF Begin
        <4> QED BY <1>2, <2>3, <3>1, <3>3, <4>1, BeginStep
      <3>4. ASSUME NEW s \in Exbs, Receive(s)
            PROVE  /\ \E h \in Seq(Jobs), b, d, k, e \in Nat :
                         Carried(h, b, k)' /\ Parsing(h, d, k, e)'
                   /\ UNCHANGED arrived \/ Sends
                   /\ UNCHANGED queued
        <4>1. UNCHANGED queued
          BY <3>4 DEF Receive
        <4> QED BY <1>2, <2>3, <3>1, <3>4, <4>1, ReceiveStep
      <3>5. ASSUME NEW s \in Exbs, Lose(s) PROVE FALSE
        BY <2>3, <3>5 DEF Lose
      <3>6. CASE Tick
        <4>1. a + 1 \in Nat /\ UNCHANGED <<arrived, queued>>
          BY <3>6 DEF Tick
        <4> QED BY <1>2, <2>3, <3>1, <3>6, <4>1, TickStep
      <3>7. CASE TakeFragment
        <4>1. UNCHANGED <<arrived, queued>>
          BY <3>7 DEF TakeFragment, radio
        <4> QED BY <1>2, <3>1, <3>7, <4>1, FragmentStep
      <3>8. CASE FeedByte
        <4>1. o + 1 \in Nat /\ UNCHANGED arrived
          BY <3>8 DEF FeedByte, radio
        <4> QED BY <1>2, <3>1, <3>8, <4>1, FeedStep
      <3>9. CASE UNCHANGED vars
        <4>1. UNCHANGED <<arrived, queued>>
          BY <3>9 DEF vars
        <4> QED BY <3>1, <3>9, <4>1, IdleStep
      <3> QED BY <1>2, <3>3, <3>4, <3>5, <3>6, <3>7, <3>8, <3>9 DEF Next
    <2> QED BY <2>2, <2>3
  <1>3. Init => StateOK
    BY InitType
  <1>4. StateOK /\ [Next]_vars => StateOK'
    BY StateType
  <1> QED BY <1>1, <1>2, <1>3, <1>4, PTL DEF Spec, Channel!Safety
=============================================================================
