--------------------------- MODULE SoStreamProofs ---------------------------
(***************************************************************************)
(* Machine-checked theorems about SoStream, for every preamble, ring,      *)
(* packet and noise.                                                       *)
(***************************************************************************)
EXTENDS SoStream, SequenceTheorems, TLAPS

(***************************************************************************)
(* What is known of the operators of rings.c.  The lemmas cited do not     *)
(* mention the variables of Rings.                                         *)
(***************************************************************************)
Ring == INSTANCE RingProofs WITH Byte <- Nat, MaxData <- 0,
                                 ring <- inBuf, mutex <- mode, out <- packet

RingSet == RingBuffer(Size, Nat)

LEMMA SizeType == Size \in Nat /\ Size > 3 /\ CounterSize \in Nat /\ Size < CounterSize
                  /\ 0 \in Nat /\ HeaderSize = 3
                  /\ PreambleSize \in Nat /\ PreambleSize > 0 /\ PreambleSize < Size
                  /\ Preamble \in Seq(Nat)
  BY SoStreamAssumption DEF HeaderSize, PreambleSize

LEMMA SameOps ==
    /\ Ring!RingBuffer(Size, Nat) = RingSet
    /\ \A r : /\ Ring!DataLenght(r) = DataLenght(r) /\ Ring!Contents(r) = Contents(r)
              /\ Ring!DataClear(r) = DataClear(r) /\ Ring!ReadAll(r) = ReadAll(r)
    /\ \A r, b : Ring!Write(r, b) = Write(r, b)
    /\ \A r, off, w : Ring!CmpData(r, off, w) <=> CmpData(r, off, w)
    /\ \A junk : Ring!CreateRingBuffer(Size, junk) = CreateRingBuffer(Size, junk)
  <1> USE DEF DataLenght, Ring!DataLenght, Bytes, Ring!Bytes, Wrap, Ring!Wrap
  <1>1. Ring!RingBuffer(Size, Nat) = RingSet
    BY DEF RingSet, RingBuffer, Ring!RingBuffer
  <1>2. \A r : /\ Ring!DataLenght(r) = DataLenght(r) /\ Ring!Contents(r) = Contents(r)
               /\ Ring!DataClear(r) = DataClear(r) /\ Ring!ReadAll(r) = ReadAll(r)
    BY DEF Contents, Ring!Contents, DataClear, Ring!DataClear, ReadAll, Ring!ReadAll
  <1>3. \A r, b : Ring!Write(r, b) = Write(r, b)
    BY DEF Write, Ring!Write, Succ, Ring!Succ
  <1>4. \A r, off, w : Ring!CmpData(r, off, w) <=> CmpData(r, off, w)
    <2>1. \A r, p, n : Ring!Bytes(r, p, n) = Bytes(r, p, n)
      OBVIOUS
    <2> HIDE DEF Bytes, Ring!Bytes
    <2> QED BY <2>1 DEF CmpData, Ring!CmpData, Counter, Ring!Counter
  <1>5. \A junk : Ring!CreateRingBuffer(Size, junk) = CreateRingBuffer(Size, junk)
    BY DEF CreateRingBuffer, Ring!CreateRingBuffer
  <1> QED BY <1>1, <1>2, <1>3, <1>4, <1>5

LEMMA RingIsTyped ==
    ASSUME NEW r \in RingSet
    PROVE  /\ DataLenght(r) \in 0..(Size - 1)
           /\ Contents(r) \in Seq(Nat)
           /\ Len(Contents(r)) = DataLenght(r)
  <1>1. r \in Ring!RingBuffer(Size, Nat)
    BY SameOps
  <1>2. Ring!DataLenght(r) \in 0..(Size - 1)
    BY <1>1, Ring!LengthRange, SizeType
  <1>3. Ring!Contents(r) \in Seq(Nat) /\ Len(Ring!Contents(r)) = Ring!DataLenght(r)
    BY <1>1, Ring!ContentsSeq, SizeType
  <1> QED BY <1>2, <1>3, SameOps

LEMMA ByteWritten ==
    ASSUME NEW r \in RingSet, NEW b \in Nat
    PROVE  /\ Write(r, b) \in RingSet
           /\ Contents(Write(r, b)) =
                 IF Len(Contents(r)) = Size - 1 THEN Append(Tail(Contents(r)), b)
                                                ELSE Append(Contents(r), b)
  <1>1. r \in Ring!RingBuffer(Size, Nat) /\ b \in Nat
    BY SameOps
  <1>2. Size \in Nat /\ Size > 1 /\ CounterSize \in Nat /\ Size < CounterSize
        /\ 0 \in Nat
    BY SizeType
  <1>3. Ring!Write(r, b) \in Ring!RingBuffer(Size, Nat)
    BY <1>1, <1>2, Ring!ByteAdded
  <1>4. Ring!Contents(Ring!Write(r, b)) =
           IF Len(Ring!Contents(r)) = Size - 1 THEN Append(Tail(Ring!Contents(r)), b)
                                               ELSE Append(Ring!Contents(r), b)
    BY <1>1, <1>2, Ring!ByteAdded
  <1> QED BY <1>3, <1>4, SameOps

(***************************************************************************)
(* Both ways to empty the ring do.                                         *)
(***************************************************************************)
LEMMA RingCleared ==
    ASSUME NEW r \in RingSet
    PROVE  /\ DataClear(r) \in RingSet /\ ReadAll(r) \in RingSet
           /\ Contents(DataClear(r)) = <<>> /\ Contents(ReadAll(r)) = <<>>
  <1>1. r \in Ring!RingBuffer(Size, Nat)
    BY SameOps
  <1>2. /\ Ring!DataClear(r) \in Ring!RingBuffer(Size, Nat)
        /\ Ring!ReadAll(r) = Ring!DataClear(r)
        /\ Ring!Contents(Ring!DataClear(r)) = <<>>
    BY <1>1, Ring!RingEmptied, SizeType
  <1> QED BY <1>2, SameOps

(***************************************************************************)
(* The comparison with the last bytes of the data, when a counter holds    *)
(* the position at which it begins.                                        *)
(***************************************************************************)
LEMMA DataCompared ==
    ASSUME NEW r \in RingSet, NEW w \in Seq(Nat), Len(w) <= DataLenght(r),
           r.reader + (DataLenght(r) - Len(w)) < CounterSize
    PROVE  CmpData(r, DataLenght(r) - Len(w), w) <=>
              SubSeq(Contents(r), DataLenght(r) - Len(w) + 1, DataLenght(r)) = w
  <1> DEFINE off == DataLenght(r) - Len(w)
             n   == Len(w)
  <1>1. DataLenght(r) \in 0..(Size - 1) /\ n \in Nat
    BY RingIsTyped
  <1>2. /\ off \in 0..DataLenght(r) /\ n \in 0..(DataLenght(r) - off)
        /\ off + n = DataLenght(r) /\ r.reader + off < CounterSize
    BY <1>1
  <1> HIDE DEF off
  <1>3. /\ r \in Ring!RingBuffer(Size, Nat)
        /\ off \in 0..Ring!DataLenght(r) /\ n \in 0..(Ring!DataLenght(r) - off)
    BY <1>2, SameOps
  <1>4. Ring!CmpData(r, off, w) <=> SubSeq(Ring!Contents(r), off + 1, off + n) = w
    BY <1>2, <1>3, Ring!PartFound, SizeType
  <1>5. CmpData(r, off, w) <=> SubSeq(Contents(r), off + 1, off + n) = w
    BY <1>4, SameOps
  <1> QED BY <1>2, <1>5 DEF off

(***************************************************************************)
(* A preamble that follows a packet at once is in reach.                   *)
(***************************************************************************)
LEMMA AdjacentInReach == InReach(0)
  BY SizeType DEF InReach

LEMMA RingCreated ==
    ASSUME NEW junk \in Junk
    PROVE  /\ CreateRingBuffer(Size, junk) \in RingSet
           /\ Contents(CreateRingBuffer(Size, junk)) = <<>>
  <1>1. junk \in [0..(Size - 1) -> Nat]
    BY SoStreamAssumption
  <1>2. /\ Ring!CreateRingBuffer(Size, junk) \in Ring!RingBuffer(Size, Nat)
        /\ Ring!Contents(Ring!CreateRingBuffer(Size, junk)) = <<>>
    BY <1>1, Ring!RingMade, SizeType
  <1> QED BY <1>2, SameOps

-----------------------------------------------------------------------------
(* The shape of the state.                                                 *)

LEMMA EncodeType ==
    ASSUME NEW f \in Frame
    PROVE  /\ f.tid \in Nat /\ f.action \in Nat /\ f.data \in Seq(Nat)
           /\ f = [tid |-> f.tid, action |-> f.action, data |-> f.data]
           /\ Encode(f) \in Seq(Nat)
           /\ Len(Encode(f)) = PreambleSize + 3 + Len(f.data)
  <1>1. /\ f.tid \in Nat /\ f.action \in Nat /\ f.data \in Seq(Nat)
        /\ f = [tid |-> f.tid, action |-> f.action, data |-> f.data]
    BY SoStreamAssumption
  <1> QED BY <1>1, SizeType DEF Encode, PreambleSize

LEMMA InitType == Init => TypeOK
  <1> SUFFICES ASSUME Init PROVE TypeOK
    OBVIOUS
  <1>1. PICK junk \in Junk : inBuf = CreateRingBuffer(Size, junk)
    BY DEF Init
  <1>2. inBuf \in RingSet
    BY <1>1, RingCreated
  <1>3. inBuf \in [buffer : [0..(Size - 1) -> Nat], reader : 0..(Size - 1),
                  writer : 0..(Size - 1), size : {Size}]
    BY <1>2 DEF RingSet, RingBuffer
  <1>4. <<>> \in Seq(Nat) /\ <<>> \in Seq(Frame)
        /\ <<>> \in Seq([tid : Nat, action : Nat, data : Seq(Nat)])
    OBVIOUS
  <1>5. NoPacket \in [tid : Nat, type : Nat, length : Nat]
    BY DEF NoPacket
  <1> QED BY <1>3, <1>4, <1>5 DEF Init, TypeOK

LEMMA ClientType ==
    ASSUME TypeOK, \/ \E f \in Frame : ClientSend(f) \/ HangUp(f)
                   \/ \E bytes \in Noise : ClientNoise(bytes)
    PROVE  TypeOK'
  <1>1. stream \in Seq(Nat) /\ sent \in Seq(Frame)
    BY DEF TypeOK
  <1>2. ASSUME stream' \in Seq(Nat), sent' \in Seq(Frame), open' \in BOOLEAN,
               noisy' \in BOOLEAN, UNCHANGED <<receiver, downQueue>>
        PROVE  TypeOK'
    BY <1>2 DEF TypeOK, receiver
  <1>3. ASSUME NEW f \in Frame, ClientSend(f) PROVE TypeOK'
    <2>1. stream \o Encode(f) \in Seq(Nat) /\ Append(sent, f) \in Seq(Frame)
      BY <1>1, EncodeType
    <2> QED BY <1>2, <1>3, <2>1 DEF ClientSend, TypeOK
  <1>4. ASSUME NEW f \in Frame, HangUp(f) PROVE TypeOK'
    <2>1. PICK n \in 0..(Len(Encode(f)) - 1) : stream' = stream \o SubSeq(Encode(f), 1, n)
      BY <1>4 DEF HangUp
    <2>2. stream' \in Seq(Nat)
      <3> DEFINE e == Encode(f)
      <3>1. e \in Seq(Nat) /\ Len(e) \in Nat
        BY EncodeType
      <3> HIDE DEF e
      <3>2. SubSeq(e, 1, n) \in Seq(Nat)
        <4>1. n \in 0..Len(e)
          BY <3>1 DEF e
        <4> QED BY <3>1, <4>1
      <3> QED BY <1>1, <2>1, <3>2 DEF e
    <2> QED BY <1>2, <1>4, <2>2 DEF HangUp, TypeOK
  <1>5. ASSUME NEW bytes \in Noise, ClientNoise(bytes) PROVE TypeOK'
    <2>1. stream \o bytes \in Seq(Nat)
      BY <1>1, SoStreamAssumption
    <2> QED BY <1>2, <1>5, <2>1 DEF ClientNoise, TypeOK
  <1> QED BY <1>3, <1>4, <1>5

(***************************************************************************)
(* The ring with the byte just read, and the data it hands out.            *)
(***************************************************************************)
LEMMA ByteType ==
    ASSUME TypeOK, ReadByte
    PROVE  /\ inBuf \in RingSet /\ Head(stream) \in Nat /\ Tail(stream) \in Seq(Nat)
           /\ Write(inBuf, Head(stream)) \in RingSet
  <1>1. stream \in Seq(Nat) /\ stream # <<>> /\ inBuf \in RingSet
    BY DEF TypeOK, ReadByte, RingSet, RingBuffer
  <1>2. Head(stream) \in Nat /\ Tail(stream) \in Seq(Nat)
    BY <1>1
  <1> QED BY <1>1, <1>2, ByteWritten

LEMMA ReaderType == ASSUME TypeOK, ReadByte PROVE TypeOK'
  <1> DEFINE r == Write(inBuf, Head(stream))
             c == Contents(r)
  <1>1. r \in RingSet /\ c \in Seq(Nat) /\ Len(c) = DataLenght(r)
    BY ByteType, RingIsTyped
  <1>2. /\ stream' \in Seq(Nat) /\ UNCHANGED <<open, sent, noisy, alive>>
        /\ HuntPreamble(r) \/ ParseHeader(r) \/ ParseBody(r)
    BY ByteType DEF ReadByte
  <1>3. DataClear(r) \in RingSet /\ ReadAll(r) \in RingSet
    BY <1>1, RingCleared
  <1> HIDE DEF r, c
  <1>4. CASE HuntPreamble(r)
    BY <1>1, <1>2, <1>3, <1>4 DEF HuntPreamble, TypeOK, RingSet, RingBuffer
  <1>5. CASE ParseHeader(r)
    <2>1. CASE DataLenght(r) >= HeaderSize
      <3>1. c[1] \in Nat /\ c[2] \in Nat /\ c[3] \in Nat
        BY <1>1, <2>1, SizeType
      <3>2. /\ packet' = [tid |-> c[1], type |-> c[2], length |-> c[3]]
            /\ inBuf' = ReadAll(r) /\ mode' = "body" /\ downQueue' = downQueue
        BY <1>5, <2>1 DEF ParseHeader, c
      <3> QED BY <1>2, <1>3, <3>1, <3>2 DEF TypeOK, RingSet, RingBuffer
    <2>2. CASE ~(DataLenght(r) >= HeaderSize)
      BY <1>1, <1>2, <1>5, <2>2 DEF ParseHeader, TypeOK, RingSet, RingBuffer
    <2> QED BY <2>1, <2>2
  <1>6. CASE ParseBody(r)
    <2>1. CASE DataLenght(r) >= packet.length
      <3>1. SubSeq(c, 1, packet.length) \in Seq(Nat)
        BY <1>1, <2>1 DEF TypeOK
      <3>2. /\ downQueue' = Append(downQueue, [tid |-> packet.tid, action |-> packet.type,
                                              data |-> SubSeq(c, 1, packet.length)])
            /\ inBuf' = ReadAll(r) /\ mode' = "preamble" /\ packet' = packet
        BY <1>6, <2>1 DEF ParseBody, c
      <3>3. downQueue' \in Seq([tid : Nat, action : Nat, data : Seq(Nat)])
        BY <3>1, <3>2 DEF TypeOK
      <3> QED BY <1>2, <1>3, <3>2, <3>3 DEF TypeOK, RingSet, RingBuffer
    <2>2. CASE ~(DataLenght(r) >= packet.length)
      BY <1>1, <1>2, <1>6, <2>2 DEF ParseBody, TypeOK, RingSet, RingBuffer
    <2> QED BY <2>1, <2>2
  <1> QED BY <1>2, <1>4, <1>5, <1>6

(***************************************************************************)
(* The state of the parser keeps the shape TypeOK gives it: whatever the   *)
(* client writes, the positions of the ring stay in its buffer.            *)
(***************************************************************************)
THEOREM TypeCorrect == Spec => []TypeOK
  <1>1. TypeOK /\ [Next]_vars => TypeOK'
    <2>1. ASSUME TypeOK, ReadEnd \/ UNCHANGED vars PROVE TypeOK'
      BY <2>1 DEF ReadEnd, vars, client, TypeOK
    <2> QED BY <2>1, ClientType, ReaderType DEF Next
  <1> QED BY <1>1, InitType, PTL DEF Spec

-----------------------------------------------------------------------------
(* The parser is a channel.  The argument looks at all the bytes V that    *)
(* the client has ever written, the packets g it has begun, the last of    *)
(* which may be broken off, and the places b after which they begin.       *)

End(g, b, i) == IF i = 0 THEN 0 ELSE b[i] + Len(Encode(g[i]))

(***************************************************************************)
(* The packets are in V one after the other, with no preamble in between   *)
(* and not more than the parser can reach across.                          *)
(***************************************************************************)
Begun(V, g, b) ==
    /\ Len(b) = Len(g)
    /\ \A i \in 1..Len(g) :
         /\ End(g, b, i - 1) <= b[i] /\ b[i] <= Len(V)
         /\ \A k \in 1..Len(Encode(g[i])) :
               b[i] + k <= Len(V) => V[b[i] + k] = Encode(g[i])[k]
         /\ \A j \in End(g, b, i - 1)..(b[i] - 1) : ~Occurs(V, j, Preamble)
         /\ InReach(b[i] - End(g, b, i - 1))

(***************************************************************************)
(* All that were sent are whole; one that is broken off is the last that a *)
(* client wrote.                                                           *)
(***************************************************************************)
Written(V, g, b) ==
    /\ Begun(V, g, b)
    /\ Len(sent) <= Len(g)
    /\ \A i \in 1..Len(sent) : g[i] = sent[i] /\ End(g, b, i) <= Len(V)
    /\ Len(sent) < Len(g) => /\ ~open /\ Len(g) = Len(sent) + 1
                             /\ Len(V) < End(g, b, Len(g))
    /\ Len(sent) = Len(g) =>
          /\ \A j \in End(g, b, Len(g))..Len(V) : ~Occurs(V, j, Preamble)
          /\ InReach(Len(V) - End(g, b, Len(g)))
    /\ open /\ ~noisy => Len(V) = End(g, b, Len(g))

(***************************************************************************)
(* What is known of the bytes read, all but those still in the stream:     *)
(* the ring holds the last of them, and the mode says where in a packet,   *)
(* or after which packet, they end.                                        *)
(***************************************************************************)
Consumed(V) == Len(V) - Len(stream)

InRing(V) ==
    /\ Len(stream) <= Len(V)
    /\ \A i \in 1..Len(stream) : stream[i] = V[Consumed(V) + i]
    /\ Len(Contents(inBuf)) <= Consumed(V)
    /\ Occurs(V, Consumed(V) - Len(Contents(inBuf)), Contents(inBuf))

Delivered ==
    /\ Len(downQueue) <= Len(sent)
    /\ \A i \in 1..Len(downQueue) : downQueue[i] = sent[i]

Hunting(V, g, b) ==
    LET e == End(g, b, Len(downQueue))
        n == Consumed(V)
    IN  /\ e <= n
        /\ Len(Contents(inBuf)) = IF n - e < Size THEN n - e ELSE Size - 1
        /\ \A j \in e..(n - PreambleSize) : ~Occurs(V, j, Preamble)

InHeader(V, g, b) ==
    /\ Len(downQueue) < Len(g)
    /\ Consumed(V) = b[Len(downQueue) + 1] + PreambleSize + Len(Contents(inBuf))
    /\ Len(Contents(inBuf)) < HeaderSize

InBody(V, g, b) ==
    LET f == g[Len(downQueue) + 1]
    IN  /\ Len(downQueue) < Len(g)
        /\ Consumed(V) = b[Len(downQueue) + 1] + PreambleSize + HeaderSize
                             + Len(Contents(inBuf))
        /\ packet = [tid |-> f.tid, type |-> f.action, length |-> Len(f.data)]
        /\ Len(Contents(inBuf)) < packet.length

Parsed(V, g, b) ==
    /\ InRing(V)
    /\ Delivered
    /\ mode = "preamble" => Hunting(V, g, b)
    /\ mode = "header"   => InHeader(V, g, b)
    /\ mode = "body"     => InBody(V, g, b)

Follows == \E V \in Seq(Nat), g \in Seq(Frame), b \in Seq(Nat) :
               Written(V, g, b) /\ Parsed(V, g, b)

LEMMA ThreeParts ==
    ASSUME NEW p \in Seq(Nat), NEW h \in Seq(Nat), NEW d \in Seq(Nat)
    PROVE  /\ \A i \in 1..Len(p) : (p \o h \o d)[i] = p[i]
           /\ \A i \in 1..Len(h) : (p \o h \o d)[Len(p) + i] = h[i]
           /\ \A i \in 1..Len(d) : (p \o h \o d)[Len(p) + Len(h) + i] = d[i]
  <1> DEFINE q == p \o h
  <1>1. /\ q \in Seq(Nat) /\ Len(q) = Len(p) + Len(h)
        /\ \A i \in 1..(Len(p) + Len(h)) :
              q[i] = IF i <= Len(p) THEN p[i] ELSE h[i - Len(p)]
    BY ConcatProperties
  <1> HIDE DEF q
  <1>2. \A i \in 1..(Len(q) + Len(d)) :
           (q \o d)[i] = IF i <= Len(q) THEN q[i] ELSE d[i - Len(q)]
    BY <1>1, ConcatProperties
  <1>3. Len(p) \in Nat /\ Len(h) \in Nat /\ Len(d) \in Nat
    BY LenProperties
  <1>4. \A i \in 1..Len(p) : (q \o d)[i] = p[i]
    BY <1>1, <1>2, <1>3
  <1> DEFINE z == q \o d
  <1>z. \A i \in 1..(Len(q) + Len(d)) : z[i] = IF i <= Len(q) THEN q[i] ELSE d[i - Len(q)]
    BY <1>2
  <1> HIDE DEF z
  <1>5. ASSUME NEW i \in 1..Len(h) PROVE z[Len(p) + i] = h[i]
    <2>1. /\ Len(p) + i \in 1..Len(q) /\ Len(p) + i \in 1..(Len(q) + Len(d))
          /\ Len(p) + i \in 1..(Len(p) + Len(h))
          /\ ~(Len(p) + i <= Len(p)) /\ Len(p) + i - Len(p) = i /\ Len(p) + i <= Len(q)
      BY <1>1, <1>3
    <2>2. z[Len(p) + i] = q[Len(p) + i]
      BY <1>z, <2>1
    <2>3. q[Len(p) + i] = h[Len(p) + i - Len(p)]
      BY <1>1, <2>1
    <2> QED BY <2>1, <2>2, <2>3
  <1>6. ASSUME NEW i \in 1..Len(d) PROVE z[Len(p) + Len(h) + i] = d[i]
    <2> DEFINE j == Len(p) + Len(h) + i
    <2>1. j \in 1..(Len(q) + Len(d)) /\ ~(j <= Len(q)) /\ j - Len(q) = i
      BY <1>1, <1>3
    <2> HIDE DEF j
    <2>2. z[j] = IF j <= Len(q) THEN q[j] ELSE d[j - Len(q)]
      BY <1>z, <2>1
    <2> QED BY <2>1, <2>2 DEF j
  <1> HIDE DEF q
  <1>7. q \o d = z
    BY DEF z
  <1> QED BY <1>4, <1>5, <1>6, <1>7 DEF q

LEMMA EncodeBytes ==
    ASSUME NEW f \in Frame
    PROVE  /\ \A i \in 1..PreambleSize : Encode(f)[i] = Preamble[i]
           /\ Encode(f)[PreambleSize + 1] = f.tid
           /\ Encode(f)[PreambleSize + 2] = f.action
           /\ Encode(f)[PreambleSize + 3] = Len(f.data)
           /\ \A i \in 1..Len(f.data) : Encode(f)[PreambleSize + 3 + i] = f.data[i]
  <1>1. f.tid \in Nat /\ f.action \in Nat /\ f.data \in Seq(Nat)
    BY EncodeType
  <1>2. Len(f.data) \in Nat
    BY <1>1, LenProperties
  <1> DEFINE h == <<f.tid, f.action, Len(f.data)>>
  <1>3. /\ h \in Seq(Nat) /\ Len(h) = 3
        /\ h[1] = f.tid /\ h[2] = f.action /\ h[3] = Len(f.data)
    BY <1>1, <1>2
  <1>4. Encode(f) = Preamble \o h \o f.data
    BY DEF Encode
  <1> HIDE DEF h
  <1>5. /\ \A i \in 1..PreambleSize : Encode(f)[i] = Preamble[i]
        /\ \A i \in 1..3 : Encode(f)[PreambleSize + i] = h[i]
        /\ \A i \in 1..Len(f.data) : Encode(f)[PreambleSize + 3 + i] = f.data[i]
    <2>1. Preamble \in Seq(Nat) /\ PreambleSize = Len(Preamble)
      BY SizeType DEF PreambleSize
    <2> DEFINE d == f.data
               e == Encode(f)
    <2>2. d \in Seq(Nat) /\ e = Preamble \o h \o d
      BY <1>1, <1>4
    <2> HIDE DEF d, e
    <2>3. /\ \A i \in 1..Len(Preamble) : e[i] = Preamble[i]
          /\ \A i \in 1..Len(h) : e[Len(Preamble) + i] = h[i]
          /\ \A i \in 1..Len(d) : e[Len(Preamble) + Len(h) + i] = d[i]
      <3>1. h \in Seq(Nat)
        BY <1>3
      <3> QED BY <2>1, <2>2, <3>1, ThreeParts
    <2> QED BY <1>3, <2>1, <2>3 DEF d, e
  <1> QED BY <1>3, <1>5

-----------------------------------------------------------------------------
(* The thread.                                                             *)

(***************************************************************************)
(* A window that ends after n bytes of V moves on by one: it grows, or it  *)
(* loses its first byte.                                                   *)
(***************************************************************************)
LEMMA WindowGrows ==
    ASSUME NEW V \in Seq(Nat), NEW n \in Nat, n < Len(V),
           NEW c \in Seq(Nat), Len(c) <= n, Occurs(V, n - Len(c), c)
    PROVE  /\ Append(c, V[n + 1]) \in Seq(Nat)
           /\ Len(Append(c, V[n + 1])) = Len(c) + 1
           /\ Occurs(V, n + 1 - (Len(c) + 1), Append(c, V[n + 1]))
  <1> DEFINE d == Append(c, V[n + 1])
  <1>1. V[n + 1] \in Nat /\ Len(c) \in Nat
    OBVIOUS
  <1>2. /\ d \in Seq(Nat) /\ Len(d) = Len(c) + 1
        /\ \A i \in 1..Len(c) : d[i] = c[i]
        /\ d[Len(c) + 1] = V[n + 1]
    BY <1>1, AppendProperties
  <1> HIDE DEF d
  <1>3. ASSUME NEW i \in 1..Len(d) PROVE V[n + 1 - (Len(c) + 1) + i] = d[i]
    <2>1. CASE i = Len(c) + 1
      BY <1>1, <1>2, <2>1
    <2>2. CASE i # Len(c) + 1
      <3>1. i \in 1..Len(c) /\ n + 1 - (Len(c) + 1) + i = n - Len(c) + i
        BY <1>1, <1>2, <2>2
      <3> QED BY <1>2, <3>1 DEF Occurs
    <2> QED BY <2>1, <2>2
  <1>4. n + 1 - (Len(c) + 1) + Len(d) <= Len(V)
    BY <1>1, <1>2
  <1> QED BY <1>2, <1>3, <1>4 DEF d, Occurs

LEMMA WindowSlides ==
    ASSUME NEW V \in Seq(Nat), NEW n \in Nat, n < Len(V),
           NEW c \in Seq(Nat), Len(c) <= n, Occurs(V, n - Len(c), c), c # <<>>
    PROVE  /\ Append(Tail(c), V[n + 1]) \in Seq(Nat)
           /\ Len(Append(Tail(c), V[n + 1])) = Len(c)
           /\ Occurs(V, n + 1 - Len(c), Append(Tail(c), V[n + 1]))
  <1> DEFINE t == Tail(c)
  <1>1. /\ t \in Seq(Nat) /\ Len(t) = Len(c) - 1 /\ Len(c) \in Nat /\ Len(c) > 0
        /\ \A i \in 1..Len(t) : t[i] = c[i + 1]
    BY HeadTailProperties, EmptySeq
  <1> HIDE DEF t
  <1>2. Len(t) <= n
    BY <1>1
  <1>3. n - Len(t) = n - Len(c) + 1 /\ n - Len(t) + Len(t) <= Len(V)
    BY <1>1
  <1>4. ASSUME NEW i \in 1..Len(t) PROVE V[n - Len(t) + i] = t[i]
    <2>1. i + 1 \in 1..Len(c) /\ n - Len(t) + i = n - Len(c) + (i + 1)
      BY <1>1
    <2> QED BY <1>1, <2>1 DEF Occurs
  <1>5. Occurs(V, n - Len(t), t)
    BY <1>3, <1>4 DEF Occurs
  <1>6. Len(t) + 1 = Len(c)
    BY <1>1
  <1> QED BY <1>1, <1>2, <1>5, <1>6, WindowGrows DEF t


(***************************************************************************)
(* The ring with the byte just read in it holds the last bytes read, one   *)
(* more unless it was full.                                                *)
(***************************************************************************)
LEMMA ByteFollows ==
    ASSUME TypeOK, ReadByte, NEW V \in Seq(Nat), InRing(V),
           NEW w, w = Write(inBuf, Head(stream))
    PROVE  /\ w \in RingSet /\ Consumed(V) \in Nat /\ Consumed(V) < Len(V)
           /\ Contents(w) \in Seq(Nat)
           /\ Len(Contents(w)) = IF Len(Contents(inBuf)) = Size - 1 THEN Size - 1
                                 ELSE Len(Contents(inBuf)) + 1
           /\ Len(Contents(w)) <= Consumed(V) + 1
           /\ Occurs(V, Consumed(V) + 1 - Len(Contents(w)), Contents(w))
           /\ Consumed(V)' = Consumed(V) + 1
           /\ Len(stream') <= Len(V)
           /\ \A i \in 1..Len(stream') : stream'[i] = V[Consumed(V)' + i]
  <1> DEFINE n == Consumed(V)
             c == Contents(inBuf)
  <1>1. /\ stream \in Seq(Nat) /\ stream # <<>> /\ stream' = Tail(stream)
        /\ inBuf \in RingSet
    BY ByteType DEF TypeOK, ReadByte
  <1>2. /\ Len(stream) \in Nat /\ Len(stream) > 0 /\ Len(V) \in Nat
        /\ Len(stream') = Len(stream) - 1
        /\ Head(stream) = stream[1]
        /\ \A i \in 1..Len(stream') : stream'[i] = stream[i + 1]
    BY <1>1, HeadTailProperties, EmptySeq, LenProperties
  <1>3. /\ Len(stream) <= Len(V) /\ Len(c) <= n /\ Occurs(V, n - Len(c), c)
        /\ \A i \in 1..Len(stream) : stream[i] = V[n + i]
        /\ n = Len(V) - Len(stream) /\ n' = Len(V) - Len(stream')
    BY DEF InRing, Consumed
  <1>4. c \in Seq(Nat) /\ Len(c) \in 0..(Size - 1) /\ Size \in Nat /\ Size > 3
    BY <1>1, RingIsTyped, SizeType
  <1> HIDE DEF n, c
  <1>5. n \in Nat /\ n < Len(V) /\ n' = n + 1 /\ Len(stream') <= Len(V)
    BY <1>2, <1>3
  <1>6. Head(stream) = V[n + 1]
    BY <1>2, <1>3
  <1>7. \A i \in 1..Len(stream') : stream'[i] = V[n' + i]
    <2> TAKE i \in 1..Len(stream')
    <2>1. i + 1 \in 1..Len(stream) /\ n + (i + 1) = n' + i
      BY <1>2, <1>5
    <2> QED BY <1>2, <1>3, <2>1
  <1>8. /\ w \in RingSet
        /\ Contents(w) = IF Len(c) = Size - 1 THEN Append(Tail(c), V[n + 1])
                         ELSE Append(c, V[n + 1])
    BY <1>1, <1>6, ByteType, ByteWritten DEF c
  <1>9. /\ Contents(w) \in Seq(Nat)
        /\ Len(Contents(w)) = IF Len(c) = Size - 1 THEN Size - 1 ELSE Len(c) + 1
        /\ Len(Contents(w)) <= n + 1
        /\ Occurs(V, n + 1 - Len(Contents(w)), Contents(w))
    <2>1. CASE Len(c) = Size - 1
      <3>1. c # <<>>
        BY <1>4, <2>1, EmptySeq
      <3>2. /\ Append(Tail(c), V[n + 1]) \in Seq(Nat)
            /\ Len(Append(Tail(c), V[n + 1])) = Len(c)
            /\ Occurs(V, n + 1 - Len(c), Append(Tail(c), V[n + 1]))
        BY <1>3, <1>4, <1>5, <3>1, WindowSlides
      <3> HIDE DEF n
      <3>3. Contents(w) = Append(Tail(c), V[n + 1])
        BY <1>8, <2>1
      <3>4. Len(Contents(w)) = Len(c) /\ Len(c) <= n + 1
        BY <1>3, <1>4, <1>5, <3>2, <3>3
      <3> QED BY <2>1, <3>2, <3>3, <3>4
    <2>2. CASE Len(c) # Size - 1
      <3>1. /\ Append(c, V[n + 1]) \in Seq(Nat)
            /\ Len(Append(c, V[n + 1])) = Len(c) + 1
            /\ Occurs(V, n + 1 - (Len(c) + 1), Append(c, V[n + 1]))
        BY <1>3, <1>4, <1>5, WindowGrows
      <3>2. Contents(w) = Append(c, V[n + 1])
        BY <1>8, <2>2
      <3>3. Len(c) + 1 <= n + 1
        BY <1>3, <1>4, <1>5
      <3>4. Len(Contents(w)) = Len(c) + 1
        BY <3>1, <3>2
      <3> QED BY <2>2, <3>1, <3>2, <3>3, <3>4
    <2> QED BY <2>1, <2>2
  <1> QED BY <1>5, <1>7, <1>8, <1>9 DEF n, c

(***************************************************************************)
(* The test for the preamble sees it where the bytes read end in it, when  *)
(* the bytes before it are in reach.                                       *)
(***************************************************************************)
LEMMA PreambleFound ==
    ASSUME NEW w \in RingSet, NEW V \in Seq(Nat), NEW n \in Nat, n <= Len(V),
           Len(Contents(w)) <= n, Occurs(V, n - Len(Contents(w)), Contents(w)),
           NEW k \in Nat, InReach(k), Len(Contents(w)) - PreambleSize <= k
    PROVE  PreambleEnds(w) <=> /\ PreambleSize <= Len(Contents(w))
                               /\ Occurs(V, n - PreambleSize, Preamble)
  <1> DEFINE c == Contents(w)
             L == Len(c)
             P == PreambleSize
  <1>1. /\ c \in Seq(Nat) /\ L \in Nat /\ DataLenght(w) = L
        /\ Preamble \in Seq(Nat) /\ P = Len(Preamble) /\ P \in Nat /\ P > 0
    BY RingIsTyped, SizeType DEF PreambleSize
  <1>2. L <= n /\ \A i \in 1..L : V[n - L + i] = c[i]
    BY DEF Occurs
  <1>3. PreambleEnds(w) <=> P <= L /\ CmpData(w, L - P, Preamble)
    BY <1>1 DEF PreambleEnds
  <1>4. SUFFICES ASSUME P <= L
                 PROVE  CmpData(w, L - P, Preamble) <=> Occurs(V, n - P, Preamble)
    BY <1>3
  <1>r. w.reader + (L - P) < CounterSize
    <2>1. /\ w.reader \in 0..(Size - 1) /\ L \in 0..(Size - 1) /\ Size \in Nat
          /\ CounterSize \in Nat /\ L - P <= k
      BY <1>1, RingIsTyped, SizeType DEF RingSet, RingBuffer
    <2>2. 2 * Size - P <= CounterSize + 1 \/ Size + k <= CounterSize
      BY DEF InReach
    <2> DEFINE rd == w.reader
    <2>3. /\ rd \in 0..(Size - 1) /\ L \in 0..(Size - 1) /\ Size \in Nat /\ P \in Nat
          /\ CounterSize \in Nat /\ k \in Nat /\ L - P <= k
          /\ 2 * Size - P <= CounterSize + 1 \/ Size + k <= CounterSize
      BY <1>1, <2>1, <2>2
    <2> HIDE DEF L, P, rd
    <2>4. rd + (L - P) < CounterSize
      BY <2>3
    <2> QED BY <2>4 DEF rd
  <1>5. CmpData(w, L - P, Preamble) <=> SubSeq(c, L - P + 1, L) = Preamble
    BY <1>1, <1>4, <1>r, DataCompared
  <1> HIDE DEF c, L, P
  <1> DEFINE s == SubSeq(c, L - P + 1, L)
  <1>6. s \in Seq(Nat) /\ Len(s) = P /\ \A i \in 1..P : s[i] = c[L - P + i]
    <2>1. L - P + 1 \in 1..(L + 1) /\ L \in (L - P + 1 - 1)..L /\ L - (L - P + 1) + 1 = P
      BY <1>1, <1>4
    <2>2. /\ \A i \in L - P + 1..L : c[i] \in Nat
          /\ Len(c) = L
      BY <1>1, <1>4, ElementOfSeq DEF L
    <2>3. /\ s \in Seq(Nat) /\ Len(s) = L - (L - P + 1) + 1
          /\ \A i \in 1..(L - (L - P + 1) + 1) : s[i] = c[L - P + 1 + i - 1]
      <3> DEFINE a == L - P + 1
      <3>1. a \in Int /\ L \in Int /\ a <= L /\ \A i \in a..L : c[i] \in Nat
        BY <1>1, <1>4, <2>1, <2>2, SizeType
      <3> HIDE DEF a
      <3>2. LET z == SubSeq(c, a, L)
            IN  /\ z \in Seq(Nat) /\ Len(z) = L - a + 1
                /\ \A i \in 1..(L - a + 1) : z[i] = c[a + i - 1]
        BY <3>1, SubSeqProperties
      <3> QED BY <3>2 DEF a
    <2>4. \A i \in 1..P : L - P + 1 + i - 1 = L - P + i
      BY <1>1
    <2> QED BY <2>1, <2>3, <2>4
  <1> HIDE DEF s
  <1>7. s = Preamble <=> \A i \in 1..P : c[L - P + i] = Preamble[i]
    BY <1>1, <1>6, SeqEqual
  <1>8. \A i \in 1..P : c[L - P + i] = V[n - P + i]
    <2> TAKE i \in 1..P
    <2>1. L - P + i \in 1..L /\ n - L + (L - P + i) = n - P + i
      BY <1>1, <1>4
    <2> QED BY <1>2, <2>1
  <1>9. n - P + P <= Len(V)
    BY <1>1
  <1>10. Occurs(V, n - P, Preamble) <=> \A i \in 1..P : V[n - P + i] = Preamble[i]
    BY <1>1, <1>9 DEF Occurs
  <1> QED BY <1>5, <1>7, <1>8, <1>10 DEF s


(***************************************************************************)
(* Where the parts of a packet that has been begun are.                    *)
(***************************************************************************)
LEMMA EndType ==
    ASSUME NEW V \in Seq(Nat), NEW g \in Seq(Frame), NEW b \in Seq(Nat), Begun(V, g, b),
           NEW i \in 0..Len(g)
    PROVE  /\ End(g, b, i) \in Nat
           /\ i # 0 => /\ g[i] \in Frame /\ b[i] \in Nat
                       /\ End(g, b, i) = b[i] + PreambleSize + 3 + Len(g[i].data)
  <1>1. CASE i = 0
    BY <1>1 DEF End
  <1>2. CASE i # 0
    <2>1. i \in 1..Len(g) /\ i \in 1..Len(b)
      BY <1>2 DEF Begun
    <2>2. g[i] \in Frame /\ b[i] \in Nat
      BY <2>1, ElementOfSeq
    <2> DEFINE m == Len(g[i].data)
               L == Len(Encode(g[i]))
               s == b[i]
               P == PreambleSize
    <2>3. L = PreambleSize + 3 + m /\ g[i].data \in Seq(Nat)
      BY <2>2, EncodeType
    <2>4. m \in Nat
      BY <2>3, LenProperties
    <2>5. End(g, b, i) = b[i] + L
      BY <1>2 DEF End
    <2>6. P \in Nat /\ s \in Nat /\ L = P + 3 + m /\ End(g, b, i) = s + L
      BY <2>2, <2>3, <2>5, SizeType
    <2> HIDE DEF m, L, s, P
    <2>7. End(g, b, i) \in Nat /\ End(g, b, i) = s + P + 3 + m
      BY <2>4, <2>6
    <2> QED BY <2>2, <2>7 DEF m, s, P
  <1> QED BY <1>1, <1>2

LEMMA PartsOfPacket ==
    ASSUME NEW V \in Seq(Nat), NEW g \in Seq(Frame), NEW b \in Seq(Nat), Begun(V, g, b),
           NEW i \in 1..Len(g)
    PROVE  /\ End(g, b, i - 1) \in Nat /\ End(g, b, i - 1) <= b[i] /\ b[i] <= Len(V)
           /\ b[i] + PreambleSize <= Len(V) => Occurs(V, b[i], Preamble)
           /\ b[i] + PreambleSize + 3 <= Len(V) =>
                 /\ V[b[i] + PreambleSize + 1] = g[i].tid
                 /\ V[b[i] + PreambleSize + 2] = g[i].action
                 /\ V[b[i] + PreambleSize + 3] = Len(g[i].data)
           /\ \A k \in 1..Len(g[i].data) :
                 b[i] + PreambleSize + 3 + k <= Len(V) =>
                    V[b[i] + PreambleSize + 3 + k] = g[i].data[k]
  <1> DEFINE e == Encode(g[i])
             P == PreambleSize
             m == Len(g[i].data)
             s == b[i]
  <1>1. /\ g[i] \in Frame /\ s \in Nat /\ End(g, b, i - 1) \in Nat
    <2>1. i - 1 \in 0..Len(g) /\ i \in 0..Len(g) /\ i # 0
      OBVIOUS
    <2> QED BY <2>1, EndType
  <1>2. /\ End(g, b, i - 1) <= s /\ s <= Len(V)
        /\ \A k \in 1..Len(e) : s + k <= Len(V) => V[s + k] = e[k]
    BY DEF Begun
  <1>3. /\ Len(e) = P + 3 + m /\ m \in Nat
    <2>1. g[i].data \in Seq(Nat) /\ Len(e) = P + 3 + m
      BY <1>1, EncodeType
    <2> QED BY <2>1, LenProperties
  <1>4. /\ \A k \in 1..P : e[k] = Preamble[k]
        /\ e[P + 1] = g[i].tid /\ e[P + 2] = g[i].action /\ e[P + 3] = m
        /\ \A k \in 1..m : e[P + 3 + k] = g[i].data[k]
    BY <1>1, EncodeBytes
  <1>5. P \in Nat /\ P = Len(Preamble) /\ Len(V) \in Nat
    BY SizeType, LenProperties DEF PreambleSize
  <1> HIDE DEF e, P, m, s
  <1>6. ASSUME s + P <= Len(V) PROVE Occurs(V, s, Preamble)
    <2>1. \A k \in 1..P : k \in 1..Len(e) /\ s + k <= Len(V)
      BY <1>1, <1>3, <1>5, <1>6
    <2>2. \A k \in 1..P : V[s + k] = Preamble[k]
      BY <1>2, <1>4, <2>1
    <2> QED BY <1>5, <1>6, <2>2 DEF Occurs
  <1>7. ASSUME s + P + 3 <= Len(V)
        PROVE  V[s + P + 1] = g[i].tid /\ V[s + P + 2] = g[i].action /\ V[s + P + 3] = m
    <2>1. \A k \in 1..3 : /\ P + k \in 1..Len(e) /\ s + (P + k) <= Len(V)
                          /\ s + (P + k) = s + P + k
      BY <1>1, <1>3, <1>5, <1>7
    <2>2. \A k \in 1..3 : V[s + P + k] = e[P + k]
      BY <1>2, <2>1
    <2> QED BY <1>4, <2>2
  <1>8. ASSUME NEW k \in 1..m, s + P + 3 + k <= Len(V)
        PROVE  V[s + P + 3 + k] = g[i].data[k]
    <2>1. P + 3 + k \in 1..Len(e) /\ s + (P + 3 + k) = s + P + 3 + k
      BY <1>1, <1>3, <1>5, <1>8
    <2> QED BY <1>2, <1>4, <1>8, <2>1
  <1> QED BY <1>1, <1>2, <1>6, <1>7, <1>8 DEF P, m, s

(***************************************************************************)
(* The next packet to deliver, in what the client has written.             *)
(***************************************************************************)
LEMMA NextPacket ==
    ASSUME TypeOK, NEW V \in Seq(Nat), NEW g \in Seq(Frame), NEW b \in Seq(Nat),
           Written(V, g, b), Delivered, NEW d, d = Len(downQueue)
    PROVE  /\ d \in Nat /\ Len(sent) \in Nat /\ Len(g) \in Nat
           /\ d <= Len(sent) /\ Len(sent) <= Len(g)
           /\ End(g, b, d) \in Nat
           /\ d < Len(g) /\ End(g, b, d + 1) <= Len(V) => d < Len(sent)
           /\ d = Len(g) => /\ \A j \in End(g, b, d)..Len(V) : ~Occurs(V, j, Preamble)
                            /\ InReach(Len(V) - End(g, b, d))
  <1>1. d \in Nat /\ Len(sent) \in Nat /\ Len(g) \in Nat /\ Len(V) \in Nat
    BY LenProperties DEF TypeOK
  <1>2. d <= Len(sent) /\ Len(sent) <= Len(g)
    BY DEF Delivered, Written
  <1>3. End(g, b, d) \in Nat
    BY <1>1, <1>2, EndType DEF Written
  <1>4. ASSUME d < Len(g), End(g, b, d + 1) <= Len(V), ~(d < Len(sent)) PROVE FALSE
    <2>1. Len(sent) = d /\ Len(sent) < Len(g)
      BY <1>1, <1>2, <1>4
    <2>2. Len(g) = d + 1 /\ Len(V) < End(g, b, Len(g))
      BY <2>1 DEF Written
    <2>3. End(g, b, d + 1) \in Nat
      BY <1>1, <2>2, EndType DEF Written
    <2> QED BY <1>1, <1>4, <2>2, <2>3
  <1>5. ASSUME d = Len(g) PROVE /\ \A j \in End(g, b, d)..Len(V) : ~Occurs(V, j, Preamble)
                                /\ InReach(Len(V) - End(g, b, d))
    <2>1. Len(sent) = Len(g)
      BY <1>1, <1>2, <1>5
    <2> QED BY <1>5, <2>1 DEF Written
  <1> QED BY <1>1, <1>2, <1>3, <1>4, <1>5


(***************************************************************************)
(* An empty ring, and one that just took a byte, hold the last bytes read. *)
(***************************************************************************)
LEMMA RingFollows ==
    ASSUME TypeOK, ReadByte, NEW V \in Seq(Nat), InRing(V),
           \/ Contents(inBuf') = <<>>
           \/ inBuf' = Write(inBuf, Head(stream))
    PROVE  InRing(V)'
  <1> DEFINE n == Consumed(V)
             w == Write(inBuf, Head(stream))
  <1>1. /\ n \in Nat /\ n < Len(V) /\ n' = n + 1 /\ Len(stream') <= Len(V)
        /\ Len(Contents(w)) <= n + 1
        /\ Occurs(V, n + 1 - Len(Contents(w)), Contents(w))
        /\ \A i \in 1..Len(stream') : stream'[i] = V[n' + i]
    BY ByteFollows
  <1>2. CASE Contents(inBuf') = <<>>
    <2>1. Len(Contents(inBuf')) = 0 /\ Len(V) \in Nat
      BY <1>2, EmptySeq, LenProperties
    <2>2. n' - Len(Contents(inBuf')) + Len(Contents(inBuf')) <= Len(V)
          /\ Len(Contents(inBuf')) <= n'
      BY <1>1, <2>1
    <2>3. Occurs(V, n' - Len(Contents(inBuf')), Contents(inBuf'))
      BY <2>1, <2>2 DEF Occurs
    <2> QED BY <1>1, <2>2, <2>3 DEF InRing
  <1>3. CASE inBuf' = w
    <2> HIDE DEF w
    <2> QED BY <1>1, <1>3 DEF InRing
  <1> QED BY <1>2, <1>3

(***************************************************************************)
(* While it looks for a preamble the thread finds the next one the client  *)
(* wrote, no other, and does not miss it.                                  *)
(***************************************************************************)
LEMMA HuntStep ==
    ASSUME TypeOK, ReadByte, NEW V \in Seq(Nat), NEW g \in Seq(Frame), NEW b \in Seq(Nat),
           Written(V, g, b), Parsed(V, g, b),
           NEW w, w = Write(inBuf, Head(stream)), HuntPreamble(w)
    PROVE  Parsed(V, g, b)' /\ UNCHANGED <<sent, downQueue>>
  <1> DEFINE n == Consumed(V)
             c == Contents(inBuf)
             y == Contents(w)
             d == Len(downQueue)
             e == End(g, b, d)
             P == PreambleSize
  <1>1. /\ mode = "preamble" /\ sent' = sent /\ downQueue' = downQueue
        /\ d' = d /\ e' = e
    BY DEF HuntPreamble, ReadByte, End
  <1>2. InRing(V) /\ Delivered /\ Hunting(V, g, b) /\ Delivered'
    BY <1>1 DEF Parsed, Delivered
  <1>3. /\ w \in RingSet /\ n \in Nat /\ n < Len(V) /\ n' = n + 1
        /\ y \in Seq(Nat)
        /\ Len(y) = IF Len(c) = Size - 1 THEN Size - 1 ELSE Len(c) + 1
        /\ Len(y) <= n + 1 /\ Occurs(V, n + 1 - Len(y), y)
        /\ Len(stream') <= Len(V)
        /\ \A i \in 1..Len(stream') : stream'[i] = V[n' + i]
    BY <1>2, ByteFollows
  <1>4. /\ d \in Nat /\ Len(g) \in Nat /\ d <= Len(g) /\ e \in Nat /\ Len(V) \in Nat
        /\ d = Len(g) => /\ \A j \in e..Len(V) : ~Occurs(V, j, Preamble)
                         /\ InReach(Len(V) - e)
    <2>1. /\ d \in Nat /\ Len(sent) \in Nat /\ Len(g) \in Nat
          /\ d <= Len(sent) /\ Len(sent) <= Len(g) /\ e \in Nat
          /\ d = Len(g) => /\ \A j \in e..Len(V) : ~Occurs(V, j, Preamble)
                           /\ InReach(Len(V) - e)
      BY <1>2, NextPacket
    <2> QED BY <2>1, LenProperties
  <1>5. /\ e <= n /\ Len(c) = IF n - e < Size THEN n - e ELSE Size - 1
        /\ \A j \in e..(n - P) : ~Occurs(V, j, Preamble)
    BY <1>2 DEF Hunting
  <1>7. P \in Nat /\ P > 0 /\ P < Size /\ Size \in Nat /\ Size > 3
    BY SizeType
  <1>8. Len(y) = IF n + 1 - e < Size THEN n + 1 - e ELSE Size - 1
    <2>1. Len(y) \in Nat
      BY <1>3, LenProperties
    <2> HIDE DEF n, c, y, d, e, P
    <2> QED BY <1>3, <1>4, <1>5, <1>7, <2>1
  <1>sizes. n \in Nat /\ e \in Nat /\ e <= n /\ n < Len(V) /\ Len(V) \in Nat
            /\ n' = n + 1
    BY <1>3, <1>4, <1>5
  <1>r. \E k \in Nat : InReach(k) /\ Len(y) - P <= k
    <2>0. Len(y) \in Nat /\ Len(y) <= n + 1 - e
      <3> DEFINE ly == Len(y)
      <3>1. ly \in Nat /\ ly = IF n + 1 - e < Size THEN n + 1 - e ELSE Size - 1
        BY <1>3, <1>8, LenProperties
      <3> HIDE DEF n, e, ly
      <3>2. ly <= n + 1 - e
        BY <1>7, <1>sizes, <3>1
      <3> QED BY <3>1, <3>2 DEF ly
    <2> HIDE DEF n, c, y, e, P
    <2>1. CASE d = Len(g)
      <3> DEFINE k == Len(V) - e
      <3>1. InReach(k) /\ k \in Nat
        BY <1>4, <1>sizes, <2>1
      <3>2. Len(y) - P <= k
        BY <1>7, <1>sizes, <2>0
      <3> HIDE DEF k
      <3> QED BY <3>1, <3>2
    <2>2. CASE d # Len(g)
      <3> DEFINE i == d + 1
                 k == b[i] - e
      <3>1. i \in 1..Len(g) /\ i - 1 = d /\ i \in 0..Len(g) /\ i # 0
        <4> HIDE DEF d
        <4> QED BY <1>4, <2>2
      <3>2. Begun(V, g, b)
        BY DEF Written
      <3>3. InReach(k)
        BY <3>1, <3>2 DEF Begun, e
      <3> DEFINE s == b[i]
      <3>4. s \in Nat /\ e <= s /\ s + P <= Len(V) => Occurs(V, s, Preamble)
        <4> HIDE DEF i
        <4>1. s \in Nat
          BY <3>1, <3>2, EndType
        <4>2. /\ End(g, b, i - 1) <= s
              /\ s + PreambleSize <= Len(V) => Occurs(V, s, Preamble)
          BY <3>1, <3>2, PartsOfPacket
        <4> QED BY <3>1, <4>1, <4>2 DEF e, P
      <3>5. s \in Nat /\ e <= s
        <4> HIDE DEF i
        <4>1. s \in Nat
          BY <3>1, <3>2, EndType
        <4>2. End(g, b, i - 1) <= s
          BY <3>1, <3>2, PartsOfPacket
        <4> QED BY <3>1, <4>1, <4>2 DEF e
      <3> HIDE DEF i, s
      <3>6. n + 1 <= s + P
        <4> SUFFICES ASSUME ~(n + 1 <= s + P) PROVE FALSE
          OBVIOUS
        <4>1. s + P <= n /\ s \in e..(n - P) /\ s + P <= Len(V)
          BY <1>7, <1>sizes, <3>5
        <4> QED BY <1>5, <3>4, <3>5, <4>1
      <3>7. k \in Nat /\ Len(y) - P <= k
        <4>1. k = s - e
          BY DEF s
        <4> DEFINE ly == Len(y)
        <4>2. ly \in Nat /\ ly <= n + 1 - e
          BY <2>0
        <4> HIDE DEF k, ly
        <4>3. k \in Nat /\ ly - P <= k
          BY <1>7, <1>sizes, <3>5, <3>6, <4>1, <4>2
        <4> QED BY <4>3 DEF ly
      <3> HIDE DEF k
      <3> QED BY <3>3, <3>7
    <2> QED BY <2>1, <2>2
  <1>6. PreambleEnds(w) <=> P <= Len(y) /\ Occurs(V, n + 1 - P, Preamble)
    <2> DEFINE m == n + 1
    <2>1. m \in Nat /\ m <= Len(V)
      BY <1>sizes
    <2>2. w \in RingSet /\ Len(Contents(w)) <= m
          /\ Occurs(V, m - Len(Contents(w)), Contents(w))
      BY <1>3
    <2>k. PICK k \in Nat : InReach(k) /\ Len(Contents(w)) - PreambleSize <= k
      BY <1>r
    <2> HIDE DEF m
    <2>3. PreambleEnds(w) <=> /\ PreambleSize <= Len(Contents(w))
                              /\ Occurs(V, m - PreambleSize, Preamble)
      BY <2>1, <2>2, <2>k, PreambleFound
    <2>4. m - PreambleSize = n + 1 - P
      <3> HIDE DEF n
      <3> QED BY <1>3, SizeType DEF m
    <2> QED BY <2>3, <2>4
  <1>9. CASE PreambleEnds(w)
    <2>1. inBuf' = DataClear(w) /\ mode' = "header"
      BY <1>9 DEF HuntPreamble
    <2>2. Contents(inBuf') = <<>> /\ Len(Contents(inBuf')) = 0
      BY <1>3, <2>1, RingCleared, EmptySeq
    <2>3. InRing(V)'
      BY <1>2, <2>2, RingFollows
    <2> DEFINE j == n + 1 - P
    <2>4. P <= Len(y) /\ Occurs(V, j, Preamble)
      BY <1>6, <1>9
    <2>5. j \in Nat /\ e <= j /\ j + P = n + 1 /\ j <= Len(V)
      <3> HIDE DEF n, c, y, d, e, P
      <3> QED BY <1>3, <1>4, <1>5, <1>7, <1>8, <2>4
    <2>6. d < Len(g)
      <3> HIDE DEF n, c, y, d, e, P, j
      <3> QED BY <1>4, <2>4, <2>5
    <2> DEFINE i == d + 1
    <2>7. i \in 1..Len(g) /\ i - 1 = d
      BY <1>4, <2>6
    <2> HIDE DEF i
    <2>8. Begun(V, g, b)
      BY DEF Written
    <2>9. b[i] \in Nat
      <3>1. i \in 0..Len(g) /\ i # 0
        BY <1>4, <2>7
      <3> QED BY <2>8, <3>1, EndType
    <2>10. /\ e <= b[i] /\ b[i] <= Len(V)
           /\ b[i] + P <= Len(V) => Occurs(V, b[i], Preamble)
           /\ \A k \in e..(b[i] - 1) : ~Occurs(V, k, Preamble)
      <3>1. \A k \in End(g, b, i - 1)..(b[i] - 1) : ~Occurs(V, k, Preamble)
        BY <2>7, <2>8 DEF Begun
      <3>2. /\ End(g, b, i - 1) <= b[i] /\ b[i] <= Len(V)
            /\ b[i] + P <= Len(V) => Occurs(V, b[i], Preamble)
        BY <2>7, <2>8, PartsOfPacket
      <3> QED BY <2>7, <3>1, <3>2
    <2> HIDE DEF n, c, y, d, e, P, j
    <2>11. b[i] = j
      <3>1. CASE j < b[i]
        <4>1. j \in e..(b[i] - 1)
          BY <1>4, <2>5, <2>9, <3>1
        <4> QED BY <2>4, <2>10, <4>1
      <3>2. CASE b[i] < j
        <4>1. b[i] \in e..(n - P) /\ b[i] + P <= Len(V)
          <5> DEFINE k == b[i]
          <5>1. e <= k /\ k < j /\ k \in Nat
            BY <2>9, <2>10, <3>2
          <5>2. n \in Nat /\ e \in Nat /\ P \in Nat /\ j \in Nat /\ j + P = n + 1
            BY <1>sizes, <1>7, <2>5
          <5>3. n < Len(V) /\ Len(V) \in Nat
            BY <1>sizes
          <5> HIDE DEF k
          <5>4. k \in e..(n - P)
            BY <5>1, <5>2
          <5>5. k + P <= Len(V)
            BY <5>1, <5>2, <5>3
          <5> QED BY <5>4, <5>5 DEF k
        <4> QED BY <1>5, <2>10, <4>1
      <3> QED BY <2>5, <2>9, <3>1, <3>2
    <2>12. n' = b[i] + P + Len(Contents(inBuf')) /\ Len(Contents(inBuf')) < HeaderSize
      BY <1>3, <2>2, <2>5, <2>11, SizeType
    <2>13. InHeader(V, g, b)'
      BY <1>1, <2>6, <2>12 DEF InHeader, i, d, n, P
    <2> QED BY <1>1, <1>2, <2>1, <2>3, <2>13 DEF Parsed
  <1>10. CASE ~PreambleEnds(w)
    <2>1. inBuf' = w /\ mode' = mode
      BY <1>10 DEF HuntPreamble
    <2>2. Len(Contents(inBuf')) = Len(y) /\ Contents(inBuf') = y
      BY <2>1
    <2>3. InRing(V)'
      BY <1>2, <2>1, RingFollows
    <2>4. \A j \in e..(n + 1 - P) : ~Occurs(V, j, Preamble)
      <3> TAKE j \in e..(n + 1 - P)
      <3> HIDE DEF n, c, y, d, e, P
      <3>1. CASE j = n + 1 - P
        <4>1. P <= Len(y)
          <5>1. e <= n + 1 - P
            BY <1>sizes, <1>7
          <5> QED BY <1>sizes, <1>7, <1>8, <5>1
        <4> QED BY <1>6, <1>10, <3>1, <4>1
      <3>2. CASE j # n + 1 - P
        <4>1. j \in e..(n - P)
          BY <1>3, <1>4, <1>7, <3>2
        <4> QED BY <1>5, <4>1
      <3> QED BY <3>1, <3>2
    <2>5. Hunting(V, g, b)'
      <3> HIDE DEF n, c, y, d, e, P
      <3>1. e' <= n'
        BY <1>1, <1>sizes
      <3>2. Len(Contents(inBuf')) = IF n' - e' < Size THEN n' - e' ELSE Size - 1
        BY <1>1, <1>sizes, <1>8, <2>2
      <3>3. \A j \in e'..(n' - P) : ~Occurs(V, j, Preamble)
        <4>1. e' = e /\ n' = n + 1
          BY <1>1, <1>sizes
        <4>2. e'..(n' - P) = e..(n + 1 - P)
          BY <4>1, <1>sizes, <1>7
        <4> QED BY <2>4, <4>2
      <3> QED BY <3>1, <3>2, <3>3 DEF Hunting, n, d, e, P
    <2> QED BY <1>1, <1>2, <2>1, <2>3, <2>5 DEF Parsed
  <1> QED BY <1>1, <1>9, <1>10


(***************************************************************************)
(* In a header and in a body the ring has room for the byte.               *)
(***************************************************************************)
LEMMA HeaderStep ==
    ASSUME Tidy, TypeOK, ReadByte,
           NEW V \in Seq(Nat), NEW g \in Seq(Frame), NEW b \in Seq(Nat),
           Written(V, g, b), Parsed(V, g, b),
           NEW w, w = Write(inBuf, Head(stream)), ParseHeader(w)
    PROVE  Parsed(V, g, b)' /\ UNCHANGED <<sent, downQueue>>
  <1> DEFINE n == Consumed(V)
             c == Contents(inBuf)
             y == Contents(w)
             d == Len(downQueue)
             i == d + 1
             P == PreambleSize
             s == b[i]
             m == Len(g[i].data)
  <1>1. mode = "header" /\ sent' = sent /\ downQueue' = downQueue
    BY DEF ParseHeader, ReadByte
  <1>2. InRing(V) /\ Delivered /\ InHeader(V, g, b) /\ Delivered'
    BY <1>1 DEF Parsed, Delivered
  <1>3. /\ w \in RingSet /\ n \in Nat /\ n < Len(V) /\ n' = n + 1 /\ y \in Seq(Nat)
        /\ Len(y) = IF Len(c) = Size - 1 THEN Size - 1 ELSE Len(c) + 1
        /\ Occurs(V, n + 1 - Len(y), y)
    BY <1>2, ByteFollows
  <1>4. /\ d < Len(g) /\ n = s + P + Len(c) /\ Len(c) < 3
    BY <1>2 DEF InHeader, HeaderSize
  <1>5. d \in Nat /\ Len(g) \in Nat
    BY <1>2, NextPacket
  <1>6. i \in 1..Len(g) /\ i \in 0..Len(g) /\ i # 0
    <2> HIDE DEF d
    <2> QED BY <1>4, <1>5
  <1>7. Begun(V, g, b)
    BY DEF Written
  <1>8. s \in Nat /\ g[i] \in Frame
    BY <1>6, <1>7, EndType
  <1>parts. s + P + 3 <= Len(V) =>
              V[s + P + 1] = g[i].tid /\ V[s + P + 2] = g[i].action /\ V[s + P + 3] = m
    BY <1>6, <1>7, PartsOfPacket
  <1>9. /\ Len(c) \in Nat /\ Len(y) \in Nat /\ DataLenght(w) = Len(y)
        /\ Size \in Nat /\ Size > 3 /\ P \in Nat /\ HeaderSize = 3 /\ Len(V) \in Nat
    <2>1. inBuf \in RingSet
      BY ByteType
    <2> QED BY <1>3, <2>1, RingIsTyped, LenProperties, SizeType
  <1> HIDE DEF n, c, y, d, i, s, P, m
  <1>10. Len(y) = Len(c) + 1 /\ n + 1 = s + P + Len(y) /\ n' = s + P + Len(y)
    <2>1. /\ n \in Nat /\ n' = n + 1
          /\ Len(y) = IF Len(c) = Size - 1 THEN Size - 1 ELSE Len(c) + 1
      BY <1>3
    <2>2. n = s + P + Len(c) /\ Len(c) < 3
      BY <1>4
    <2> DEFINE lc == Len(c)
               ly == Len(y)
    <2>3. lc \in Nat /\ s \in Nat /\ P \in Nat /\ Size \in Nat /\ Size > 3
      BY <1>8, <1>9
    <2> HIDE DEF lc, ly
    <2>4. ly = lc + 1
      BY <2>1, <2>2, <2>3 DEF lc, ly
    <2>5. n = s + P + lc
      BY <2>2 DEF lc
    <2>6. n + 1 = s + P + ly /\ n' = s + P + ly
      BY <2>1, <2>3, <2>4, <2>5
    <2> QED BY <2>4, <2>6 DEF lc, ly
  <1>11. CASE DataLenght(w) >= HeaderSize
    <2>1. Len(y) = 3 /\ s + P + 3 <= Len(V)
      <3>1. Len(c) < 3 /\ n < Len(V) /\ n \in Nat
        BY <1>3, <1>4
      <3> QED BY <3>1, <1>8, <1>9, <1>10, <1>11
    <2>2. \A k \in 1..3 : y[k] = V[s + P + k]
      <3> TAKE k \in 1..3
      <3>1. y[k] = V[n + 1 - Len(y) + k]
        BY <1>3, <2>1 DEF Occurs
      <3>2. n + 1 - Len(y) + k = s + P + k
        <4>1. n + 1 = s + P + Len(y) /\ n \in Nat
          BY <1>3, <1>10
        <4> QED BY <4>1, <1>8, <1>9, <2>1
      <3> QED BY <3>1, <3>2
    <2>3. packet' = [tid |-> g[i].tid, type |-> g[i].action, length |-> m]
      <3>1. packet' = [tid |-> y[1], type |-> y[2], length |-> y[3]]
        BY <1>11 DEF ParseHeader, y
      <3>2. y[1] = g[i].tid /\ y[2] = g[i].action /\ y[3] = m
        BY <1>parts, <2>1, <2>2
      <3> QED BY <3>1, <3>2
    <2>4. inBuf' = ReadAll(w) /\ mode' = "body"
      BY <1>11 DEF ParseHeader
    <2>5. Contents(inBuf') = <<>> /\ Len(Contents(inBuf')) = 0
      BY <1>3, <2>4, RingCleared, EmptySeq
    <2>6. m \in 1..(Size - 1)
      BY <1>8 DEF Tidy, m
    <2>7. /\ n' = s + P + HeaderSize + Len(Contents(inBuf'))
          /\ Len(Contents(inBuf')) < packet'.length
      <3>1. packet'.length = m
        BY <2>3
      <3>2. n' = s + P + HeaderSize
        BY <1>9, <1>10, <2>1
      <3>3. Len(Contents(inBuf')) = 0 /\ 0 < m
        BY <1>9, <2>5, <2>6
      <3> QED BY <1>8, <1>9, <3>1, <3>2, <3>3
    <2>8. d' = d /\ i' = d' + 1 /\ i' = i
      BY <1>1 DEF d, i
    <2>9. InBody(V, g, b)'
      BY <1>4, <2>3, <2>7, <2>8 DEF InBody, i, s, d, n, P, m
    <2>10. InRing(V)'
      BY <1>2, <2>5, RingFollows
    <2> QED BY <1>1, <1>2, <2>4, <2>9, <2>10 DEF Parsed
  <1>12. CASE ~(DataLenght(w) >= HeaderSize)
    <2>1. inBuf' = w /\ mode' = mode
      BY <1>12 DEF ParseHeader
    <2>2. Len(Contents(inBuf')) = Len(y)
      BY <2>1 DEF y
    <2>3. n' = s + P + Len(Contents(inBuf')) /\ Len(Contents(inBuf')) < HeaderSize
      BY <1>9, <1>10, <1>12, <2>2
    <2>4. d' = d /\ i' = d' + 1 /\ i' = i
      BY <1>1 DEF d, i
    <2>5. InHeader(V, g, b)'
      BY <1>4, <2>3, <2>4 DEF InHeader, i, s, d, n, P
    <2>6. InRing(V)'
      BY <1>2, <2>1, RingFollows
    <2> QED BY <1>1, <1>2, <2>1, <2>5, <2>6 DEF Parsed
  <1> QED BY <1>1, <1>11, <1>12


LEMMA BodyStep ==
    ASSUME Tidy, TypeOK, ReadByte,
           NEW V \in Seq(Nat), NEW g \in Seq(Frame), NEW b \in Seq(Nat),
           Written(V, g, b), Parsed(V, g, b),
           NEW w, w = Write(inBuf, Head(stream)), ParseBody(w)
    PROVE  Parsed(V, g, b)' /\ (Channel!Deliver \/ UNCHANGED <<sent, downQueue>>)
  <1> DEFINE n == Consumed(V)
             c == Contents(inBuf)
             y == Contents(w)
             d == Len(downQueue)
             i == d + 1
             f == g[i]
             s == b[i]
             P == PreambleSize
             m == Len(f.data)
             lc == Len(c)
             ly == Len(y)
  <1>1. mode = "body" /\ sent' = sent /\ packet' = packet
    BY DEF ParseBody, ReadByte
  <1>2. InRing(V) /\ Delivered /\ InBody(V, g, b)
    BY <1>1 DEF Parsed
  <1>3. /\ w \in RingSet /\ n \in Nat /\ n < Len(V) /\ n' = n + 1 /\ y \in Seq(Nat)
        /\ ly = IF lc = Size - 1 THEN Size - 1 ELSE lc + 1
        /\ Occurs(V, n + 1 - ly, y)
    BY <1>2, ByteFollows
  <1>4. /\ d < Len(g) /\ n = s + P + 3 + lc
        /\ packet = [tid |-> f.tid, type |-> f.action, length |-> m] /\ lc < m
    BY <1>2 DEF InBody, HeaderSize
  <1>5. /\ d \in Nat /\ Len(g) \in Nat /\ Len(sent) \in Nat
        /\ End(g, b, d + 1) <= Len(V) => d < Len(sent)
    BY <1>2, <1>4, NextPacket
  <1>6. i \in 1..Len(g) /\ i \in 0..Len(g) /\ i # 0
    <2> HIDE DEF d
    <2> QED BY <1>4, <1>5
  <1>7. Begun(V, g, b)
    BY DEF Written
  <1>8. s \in Nat /\ f \in Frame /\ End(g, b, i) = s + P + 3 + m
    BY <1>6, <1>7, EndType
  <1>parts. \A k \in 1..m : s + P + 3 + k <= Len(V) => V[s + P + 3 + k] = f.data[k]
    BY <1>6, <1>7, PartsOfPacket
  <1>9. /\ lc \in Nat /\ ly \in Nat /\ DataLenght(w) = ly
        /\ Size \in Nat /\ P \in Nat /\ P > 0 /\ Len(V) \in Nat
    <2>1. inBuf \in RingSet
      BY ByteType
    <2> QED BY <1>3, <2>1, RingIsTyped, LenProperties, SizeType
  <1>10. /\ m \in 1..(Size - 1) /\ f.data \in Seq(Nat)
         /\ f = [tid |-> f.tid, action |-> f.action, data |-> f.data]
    BY <1>8, EncodeType DEF Tidy
  <1>pl. packet.length = m
    BY <1>4
  <1> HIDE DEF n, c, y, d, i, f, s, P, m, lc, ly
  <1>11. ly = lc + 1 /\ n + 1 = s + P + 3 + ly /\ n' = s + P + 3 + ly
    <2>1. n \in Nat /\ n' = n + 1 /\ (ly = IF lc = Size - 1 THEN Size - 1 ELSE lc + 1)
      BY <1>3
    <2>2. n = s + P + 3 + lc /\ lc < m
      BY <1>4
    <2>3. ly = lc + 1
      BY <1>9, <1>10, <2>1, <2>2
    <2> QED BY <1>8, <1>9, <2>1, <2>2, <2>3
  <1>12. CASE DataLenght(w) >= packet.length
    <2>1. ly = m /\ n + 1 = s + P + 3 + m /\ n' = n + 1 /\ n + 1 <= Len(V)
      <3>1. lc < m /\ n < Len(V) /\ n \in Nat /\ n' = n + 1
        BY <1>3, <1>4
      <3>2. ly = m
        BY <1>9, <1>10, <1>11, <1>12, <1>pl, <3>1
      <3> QED BY <1>9, <1>11, <3>1, <3>2
    <2>2. y = f.data
      <3>1. \A k \in 1..ly : y[k] = f.data[k]
        <4> TAKE k \in 1..ly
        <4>1. k \in 1..Len(y) /\ k \in 1..m
          BY <2>1 DEF ly
        <4>2. y[k] = V[n + 1 - ly + k]
          BY <1>3, <4>1 DEF Occurs
        <4>3. n + 1 - ly + k = s + P + 3 + k /\ s + P + 3 + k <= Len(V)
          <5>1. n \in Nat /\ m \in Nat
            BY <1>3, <1>10
          <5> QED BY <1>8, <1>9, <2>1, <4>1, <5>1
        <4> QED BY <1>parts, <4>1, <4>2, <4>3
      <3>2. Len(y) = Len(f.data)
        BY <2>1 DEF ly, m
      <3>3. \A k \in 1..Len(y) : y[k] = f.data[k]
        BY <3>1 DEF ly
      <3> QED BY <1>3, <1>10, <3>2, <3>3, SeqEqual
    <2>3. SubSeq(y, 1, packet.length) = y
      <3>1. packet.length = Len(y)
        BY <1>pl, <2>1 DEF ly
      <3> QED BY <1>3, <3>1, SubSeqFull
    <2>4. /\ downQueue' = Append(downQueue, [tid |-> packet.tid, action |-> packet.type,
                                            data |-> SubSeq(y, 1, packet.length)])
          /\ inBuf' = ReadAll(w) /\ mode' = "preamble"
      BY <1>12 DEF ParseBody, y
    <2>5. downQueue' = Append(downQueue, f)
      <3>1. packet.tid = f.tid /\ packet.type = f.action
        BY <1>4
      <3> QED BY <1>10, <2>2, <2>3, <2>4, <3>1
    <2>6. d < Len(sent) /\ f = sent[d + 1]
      <3>1. End(g, b, d + 1) <= Len(V)
        BY <1>8, <2>1 DEF i
      <3>2. d < Len(sent)
        BY <1>5, <3>1
      <3>3. d + 1 \in 1..Len(sent)
        BY <1>5, <3>2
      <3> QED BY <3>2, <3>3 DEF Written, f, i
    <2>7. Channel!Deliver
      BY <1>1, <2>5, <2>6 DEF Channel!Deliver, d
    <2>8. /\ Len(downQueue') = d + 1
          /\ \A k \in 1..d : downQueue'[k] = downQueue[k]
          /\ downQueue'[d + 1] = f
      <3>1. /\ downQueue \in Seq([tid : Nat, action : Nat, data : Seq(Nat)])
            /\ f \in [tid : Nat, action : Nat, data : Seq(Nat)]
        BY <1>8, SoStreamAssumption DEF TypeOK
      <3>2. /\ Len(Append(downQueue, f)) = Len(downQueue) + 1
            /\ \A k \in 1..Len(downQueue) : Append(downQueue, f)[k] = downQueue[k]
            /\ Append(downQueue, f)[Len(downQueue) + 1] = f
        BY <3>1, AppendProperties
      <3> QED BY <2>5, <3>2 DEF d
    <2>9. Delivered'
      <3>1. Len(downQueue') <= Len(sent')
        BY <1>1, <1>5, <2>6, <2>8
      <3>2. ASSUME NEW k \in 1..Len(downQueue') PROVE downQueue'[k] = sent'[k]
        <4>1. CASE k = d + 1
          <5>1. downQueue'[k] = f
            BY <2>8, <4>1
          <5>2. sent'[k] = f
            BY <1>1, <2>6, <4>1
          <5> QED BY <5>1, <5>2
        <4>2. CASE k # d + 1
          <5>1. k \in 1..d
            BY <1>5, <2>8, <4>2
          <5> QED BY <1>1, <1>2, <2>8, <5>1 DEF Delivered, d
        <4> QED BY <4>1, <4>2
      <3> QED BY <3>1, <3>2 DEF Delivered
    <2>10. Contents(inBuf') = <<>> /\ Len(Contents(inBuf')) = 0
      BY <1>3, <2>4, RingCleared, EmptySeq
    <2>11. Hunting(V, g, b)'
      <3>1. End(g, b, Len(downQueue')) = n + 1 /\ n + 1 = n' /\ n \in Nat
        <4>1. End(g, b, Len(downQueue')) = End(g, b, i)
          BY <2>8 DEF i
        <4>2. n \in Nat /\ n' = n + 1
          BY <1>3
        <4> QED BY <1>8, <2>1, <4>1, <4>2
      <3> DEFINE z == n + 1
      <3>2. z \in Nat /\ n' = z /\ End(g, b, Len(downQueue')) = z
        BY <3>1
      <3> HIDE DEF z
      <3>3. Len(Contents(inBuf')) = IF z - z < Size THEN z - z ELSE Size - 1
        BY <2>10, <3>2, SizeType
      <3>4. \A j \in z..(z - P) : ~Occurs(V, j, Preamble)
        <4>1. z..(z - P) = {}
          BY <1>9, <3>2
        <4> QED BY <4>1
      <3>5. Consumed(V)' = z
        BY <3>2 DEF n
      <3> QED BY <3>2, <3>3, <3>4, <3>5 DEF Hunting, P
    <2>12. InRing(V)'
      BY <1>2, <2>10, RingFollows
    <2> QED BY <2>4, <2>7, <2>9, <2>11, <2>12 DEF Parsed
  <1>13. CASE ~(DataLenght(w) >= packet.length)
    <2>1. inBuf' = w /\ mode' = mode /\ downQueue' = downQueue
      BY <1>13 DEF ParseBody
    <2>2. Len(Contents(inBuf')) = ly
      BY <2>1 DEF y, ly
    <2>3. /\ n' = s + P + HeaderSize + Len(Contents(inBuf'))
          /\ Len(Contents(inBuf')) < packet'.length
      BY <1>1, <1>9, <1>10, <1>11, <1>13, <1>pl, <2>2, SizeType
    <2>4. d' = d /\ i' = d' + 1 /\ i' = i
      BY <2>1 DEF d, i
    <2>5. InBody(V, g, b)'
      BY <1>1, <1>4, <2>3, <2>4 DEF InBody, i, f, s, d, n, P, m
    <2>6. InRing(V)'
      BY <1>2, <2>1, RingFollows
    <2>7. Delivered'
      BY <1>1, <1>2, <2>1 DEF Delivered
    <2> QED BY <1>1, <2>1, <2>5, <2>6, <2>7 DEF Parsed
  <1> QED BY <1>12, <1>13

-----------------------------------------------------------------------------
(* The client.                                                             *)

(***************************************************************************)
(* U is V with w written after it.                                         *)
(***************************************************************************)
Longer(U, V, w) ==
    /\ Len(U) = Len(V) + Len(w)
    /\ \A i \in 1..Len(V) : U[i] = V[i]
    /\ \A i \in 1..Len(w) : U[Len(V) + i] = w[i]

LEMMA ConcatIsLonger ==
    ASSUME NEW V \in Seq(Nat), NEW w \in Seq(Nat)
    PROVE  V \o w \in Seq(Nat) /\ Longer(V \o w, V, w)
  <1> DEFINE z == V \o w
  <1>1. /\ z \in Seq(Nat) /\ Len(z) = Len(V) + Len(w)
        /\ \A i \in 1..(Len(V) + Len(w)) : z[i] = IF i <= Len(V) THEN V[i] ELSE w[i - Len(V)]
    BY ConcatProperties
  <1>2. Len(V) \in Nat /\ Len(w) \in Nat
    BY LenProperties
  <1> HIDE DEF z
  <1>3. \A i \in 1..Len(V) : z[i] = V[i]
    BY <1>1, <1>2
  <1>4. ASSUME NEW i \in 1..Len(w) PROVE z[Len(V) + i] = w[i]
    <2> DEFINE j == Len(V) + i
    <2>1. j \in 1..(Len(V) + Len(w)) /\ ~(j <= Len(V)) /\ j - Len(V) = i
      BY <1>2
    <2> HIDE DEF j
    <2>2. z[j] = IF j <= Len(V) THEN V[j] ELSE w[j - Len(V)]
      BY <1>1, <2>1
    <2> QED BY <2>1, <2>2 DEF j
  <1>5. Longer(z, V, w)
    BY <1>1, <1>3, <1>4 DEF Longer
  <1> QED BY <1>1, <1>5 DEF z

LEMMA OccursInPrefix ==
    ASSUME NEW U \in Seq(Nat), NEW V \in Seq(Nat), NEW w \in Seq(Nat), Longer(U, V, w),
           NEW p \in Seq(Nat), NEW k \in Nat, k + Len(p) <= Len(V)
    PROVE  Occurs(U, k, p) <=> Occurs(V, k, p)
  <1>1. Len(V) \in Nat /\ Len(w) \in Nat /\ Len(p) \in Nat /\ Len(V) <= Len(U)
    BY LenProperties DEF Longer
  <1>2. \A i \in 1..Len(p) : U[k + i] = V[k + i]
    <2> TAKE i \in 1..Len(p)
    <2>1. k + i \in 1..Len(V)
      BY <1>1
    <2> QED BY <2>1 DEF Longer
  <1>3. k + Len(p) <= Len(U)
    BY <1>1 DEF Longer
  <1> QED BY <1>2, <1>3 DEF Occurs

(***************************************************************************)
(* What is written next makes no preamble with the end of what was there   *)
(* when it begins as one: the first byte of a preamble is found nowhere    *)
(* else in it.                                                             *)
(***************************************************************************)
LEMMA NoPreambleAcross ==
    ASSUME NEW U \in Seq(Nat), NEW V \in Seq(Nat), NEW w \in Seq(Nat), Longer(U, V, w),
           Len(w) > 0 => w[1] = Preamble[1],
           NEW j \in Nat, j < Len(V), ~Occurs(V, j, Preamble)
    PROVE  ~Occurs(U, j, Preamble)
  <1> DEFINE P == PreambleSize
  <1>1. /\ Len(V) \in Nat /\ Len(w) \in Nat /\ Len(U) = Len(V) + Len(w)
        /\ P \in Nat /\ P = Len(Preamble) /\ Preamble \in Seq(Nat)
    BY SizeType, LenProperties DEF Longer, PreambleSize
  <1>2. CASE j + P <= Len(V)
    BY <1>1, <1>2, OccursInPrefix
  <1>3. CASE j + P > Len(V)
    <2> SUFFICES ASSUME Occurs(U, j, Preamble) PROVE FALSE
      OBVIOUS
    <2> DEFINE i == Len(V) + 1 - j
    <2>1. /\ j + P <= Len(U) /\ \A k \in 1..P : U[j + k] = Preamble[k]
      BY <1>1 DEF Occurs
    <2> HIDE DEF P
    <2>2. i \in 2..P /\ j + i = Len(V) + 1 /\ Len(w) > 0
      <3> DEFINE lv == Len(V)
                 lw == Len(w)
      <3>1. /\ lv \in Nat /\ lw \in Nat /\ P \in Nat /\ j + P <= lv + lw
            /\ j + P > lv /\ j < lv
        BY <1>1, <1>3, <2>1
      <3> HIDE DEF lv, lw
      <3>2. lv + 1 - j \in 2..P /\ j + (lv + 1 - j) = lv + 1 /\ lw > 0
        BY <3>1
      <3> QED BY <3>2 DEF lv, lw
    <2> HIDE DEF i
    <2>3. U[j + i] = Preamble[i]
      <3>1. i \in 1..P
        BY <1>1, <2>2
      <3> QED BY <2>1, <3>1
    <2>4. U[Len(V) + 1] = Preamble[1]
      <3>1. 1 \in 1..Len(w)
        BY <1>1, <2>2
      <3>2. U[Len(V) + 1] = w[1]
        BY <3>1 DEF Longer
      <3> QED BY <2>2, <3>2
    <2>5. Preamble[i] # Preamble[1]
      BY <2>2, SoStreamAssumption DEF P
    <2>6. U[j + i] = U[Len(V) + 1]
      BY <2>2
    <2> QED BY <2>3, <2>4, <2>5, <2>6
  <1> QED BY <1>1, <1>2, <1>3


(***************************************************************************)
(* What was parsed stays so when the client writes.                        *)
(***************************************************************************)
LEMMA EndKept ==
    ASSUME NEW g, NEW b, NEW g2, NEW b2, NEW i \in 0..Len(g), Len(g) \in Nat,
           \A k \in 1..Len(g) : g2[k] = g[k] /\ b2[k] = b[k]
    PROVE  End(g2, b2, i) = End(g, b, i)
  <1>1. CASE i = 0
    BY <1>1 DEF End
  <1>2. CASE i # 0
    <2>1. i \in 1..Len(g)
      BY <1>2
    <2> QED BY <1>2, <2>1 DEF End
  <1> QED BY <1>1, <1>2

LEMMA ParsedGrows ==
    ASSUME TypeOK, TypeOK',
           NEW V \in Seq(Nat), NEW g \in Seq(Frame), NEW b \in Seq(Nat),
           Written(V, g, b), Parsed(V, g, b),
           NEW w \in Seq(Nat), NEW U \in Seq(Nat), Longer(U, V, w),
           Longer(stream', stream, w),
           NEW g2 \in Seq(Frame), NEW b2 \in Seq(Nat), Len(g) <= Len(g2),
           \A i \in 1..Len(g) : g2[i] = g[i] /\ b2[i] = b[i],
           Len(sent) <= Len(sent'), \A i \in 1..Len(sent) : sent'[i] = sent[i],
           UNCHANGED <<inBuf, mode, packet, downQueue>>
    PROVE  Parsed(U, g2, b2)'
  <1> DEFINE n == Consumed(V)
             c == Contents(inBuf)
             d == Len(downQueue)
             e == End(g, b, d)
             P == PreambleSize
             lc == Len(c)
             lv == Len(V)
             lu == Len(U)
             lw == Len(w)
             ls == Len(stream)
             lz == Len(stream')
  <1>1. /\ lv \in Nat /\ lw \in Nat /\ ls \in Nat /\ lz \in Nat /\ lu = lv + lw /\ lz = ls + lw
        /\ lu \in Nat
        /\ Len(sent) \in Nat /\ Len(sent') \in Nat /\ Len(g2) \in Nat
        /\ c \in Seq(Nat) /\ lc \in Nat /\ P \in Nat /\ P = Len(Preamble)
        /\ Preamble \in Seq(Nat)
    <2>1. stream \in Seq(Nat) /\ stream' \in Seq(Nat) /\ sent \in Seq(Frame)
          /\ sent' \in Seq(Frame) /\ inBuf \in RingSet
      BY DEF TypeOK, RingSet, RingBuffer
    <2> QED BY <2>1, LenProperties, RingIsTyped, SizeType DEF Longer, PreambleSize
  <1>2. InRing(V) /\ Delivered
    BY DEF Parsed
  <1>3. n = lv - ls /\ Consumed(U)' = lu - lz
    BY DEF Consumed
  <1>4. /\ ls <= lv /\ lc <= n /\ Occurs(V, n - lc, c)
        /\ \A i \in 1..ls : stream[i] = V[n + i]
    BY <1>2 DEF InRing
  <1>5. /\ d \in Nat /\ Len(g) \in Nat /\ d <= Len(sent) /\ d <= Len(g) /\ e \in Nat
    <2>1. /\ d \in Nat /\ Len(sent) \in Nat /\ Len(g) \in Nat
          /\ d <= Len(sent) /\ Len(sent) <= Len(g) /\ e \in Nat
      BY <1>2, NextPacket
    <2> QED BY <2>1
  <1>6. /\ inBuf' = inBuf /\ mode' = mode /\ packet' = packet /\ downQueue' = downQueue
        /\ Contents(inBuf') = c /\ Len(downQueue') = d
    OBVIOUS
  <1>7. /\ \A i \in 1..lv : U[i] = V[i]
        /\ \A i \in 1..lw : U[lv + i] = w[i]
        /\ \A i \in 1..ls : stream'[i] = stream[i]
        /\ \A i \in 1..lw : stream'[ls + i] = w[i]
    BY DEF Longer
  <1>8. End(g2, b2, d) = e
    <2>1. d \in 0..Len(g)
      <3> HIDE DEF d
      <3> QED BY <1>5
    <2>2. \A k \in 1..Len(g) : g2[k] = g[k] /\ b2[k] = b[k]
      OBVIOUS
    <2>3. Len(g) \in Nat
      BY <1>5
    <2>4. End(g2, b2, d) = End(g, b, d)
      <3> HIDE DEF d
      <3> QED BY <2>1, <2>2, <2>3, EndKept
    <2> QED BY <2>4
  <1>9. \A k \in Nat, p \in Seq(Nat) :
           k + Len(p) <= lv => (Occurs(U, k, p) <=> Occurs(V, k, p))
    BY OccursInPrefix
  <1> HIDE DEF n, c, d, e, P, lc, lv, lu, lw, ls, lz
  <1>10. Consumed(U)' = n /\ n \in Nat /\ n <= lv
    BY <1>1, <1>3, <1>4
  <1>11. InRing(U)'
    <2>1. lz <= lu
      BY <1>1, <1>4
    <2>2. \A i \in 1..lz : stream'[i] = U[n + i]
      <3> TAKE i \in 1..lz
      <3>1. CASE i \in 1..ls
        <4>1. n + i \in 1..lv
          <5>1. n = lv - ls /\ n \in Nat /\ ls \in Nat /\ lv \in Nat
            BY <1>1, <1>3, <1>10
          <5> QED BY <3>1, <5>1
        <4> QED BY <1>4, <1>7, <3>1, <4>1
      <3>2. CASE ~(i \in 1..ls)
        <4> DEFINE k == i - ls
        <4>1. k \in 1..lw /\ i = ls + k /\ n + i = lv + k
          BY <1>1, <1>3, <1>4, <1>10, <3>2
        <4> HIDE DEF k
        <4>2. stream'[ls + k] = w[k] /\ U[lv + k] = w[k]
          BY <1>7, <4>1
        <4> QED BY <4>1, <4>2
      <3> QED BY <3>1, <3>2
    <2>3. Occurs(U, n - lc, c)
      <3>1. n - lc \in Nat /\ n - lc + Len(c) <= lv
        BY <1>1, <1>4, <1>10 DEF lc
      <3> QED BY <1>1, <1>4, <1>9, <3>1
    <2> QED BY <1>4, <1>6, <1>10, <2>1, <2>2, <2>3 DEF InRing, lz, lu, lc
  <1>12. Delivered'
    <2>1. d <= Len(sent')
      <3> DEFINE x == Len(sent)
                 y == Len(sent')
      <3>1. x \in Nat /\ y \in Nat /\ d \in Nat /\ d <= x /\ x <= y
        BY <1>1, <1>5
      <3> HIDE DEF x, y
      <3>2. d <= y
        BY <3>1
      <3> QED BY <3>2 DEF y
    <2>2. ASSUME NEW i \in 1..d PROVE downQueue'[i] = sent'[i]
      <3>1. i \in 1..Len(sent)
        BY <1>1, <1>5
      <3> QED BY <1>2, <1>6, <3>1 DEF Delivered, d
    <2> QED BY <1>6, <2>1, <2>2 DEF Delivered
  <1>13. ASSUME mode = "preamble" PROVE Hunting(U, g2, b2)'
    <2>1. /\ e <= n /\ lc = IF n - e < Size THEN n - e ELSE Size - 1
          /\ \A j \in e..(n - P) : ~Occurs(V, j, Preamble)
      BY <1>13 DEF Parsed, Hunting, n, e, d, c, P, lc
    <2>2. ASSUME NEW j \in e..(n - P) PROVE ~Occurs(U, j, Preamble)
      <3>1. j \in Nat /\ j + Len(Preamble) <= lv
        <4>1. e \in Nat /\ n \in Nat /\ P \in Nat /\ n <= lv /\ lv \in Nat
          BY <1>1, <1>5, <1>10
        <4>2. j \in Nat /\ j + P <= lv
          BY <4>1
        <4> QED BY <1>1, <4>2
      <3> QED BY <1>1, <1>9, <2>1, <3>1
    <2> QED BY <1>6, <1>8, <1>10, <2>1, <2>2 DEF Hunting, lc, P
  <1>14. ASSUME d < Len(g) PROVE /\ d < Len(g2) /\ g2[d + 1] = g[d + 1]
                                 /\ b2[d + 1] = b[d + 1]
    <2>1. d + 1 \in 1..Len(g)
      BY <1>5, <1>14
    <2>2. d < Len(g2)
      BY <1>1, <1>5, <1>14
    <2> QED BY <2>1, <2>2
  <1>15. ASSUME mode = "header" PROVE InHeader(U, g2, b2)'
    <2>1. /\ d < Len(g) /\ n = b[d + 1] + P + lc /\ lc < HeaderSize
      BY <1>15 DEF Parsed, InHeader, n, d, c, P, lc
    <2> QED BY <1>6, <1>10, <1>14, <2>1 DEF InHeader, P, lc
  <1>16. ASSUME mode = "body" PROVE InBody(U, g2, b2)'
    <2>1. /\ d < Len(g) /\ n = b[d + 1] + P + HeaderSize + lc
          /\ packet = [tid |-> g[d + 1].tid, type |-> g[d + 1].action,
                       length |-> Len(g[d + 1].data)]
          /\ lc < packet.length
      BY <1>16 DEF Parsed, InBody, n, d, c, P, lc
    <2> QED BY <1>6, <1>10, <1>14, <2>1 DEF InBody, P, lc
  <1> QED BY <1>6, <1>11, <1>12, <1>13, <1>15, <1>16 DEF Parsed


(***************************************************************************)
(* A packet that is whole stays as it is, and so does what precedes it.    *)
(***************************************************************************)
LEMMA WholeKept ==
    ASSUME NEW V \in Seq(Nat), NEW w \in Seq(Nat), NEW U \in Seq(Nat), Longer(U, V, w),
           NEW g \in Seq(Frame), NEW b \in Seq(Nat), Begun(V, g, b),
           NEW i \in 1..Len(g), End(g, b, i) <= Len(V)
    PROVE  /\ End(g, b, i - 1) <= b[i] /\ b[i] <= Len(U) /\ End(g, b, i) <= Len(U)
           /\ \A k \in 1..Len(Encode(g[i])) :
                 b[i] + k <= Len(U) => U[b[i] + k] = Encode(g[i])[k]
           /\ \A j \in End(g, b, i - 1)..(b[i] - 1) : ~Occurs(U, j, Preamble)
  <1> DEFINE e0 == End(g, b, i - 1)
             e1 == End(g, b, i)
             s  == b[i]
             L  == Len(Encode(g[i]))
             m  == Len(g[i].data)
             lv == Len(V)
             lu == Len(U)
             P  == PreambleSize
  <1>1. /\ e0 <= s /\ s <= lv
        /\ \A k \in 1..L : s + k <= lv => V[s + k] = Encode(g[i])[k]
        /\ \A j \in e0..(s - 1) : ~Occurs(V, j, Preamble)
    BY DEF Begun
  <1>2. s \in Nat /\ e0 \in Nat /\ g[i] \in Frame /\ e1 = s + P + 3 + m
    <2>1. i - 1 \in 0..Len(g) /\ i \in 0..Len(g) /\ i # 0
      OBVIOUS
    <2> QED BY <2>1, EndType
  <1>3. g[i].data \in Seq(Nat) /\ L = P + 3 + m
    BY <1>2, EncodeType
  <1>4. /\ lv \in Nat /\ lu \in Nat /\ Len(w) \in Nat /\ lu = lv + Len(w) /\ m \in Nat
        /\ P \in Nat /\ P = Len(Preamble) /\ Preamble \in Seq(Nat)
    BY <1>3, LenProperties, SizeType DEF Longer, PreambleSize
  <1>5. \A k \in 1..lv : U[k] = V[k]
    BY DEF Longer
  <1>6. e1 <= lv
    OBVIOUS
  <1> HIDE DEF e0, e1, s, L, m, lv, lu, P
  <1>7. s <= lu /\ e1 <= lu /\ e1 = s + L /\ L \in Nat
    <2>1. lv <= lu
      BY <1>4
    <2> QED BY <1>1, <1>2, <1>3, <1>4, <1>6, <2>1
  <1>8. ASSUME NEW k \in 1..L PROVE U[s + k] = Encode(g[i])[k]
    <2>1. s + k \in 1..lv /\ s + k <= lv
      BY <1>2, <1>4, <1>6, <1>7
    <2> QED BY <1>1, <1>5, <2>1
  <1>9. ASSUME NEW j \in e0..(s - 1) PROVE ~Occurs(U, j, Preamble)
    <2>1. j \in Nat /\ j + P <= lv
      BY <1>2, <1>3, <1>4, <1>6, <1>7
    <2>2. j + Len(Preamble) <= Len(V)
      BY <1>4, <2>1 DEF lv
    <2>3. Occurs(U, j, Preamble) <=> Occurs(V, j, Preamble)
      BY <1>4, <2>1, <2>2, OccursInPrefix
    <2> QED BY <1>1, <2>3
  <1> QED BY <1>1, <1>7, <1>8, <1>9 DEF e0, e1, s, L, lu

(***************************************************************************)
(* A packet, or its beginning, is written after those that are there.      *)
(***************************************************************************)
FrameWritten(V, g, b, f, w, U, g2, b2) ==
    /\ Longer(U, V, w)
    /\ Len(w) <= Len(Encode(f))
    /\ \A k \in 1..Len(w) : w[k] = Encode(f)[k]
    /\ g2 = Append(g, f)
    /\ b2 = Append(b, Len(V))

LEMMA FrameBegun ==
    ASSUME TypeOK, open, NEW V \in Seq(Nat), NEW g \in Seq(Frame), NEW b \in Seq(Nat),
           Written(V, g, b), NEW f \in Frame,
           NEW w \in Seq(Nat), NEW U \in Seq(Nat), NEW g2, NEW b2,
           FrameWritten(V, g, b, f, w, U, g2, b2)
    PROVE  /\ g2 \in Seq(Frame) /\ b2 \in Seq(Nat) /\ Len(g2) = Len(g) + 1
           /\ \A i \in 1..Len(g) : g2[i] = g[i] /\ b2[i] = b[i]
           /\ g2[Len(g) + 1] = f
           /\ Begun(U, g2, b2)
           /\ Len(sent) = Len(g)
           /\ \A i \in 1..Len(g) : End(g2, b2, i) <= Len(U)
           /\ End(g2, b2, Len(g) + 1) = Len(V) + Len(Encode(f))
  <1> DEFINE N  == Len(g)
             lv == Len(V)
             lu == Len(U)
             lw == Len(w)
             P  == PreambleSize
             L  == Len(Encode(f))
  <1> USE DEF FrameWritten
  <1>1. /\ N \in Nat /\ lv \in Nat /\ lu \in Nat /\ lw \in Nat /\ lu = lv + lw
        /\ P \in Nat /\ P = Len(Preamble) /\ P > 0 /\ Preamble \in Seq(Nat)
    BY LenProperties, SizeType DEF Longer, PreambleSize
  <1>2. L \in Nat /\ lw <= L
    <2>1. Encode(f) \in Seq(Nat)
      BY EncodeType
    <2> QED BY <2>1, LenProperties
  <1>3. /\ Begun(V, g, b) /\ Len(b) = N
        /\ Len(sent) = N
        /\ \A i \in 1..N : End(g, b, i) <= lv
        /\ \A j \in End(g, b, N)..lv : ~Occurs(V, j, Preamble)
        /\ InReach(lv - End(g, b, N))
    <2>1. Begun(V, g, b) /\ Len(b) = N
      BY DEF Written, Begun
    <2>2. Len(sent) <= N /\ ~(Len(sent) < N)
      BY DEF Written
    <2>3. Len(sent) = N
      <3> DEFINE x == Len(sent)
      <3>1. x \in Nat
        BY LenProperties DEF TypeOK
      <3> HIDE DEF x, N
      <3>2. x <= N /\ ~(x < N)
        BY <2>2 DEF x
      <3> QED BY <1>1, <3>1, <3>2 DEF x
    <2> QED BY <2>1, <2>3 DEF Written
  <1>4. /\ g2 \in Seq(Frame) /\ Len(g2) = N + 1
        /\ \A i \in 1..N : g2[i] = g[i]
        /\ g2[N + 1] = f
    BY AppendProperties
  <1>5. /\ b2 \in Seq(Nat) /\ Len(b2) = N + 1
        /\ \A i \in 1..N : b2[i] = b[i]
        /\ b2[N + 1] = lv
    BY <1>1, <1>3, AppendProperties
  <1>6. \A i \in 0..N : End(g2, b2, i) = End(g, b, i)
    BY <1>1, <1>4, <1>5, EndKept
  <1>7. End(g2, b2, N + 1) = lv + L
    <2>1. N + 1 # 0
      BY <1>1
    <2> QED BY <1>4, <1>5, <2>1 DEF End
  <1>8. /\ End(g, b, N) \in Nat
        /\ N > 0 => End(g, b, N) <= lv
        /\ N = 0 => End(g, b, N) = 0
    <2>1. N \in 0..Len(g)
      BY <1>1
    <2>2. N = 0 => End(g, b, N) = 0
      BY DEF End
    <2>3. N > 0 => N \in 1..N
      BY <1>1
    <2> QED BY <1>3, <2>1, <2>2, <2>3, EndType
  <1>9. lw > 0 => w[1] = Preamble[1]
    <2> SUFFICES ASSUME lw > 0 PROVE w[1] = Preamble[1]
      OBVIOUS
    <2>1. 1 \in 1..lw /\ 1 \in 1..P
      <3> HIDE DEF lw, P
      <3> QED BY <1>1
    <2>2. w[1] = Encode(f)[1]
      BY <2>1
    <2>3. Encode(f)[1] = Preamble[1]
      BY <2>1, EncodeBytes
    <2> QED BY <2>2, <2>3
  <1> HIDE DEF N, lv, lu, lw, P, L
  <1>10. ASSUME NEW i \in 1..N
         PROVE  /\ End(g2, b2, i - 1) <= b2[i] /\ b2[i] <= lu /\ End(g2, b2, i) <= lu
                /\ \A k \in 1..Len(Encode(g2[i])) :
                      b2[i] + k <= lu => U[b2[i] + k] = Encode(g2[i])[k]
                /\ \A j \in End(g2, b2, i - 1)..(b2[i] - 1) : ~Occurs(U, j, Preamble)
                /\ InReach(b2[i] - End(g2, b2, i - 1))
    <2>1. g2[i] = g[i] /\ b2[i] = b[i]
      BY <1>4, <1>5
    <2>2. i - 1 \in 0..N /\ i \in 0..N
      BY <1>1
    <2>3. End(g2, b2, i - 1) = End(g, b, i - 1) /\ End(g2, b2, i) = End(g, b, i)
      BY <1>6, <2>2
    <2>4. End(g, b, i) <= Len(V) /\ i \in 1..Len(g)
      BY <1>3 DEF lv, N
    <2>5. /\ End(g, b, i - 1) <= b[i] /\ b[i] <= Len(U) /\ End(g, b, i) <= Len(U)
          /\ \A k \in 1..Len(Encode(g[i])) :
                b[i] + k <= Len(U) => U[b[i] + k] = Encode(g[i])[k]
          /\ \A j \in End(g, b, i - 1)..(b[i] - 1) : ~Occurs(U, j, Preamble)
      BY <1>3, <2>4, WholeKept
    <2>6. InReach(b[i] - End(g, b, i - 1))
      BY <1>3, <2>4 DEF Begun
    <2> QED BY <2>1, <2>3, <2>5, <2>6 DEF lu
  <1>11. /\ End(g2, b2, N) <= b2[N + 1] /\ b2[N + 1] <= lu
         /\ \A k \in 1..Len(Encode(g2[N + 1])) :
               b2[N + 1] + k <= lu => U[b2[N + 1] + k] = Encode(g2[N + 1])[k]
         /\ \A j \in End(g2, b2, N)..(b2[N + 1] - 1) : ~Occurs(U, j, Preamble)
         /\ InReach(b2[N + 1] - End(g2, b2, N))
    <2>1. End(g2, b2, N) = End(g, b, N)
      BY <1>1, <1>6
    <2>2. End(g, b, N) <= lv /\ lv <= lu
      BY <1>1, <1>8
    <2>3. ASSUME NEW k \in 1..L, lv + k <= lu PROVE U[lv + k] = Encode(f)[k]
      <3>1. k \in 1..lw
        BY <1>1, <1>2, <2>3
      <3> QED BY <3>1 DEF Longer, lv, lw
    <2>4. ASSUME NEW j \in End(g, b, N)..(lv - 1) PROVE ~Occurs(U, j, Preamble)
      <3>1. j \in Nat /\ j < lv /\ j \in End(g, b, N)..lv
        BY <1>1, <1>8
      <3>2. ~Occurs(V, j, Preamble)
        BY <1>3, <3>1
      <3> QED BY <1>9, <3>1, <3>2, NoPreambleAcross DEF lv, lw
    <2>5. InReach(b2[N + 1] - End(g2, b2, N))
      BY <1>3, <1>5, <2>1
    <2> QED BY <1>4, <1>5, <2>1, <2>2, <2>3, <2>4, <2>5 DEF L
  <1>12. Begun(U, g2, b2)
    <2>1. Len(b2) = Len(g2)
      BY <1>4, <1>5
    <2>2. ASSUME NEW i \in 1..Len(g2)
          PROVE  /\ End(g2, b2, i - 1) <= b2[i] /\ b2[i] <= lu
                 /\ \A k \in 1..Len(Encode(g2[i])) :
                       b2[i] + k <= lu => U[b2[i] + k] = Encode(g2[i])[k]
                 /\ \A j \in End(g2, b2, i - 1)..(b2[i] - 1) : ~Occurs(U, j, Preamble)
                 /\ InReach(b2[i] - End(g2, b2, i - 1))
      <3>1. CASE i \in 1..N
        BY <1>10, <3>1
      <3>2. CASE ~(i \in 1..N)
        <4>1. i = N + 1 /\ i - 1 = N
          BY <1>1, <1>4, <3>2
        <4> QED BY <1>11, <4>1
      <3> QED BY <3>1, <3>2
    <2> QED BY <2>1, <2>2 DEF Begun, lu
  <1> QED BY <1>3, <1>4, <1>5, <1>7, <1>10, <1>12 DEF N, lv, lu, L


LEMMA SendStep ==
    ASSUME TypeOK, TypeOK', NEW V \in Seq(Nat), NEW g \in Seq(Frame), NEW b \in Seq(Nat),
           Written(V, g, b), Parsed(V, g, b), NEW f \in Frame, ClientSend(f)
    PROVE  Follows'
  <1> DEFINE w  == Encode(f)
             U  == V \o w
             g2 == Append(g, f)
             b2 == Append(b, Len(V))
             N  == Len(g)
  <1>1. /\ open /\ stream' = stream \o w /\ sent' = Append(sent, f) /\ noisy' = FALSE
        /\ open' = open /\ UNCHANGED <<inBuf, mode, packet, downQueue>>
    BY DEF ClientSend, receiver
  <1>2. w \in Seq(Nat) /\ Len(w) \in Nat
    BY EncodeType, LenProperties
  <1>3. U \in Seq(Nat) /\ Longer(U, V, w)
    BY <1>2, ConcatIsLonger
  <1>4. Longer(stream', stream, w)
    BY <1>1, <1>2, ConcatIsLonger DEF TypeOK
  <1> HIDE DEF U, g2, b2
  <1>5. /\ g2 \in Seq(Frame) /\ b2 \in Seq(Nat) /\ Len(g2) = N + 1
        /\ \A i \in 1..N : g2[i] = g[i] /\ b2[i] = b[i]
        /\ g2[N + 1] = f
        /\ Begun(U, g2, b2)
        /\ Len(sent) = N
        /\ \A i \in 1..N : End(g2, b2, i) <= Len(U)
        /\ End(g2, b2, N + 1) = Len(V) + Len(w)
    <2>1. g2 = Append(g, f) /\ b2 = Append(b, Len(V))
      BY DEF g2, b2
    <2>2. Len(w) <= Len(Encode(f)) /\ \A k \in 1..Len(w) : w[k] = Encode(f)[k]
      BY <1>2
    <2> HIDE DEF w
    <2>3. open /\ w \in Seq(Nat) /\ U \in Seq(Nat) /\ Longer(U, V, w)
      BY <1>1, <1>2, <1>3
    <2>4. /\ g2 \in Seq(Frame) /\ b2 \in Seq(Nat) /\ Len(g2) = Len(g) + 1
          /\ \A i \in 1..Len(g) : g2[i] = g[i] /\ b2[i] = b[i]
          /\ g2[Len(g) + 1] = f
          /\ Begun(U, g2, b2)
          /\ Len(sent) = Len(g)
          /\ \A i \in 1..Len(g) : End(g2, b2, i) <= Len(U)
          /\ End(g2, b2, Len(g) + 1) = Len(V) + Len(Encode(f))
      <3>1. FrameWritten(V, g, b, f, w, U, g2, b2)
        BY <2>1, <2>2, <2>3 DEF FrameWritten
      <3> QED BY <2>3, <3>1, FrameBegun
    <2> QED BY <2>4 DEF w
  <1>6. /\ N \in Nat /\ Len(V) \in Nat /\ Len(U) = Len(V) + Len(w) /\ Len(U) \in Nat
    BY <1>2, <1>3, LenProperties DEF Longer
  <1>7. /\ Len(sent') = N + 1 /\ \A i \in 1..N : sent'[i] = sent[i]
        /\ sent'[N + 1] = f
    <2>1. sent \in Seq(Frame)
      BY DEF TypeOK
    <2> DEFINE z == Append(sent, f)
    <2>2. /\ Len(z) = Len(sent) + 1 /\ \A i \in 1..Len(sent) : z[i] = sent[i]
          /\ z[Len(sent) + 1] = f
      BY <2>1, AppendProperties
    <2> HIDE DEF z, N
    <2>3. sent' = z /\ Len(sent) = N
      BY <1>1, <1>5 DEF z
    <2> QED BY <2>2, <2>3
  <1> HIDE DEF w, N
  <1>8. Written(U, g2, b2)'
    <2>1. Len(sent') <= Len(g2) /\ Len(sent') = Len(g2) /\ ~(Len(sent') < Len(g2))
      BY <1>5, <1>6, <1>7
    <2>2. ASSUME NEW i \in 1..Len(sent') PROVE g2[i] = sent'[i] /\ End(g2, b2, i) <= Len(U)
      <3>1. CASE i = N + 1
        BY <1>5, <1>6, <1>7, <3>1
      <3>2. CASE i # N + 1
        <4>1. i \in 1..N
          BY <1>6, <1>7, <3>2
        <4>2. g[i] = sent[i]
          BY <1>5, <4>1 DEF Written
        <4> QED BY <1>5, <1>7, <4>1, <4>2
      <3> QED BY <3>1, <3>2
    <2>3. End(g2, b2, Len(g2)) = Len(U)
      BY <1>5, <1>6
    <2>4. \A j \in End(g2, b2, Len(g2))..Len(U) : ~Occurs(U, j, Preamble)
      <3> TAKE j \in End(g2, b2, Len(g2))..Len(U)
      <3>1. j = Len(U)
        BY <1>6, <2>3
      <3>2. ~(Len(U) + Len(Preamble) <= Len(U))
        BY <1>6, SizeType DEF PreambleSize
      <3> QED BY <3>1, <3>2 DEF Occurs
    <2>5. InReach(Len(U) - End(g2, b2, Len(g2)))
      <3>1. Len(U) - End(g2, b2, Len(g2)) = 0
        BY <1>6, <2>3
      <3> QED BY <3>1, AdjacentInReach
    <2> QED BY <1>5, <2>1, <2>2, <2>3, <2>4, <2>5 DEF Written
  <1>9. Parsed(U, g2, b2)'
    <2>1. Len(g) <= Len(g2) /\ \A i \in 1..Len(g) : g2[i] = g[i] /\ b2[i] = b[i]
      BY <1>5, <1>6 DEF N
    <2>2. Len(sent) <= Len(sent') /\ \A i \in 1..Len(sent) : sent'[i] = sent[i]
      <3>1. N <= N + 1
        BY <1>6
      <3> QED BY <1>5, <1>7, <3>1
    <2> QED BY <1>1, <1>2, <1>3, <1>4, <1>5, <2>1, <2>2, ParsedGrows
  <1> QED BY <1>3, <1>5, <1>8, <1>9 DEF Follows

LEMMA HangUpStep ==
    ASSUME TypeOK, TypeOK', NEW V \in Seq(Nat), NEW g \in Seq(Frame), NEW b \in Seq(Nat),
           Written(V, g, b), Parsed(V, g, b), NEW f \in Frame, HangUp(f)
    PROVE  Follows'
  <1> DEFINE E  == Encode(f)
             L  == Len(E)
  <1>1. PICK n \in 0..(L - 1) : stream' = stream \o SubSeq(E, 1, n)
    BY DEF HangUp
  <1> DEFINE w  == SubSeq(E, 1, n)
             U  == V \o w
             g2 == Append(g, f)
             b2 == Append(b, Len(V))
             N  == Len(g)
  <1>2. /\ open /\ stream' = stream \o w /\ sent' = sent /\ open' = FALSE
        /\ UNCHANGED <<inBuf, mode, packet, downQueue>>
    BY <1>1 DEF HangUp, receiver
  <1>3. E \in Seq(Nat) /\ L \in Nat
    BY EncodeType, LenProperties
  <1>4. w \in Seq(Nat) /\ Len(w) = n /\ \A k \in 1..Len(w) : w[k] = E[k]
    <2> HIDE DEF E
    <2>1. n \in Nat /\ n < L
      BY <1>3
    <2>2. \A i \in 1..n : E[i] \in Nat
      BY <1>3, <2>1, ElementOfSeq
    <2>3. /\ w \in Seq(Nat) /\ Len(w) = IF 1 <= n THEN n - 1 + 1 ELSE 0
          /\ \A i \in 1..(n - 1 + 1) : w[i] = E[1 + i - 1]
      BY <2>1, <2>2, SubSeqProperties
    <2>4. Len(w) = n /\ n - 1 + 1 = n
      BY <2>1, <2>3
    <2>5. \A i \in 1..n : 1 + i - 1 = i
      BY <2>1
    <2> QED BY <2>3, <2>4, <2>5
  <1>5. U \in Seq(Nat) /\ Longer(U, V, w)
    BY <1>4, ConcatIsLonger
  <1>6. Longer(stream', stream, w)
    BY <1>2, <1>4, ConcatIsLonger DEF TypeOK
  <1> HIDE DEF w, U, g2, b2
  <1>7. Len(w) <= L
    <2> HIDE DEF L
    <2> QED BY <1>3, <1>4
  <1>8. /\ g2 \in Seq(Frame) /\ b2 \in Seq(Nat) /\ Len(g2) = N + 1
        /\ \A i \in 1..N : g2[i] = g[i] /\ b2[i] = b[i]
        /\ Begun(U, g2, b2)
        /\ Len(sent) = N
        /\ \A i \in 1..N : End(g2, b2, i) <= Len(U)
        /\ End(g2, b2, N + 1) = Len(V) + L
    <2>1. g2 = Append(g, f) /\ b2 = Append(b, Len(V))
      BY DEF g2, b2
    <2>2. Len(w) <= Len(Encode(f)) /\ \A k \in 1..Len(w) : w[k] = Encode(f)[k]
      BY <1>4, <1>7
    <2>3. /\ g2 \in Seq(Frame) /\ b2 \in Seq(Nat) /\ Len(g2) = Len(g) + 1
          /\ \A i \in 1..Len(g) : g2[i] = g[i] /\ b2[i] = b[i]
          /\ Begun(U, g2, b2)
          /\ Len(sent) = Len(g)
          /\ \A i \in 1..Len(g) : End(g2, b2, i) <= Len(U)
          /\ End(g2, b2, Len(g) + 1) = Len(V) + Len(Encode(f))
      <3>1. FrameWritten(V, g, b, f, w, U, g2, b2)
        BY <1>5, <2>1, <2>2 DEF FrameWritten
      <3> QED BY <1>2, <1>4, <1>5, <3>1, FrameBegun
    <2> QED BY <2>3
  <1>9. /\ N \in Nat /\ Len(V) \in Nat /\ Len(U) = Len(V) + Len(w)
    BY <1>5, LenProperties DEF Longer
  <1> HIDE DEF E, L, N
  <1>10. Written(U, g2, b2)'
    <2>1. /\ Len(sent') <= Len(g2) /\ Len(sent') # Len(g2) /\ Len(g2) = Len(sent') + 1
      BY <1>2, <1>8, <1>9
    <2>2. ASSUME NEW i \in 1..Len(sent') PROVE g2[i] = sent'[i] /\ End(g2, b2, i) <= Len(U)
      <3>1. i \in 1..N /\ i \in 1..Len(sent)
        BY <1>2, <1>8
      <3>2. g[i] = sent[i]
        BY <3>1 DEF Written
      <3> QED BY <1>2, <1>8, <3>1, <3>2
    <2>3. Len(U) < End(g2, b2, Len(g2))
      BY <1>3, <1>4, <1>8, <1>9
    <2> QED BY <1>2, <1>8, <2>1, <2>2, <2>3 DEF Written
  <1>11. Parsed(U, g2, b2)'
    <2>1. Len(g) <= Len(g2) /\ \A i \in 1..Len(g) : g2[i] = g[i] /\ b2[i] = b[i]
      BY <1>8, <1>9 DEF N
    <2>2. Len(sent) <= Len(sent') /\ \A i \in 1..Len(sent) : sent'[i] = sent[i]
      BY <1>2, <1>8, <1>9
    <2> QED BY <1>2, <1>4, <1>5, <1>6, <1>8, <2>1, <2>2, ParsedGrows
  <1> QED BY <1>5, <1>8, <1>10, <1>11 DEF Follows

LEMMA NoiseStep ==
    ASSUME Tidy, TypeOK, TypeOK',
           NEW V \in Seq(Nat), NEW g \in Seq(Frame), NEW b \in Seq(Nat),
           Written(V, g, b), Parsed(V, g, b), NEW w \in Noise, ClientNoise(w)
    PROVE  Follows'
  <1> DEFINE U == V \o w
             N == Len(g)
             e == End(g, b, N)
             lv == Len(V)
             lu == Len(U)
             lw == Len(w)
  <1>1. /\ open /\ ~noisy /\ stream' = stream \o w /\ sent' = sent /\ open' = open
        /\ noisy' = TRUE /\ UNCHANGED <<inBuf, mode, packet, downQueue>>
    BY DEF ClientNoise, receiver
  <1>2. w \in Seq(Nat) /\ lw \in Nat
    BY SoStreamAssumption, LenProperties
  <1>3. U \in Seq(Nat) /\ Longer(U, V, w)
    BY <1>2, ConcatIsLonger
  <1>4. Longer(stream', stream, w)
    BY <1>1, <1>2, ConcatIsLonger DEF TypeOK
  <1> HIDE DEF U
  <1>5. /\ Begun(V, g, b) /\ Len(sent) <= N /\ ~(Len(sent) < N) /\ lv = e
        /\ \A i \in 1..Len(sent) : g[i] = sent[i] /\ End(g, b, i) <= lv
    BY <1>1 DEF Written
  <1>6. N \in Nat /\ lv \in Nat /\ lu = lv + lw /\ lu \in Nat /\ Len(sent) \in Nat
    BY <1>2, <1>3, LenProperties DEF Longer, TypeOK
  <1>7. Len(sent) = N
    <2> DEFINE x == Len(sent)
    <2>1. x \in Nat /\ N \in Nat /\ x <= N /\ ~(x < N)
      BY <1>5, <1>6
    <2> HIDE DEF x, N
    <2>2. x = N
      BY <2>1
    <2> QED BY <2>2 DEF x
  <1> HIDE DEF N, e, lv, lu, lw
  <1>8. \A i \in 1..N : End(g, b, i) <= Len(V)
    BY <1>5, <1>7 DEF lv
  <1>9. \A i \in 1..Len(g) :
           /\ End(g, b, i - 1) <= b[i] /\ b[i] <= Len(U) /\ End(g, b, i) <= Len(U)
           /\ \A k \in 1..Len(Encode(g[i])) :
                 b[i] + k <= Len(U) => U[b[i] + k] = Encode(g[i])[k]
           /\ \A j \in End(g, b, i - 1)..(b[i] - 1) : ~Occurs(U, j, Preamble)
    BY <1>2, <1>3, <1>5, <1>8, WholeKept DEF N
  <1>r. InReach(lu - e)
    <2>1. lu - e = lw
      BY <1>2, <1>5, <1>6
    <2>2. InReach(lw)
      BY DEF Tidy, lw
    <2> QED BY <2>1, <2>2
  <1>10. Begun(U, g, b)
    BY <1>5, <1>9 DEF Begun
  <1>11. ASSUME NEW j \in e..lu PROVE ~Occurs(U, j, Preamble)
    <2> SUFFICES ASSUME Occurs(U, j, Preamble) PROVE FALSE
      OBVIOUS
    <2> DEFINE k == j - lv
               P == PreambleSize
    <2>1. k \in 0..lw /\ j = lv + k
      BY <1>2, <1>5, <1>6
    <2>2. /\ P \in Nat /\ P = Len(Preamble) /\ j + P <= lu
          /\ \A i \in 1..P : U[j + i] = Preamble[i]
      BY SizeType DEF Occurs, PreambleSize, lu
    <2> HIDE DEF k, P
    <2>3. k + P <= lw
      BY <1>2, <1>6, <2>1, <2>2
    <2>4. ASSUME NEW i \in 1..P PROVE w[k + i] = Preamble[i]
      <3>1. k + i \in 1..lw /\ lv + (k + i) = j + i
        BY <1>2, <1>6, <2>1, <2>2, <2>3
      <3>2. U[lv + (k + i)] = w[k + i]
        BY <1>3, <3>1 DEF Longer, lv, lw
      <3> QED BY <2>2, <3>1, <3>2
    <2>5. Occurs(w, k, Preamble)
      BY <2>2, <2>3, <2>4 DEF Occurs, lw
    <2> QED BY <2>1, <2>5 DEF Tidy, lw
  <1>12. Written(U, g, b)'
    <2>1. Len(sent') = Len(g) /\ Len(sent') <= Len(g) /\ ~(Len(sent') < Len(g))
      BY <1>1, <1>6, <1>7 DEF N
    <2>2. \A i \in 1..Len(sent') : g[i] = sent'[i] /\ End(g, b, i) <= Len(U)
      BY <1>1, <1>5, <1>7, <1>9 DEF N
    <2> QED BY <1>1, <1>10, <1>11, <1>r, <2>1, <2>2 DEF Written, e, lu, N
  <1>13. Parsed(U, g, b)'
    <2>1. Len(g) <= Len(g) /\ \A i \in 1..Len(g) : g[i] = g[i] /\ b[i] = b[i]
      BY <1>6 DEF N
    <2>2. Len(sent) <= Len(sent') /\ \A i \in 1..Len(sent) : sent'[i] = sent[i]
      BY <1>1, <1>6
    <2> QED BY <1>1, <1>2, <1>3, <1>4, <2>1, <2>2, ParsedGrows
  <1> QED BY <1>3, <1>12, <1>13 DEF Follows


-----------------------------------------------------------------------------
(* The channel.                                                            *)

LEMMA InitFollows == ASSUME Init PROVE Follows
  <1> DEFINE z == <<>>
  <1>1. /\ stream = z /\ sent = z /\ downQueue = z /\ mode = "preamble"
        /\ z \in Seq(Nat) /\ z \in Seq(Frame) /\ Len(z) = 0
        /\ Len(stream) = 0 /\ Len(sent) = 0 /\ Len(downQueue) = 0
    BY DEF Init
  <1>2. Contents(inBuf) = z /\ Len(Contents(inBuf)) = 0
    <2>1. PICK junk \in Junk : inBuf = CreateRingBuffer(Size, junk)
      BY DEF Init
    <2> QED BY <2>1, RingCreated
  <1> HIDE DEF z
  <1>3. PreambleSize \in Nat /\ PreambleSize > 0 /\ PreambleSize = Len(Preamble) /\ Size > 3
        /\ Size \in Nat
    BY SizeType DEF PreambleSize
  <1>4. End(z, z, 0) = 0
    BY DEF End
  <1>5. \A j \in 0..0 : ~Occurs(z, j, Preamble)
    BY <1>1, <1>3 DEF Occurs
  <1>6. Written(z, z, z)
    <2>1. InReach(Len(z) - End(z, z, 0))
      BY <1>1, <1>4, AdjacentInReach
    <2> QED BY <1>1, <1>4, <1>5, <2>1 DEF Written, Begun
  <1>7. Consumed(z) = 0
    BY <1>1 DEF Consumed
  <1>8. InRing(z)
    <2>1. Occurs(z, 0 - 0, z)
      BY <1>1 DEF Occurs
    <2> QED BY <1>1, <1>2, <1>7, <2>1 DEF InRing
  <1>9. Delivered
    BY <1>1 DEF Delivered
  <1>10. Hunting(z, z, z)
    <2>1. 0..(0 - PreambleSize) = {}
      BY <1>3
    <2>2. 0 - 0 = 0 /\ 0 < Size
      BY <1>3
    <2> QED BY <1>1, <1>2, <1>4, <1>7, <2>1, <2>2 DEF Hunting
  <1>11. Parsed(z, z, z)
    BY <1>1, <1>8, <1>9, <1>10 DEF Parsed
  <1> QED BY <1>1, <1>6, <1>11 DEF Follows

LEMMA ReadStep ==
    ASSUME Tidy, TypeOK, Follows, ReadByte
    PROVE  Follows' /\ (Channel!Deliver \/ UNCHANGED <<sent, downQueue>>)
  <1>1. PICK V \in Seq(Nat), g \in Seq(Frame), b \in Seq(Nat) :
           Written(V, g, b) /\ Parsed(V, g, b)
    BY DEF Follows
  <1> DEFINE w == Write(inBuf, Head(stream))
  <1>2. HuntPreamble(w) \/ ParseHeader(w) \/ ParseBody(w)
    BY DEF ReadByte
  <1>3. Parsed(V, g, b)' /\ (Channel!Deliver \/ UNCHANGED <<sent, downQueue>>)
    BY <1>1, <1>2, HuntStep, HeaderStep, BodyStep
  <1>4. Written(V, g, b)'
    BY <1>1 DEF ReadByte, Written
  <1> QED BY <1>3, <1>4 DEF Follows

LEMMA IdleStep ==
    ASSUME Follows, ReadEnd \/ UNCHANGED vars
    PROVE  Follows' /\ UNCHANGED <<sent, downQueue>>
  <1>1. UNCHANGED <<stream, open, sent, noisy, inBuf, mode, packet, downQueue>>
    BY DEF ReadEnd, vars, client
  <1>2. PICK V \in Seq(Nat), g \in Seq(Frame), b \in Seq(Nat) :
           Written(V, g, b) /\ Parsed(V, g, b)
    BY DEF Follows
  <1>3. Written(V, g, b)'
    BY <1>1, <1>2 DEF Written
  <1>4. Parsed(V, g, b)'
    <2>1. InRing(V)' /\ Delivered' /\ mode' = mode
      BY <1>1, <1>2 DEF Parsed, InRing, Delivered, Consumed
    <2>2. mode = "preamble" => Hunting(V, g, b)'
      BY <1>1, <1>2 DEF Parsed, Hunting, Consumed
    <2>3. mode = "header" => InHeader(V, g, b)'
      BY <1>1, <1>2 DEF Parsed, InHeader, Consumed
    <2>4. mode = "body" => InBody(V, g, b)'
      BY <1>1, <1>2 DEF Parsed, InBody, Consumed
    <2> QED BY <2>1, <2>2, <2>3, <2>4 DEF Parsed
  <1> QED BY <1>1, <1>3, <1>4 DEF Follows

(***************************************************************************)
(* What gate_in is handed is, at every moment, the first of the packets    *)
(* that the client wrote, whole and in order: the safety half of           *)
(* IsChannel, for every preamble whose first byte occurs once in it, every *)
(* ring, and all packets and noise that are Tidy (so_receiver.c:20).  In a *)
(* ring of half the values of a counter or less noise may have any length, *)
(* in that of so_receiver.c at most one byte (InReach, rings.c:657).       *)
(***************************************************************************)
THEOREM ParserIsChannel == Tidy => (Spec => Channel!Safety)
  <1> SUFFICES ASSUME Tidy PROVE Spec => Channel!Safety
    OBVIOUS
  <1>1. Init => Follows /\ Channel!Init
    BY InitFollows DEF Init, Channel!Init
  <1>2. ASSUME TypeOK, TypeOK', Follows, [Next]_vars
        PROVE  Follows' /\ [Channel!Next]_(Channel!vars)
    <2> SUFFICES \/ Follows' /\ UNCHANGED <<sent, downQueue>>
                 \/ Follows' /\ Channel!Deliver
                 \/ Follows' /\ \E f \in Frame : Channel!Send(f)
      BY DEF Channel!Next, Channel!vars
    <2>1. PICK V \in Seq(Nat), g \in Seq(Frame), b \in Seq(Nat) :
             Written(V, g, b) /\ Parsed(V, g, b)
      BY <1>2 DEF Follows
    <2>2. ASSUME NEW f \in Frame, ClientSend(f) PROVE Follows' /\ Channel!Send(f)
      BY <1>2, <2>1, <2>2, SendStep DEF ClientSend, Channel!Send
    <2>3. ASSUME NEW f \in Frame, HangUp(f)
          PROVE  Follows' /\ UNCHANGED <<sent, downQueue>>
      BY <1>2, <2>1, <2>3, HangUpStep DEF HangUp
    <2>4. ASSUME NEW w \in Noise, ClientNoise(w)
          PROVE  Follows' /\ UNCHANGED <<sent, downQueue>>
      BY <1>2, <2>1, <2>4, NoiseStep DEF ClientNoise
    <2>5. CASE ReadByte
      BY <1>2, <2>5, ReadStep
    <2>6. CASE ReadEnd \/ UNCHANGED vars
      BY <1>2, <2>6, IdleStep
    <2> QED BY <1>2, <2>2, <2>3, <2>4, <2>5, <2>6 DEF Next
  <1> QED BY <1>1, <1>2, TypeCorrect, PTL DEF Spec, Channel!Safety
=============================================================================
