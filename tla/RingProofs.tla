----------------------------- MODULE RingProofs -----------------------------
(***************************************************************************)
(* For every size of the buffer and every set of bytes, a ring is the queue *)
(* that RingFifo promises.  The argument is about positions: a call changes *)
(* reader, writer and at most one byte, and the bytes between the two       *)
(* positions, read around the end of the buffer, change as the queue does.  *)
(***************************************************************************)
EXTENDS Rings, SequenceTheorems, TLAPS

RingOK == ring \in RingBuffer(Size, Byte)

(***************************************************************************)
(* A shift of less than one turn, in either direction.                     *)
(***************************************************************************)
LEMMA ModUp ==
    ASSUME NEW S \in Nat, S > 0, NEW a \in Nat, a < 2 * S
    PROVE  a % S = IF a < S THEN a ELSE a - S
  <1>1. CASE a < S  BY <1>1, SMT
  <1>2. CASE a >= S  BY <1>2, SMT
  <1> QED BY <1>1, <1>2

LEMMA ModDown ==
    ASSUME NEW S \in Nat, S > 0, NEW a \in Int, a < 0, a >= -S
    PROVE  a % S = a + S
  BY SMT

(***************************************************************************)
(* A counter holds what is smaller than the number of its values.          *)
(***************************************************************************)
LEMMA CounterKeeps ==
    ASSUME CounterSize \in Nat, NEW n \in Nat, n < CounterSize
    PROVE  Counter(n) = n
  BY SMT DEF Counter

LEMMA LengthRange ==
    ASSUME NEW r \in RingBuffer(Size, Byte)
    PROVE  /\ DataLenght(r) \in 0..(Size - 1)
           /\ r.size = Size /\ r.reader \in 0..(Size - 1) /\ r.writer \in 0..(Size - 1)
           /\ r.buffer \in [0..(Size - 1) -> Byte]
  BY RingAssumption DEF RingBuffer, DataLenght

(***************************************************************************)
(* Bytes is a sequence of bytes, element by element.                       *)
(***************************************************************************)
LEMMA BytesSeq ==
    ASSUME NEW r \in RingBuffer(Size, Byte), NEW p \in 0..(Size - 1), NEW n \in 0..Size
    PROVE  /\ Bytes(r, p, n) \in Seq(Byte)
           /\ Len(Bytes(r, p, n)) = n
           /\ \A k \in 1..n : /\ Bytes(r, p, n)[k] = r.buffer[Wrap(r, p + k - 1)]
                              /\ Wrap(r, p + k - 1) \in 0..(Size - 1)
  <1>1. \A k \in 1..n : /\ Wrap(r, p + k - 1) \in 0..(Size - 1)
                        /\ r.buffer[Wrap(r, p + k - 1)] \in Byte
    BY LengthRange, RingAssumption DEF Wrap
  <1>2. Bytes(r, p, n) \in [1..n -> Byte]
    BY <1>1 DEF Bytes
  <1>3. n \in Nat
    BY RingAssumption
  <1>4. Bytes(r, p, n) \in Seq(Byte) /\ Len(Bytes(r, p, n)) = n
    <2> DEFINE b == Bytes(r, p, n)
    <2>1. b \in [1..n -> Byte]
      BY <1>2
    <2> HIDE DEF b
    <2>2. b \in Seq(Byte) /\ Len(b) = n
      BY <1>3, <2>1
    <2> QED BY <2>2 DEF b
  <1>5. \A k \in 1..n : Bytes(r, p, n)[k] = r.buffer[Wrap(r, p + k - 1)]
    BY DEF Bytes
  <1> QED BY <1>1, <1>4, <1>5

LEMMA ContentsSeq ==
    ASSUME NEW r \in RingBuffer(Size, Byte)
    PROVE  /\ Contents(r) \in Seq(Byte)
           /\ Len(Contents(r)) = DataLenght(r)
           /\ \A k \in 1..DataLenght(r) :
                 /\ Contents(r)[k] = r.buffer[Wrap(r, r.reader + k - 1)]
                 /\ Wrap(r, r.reader + k - 1) \in 0..(Size - 1)
  <1>1. DataLenght(r) \in 0..Size /\ r.reader \in 0..(Size - 1)
    BY LengthRange, RingAssumption
  <1> QED BY <1>1, BytesSeq DEF Contents

(***************************************************************************)
(* A part of the data is found by its offset from the reader.              *)
(***************************************************************************)
LEMMA PartOfContents ==
    ASSUME NEW r \in RingBuffer(Size, Byte),
           NEW off \in 0..DataLenght(r), NEW n \in 0..(DataLenght(r) - off),
           NEW p \in 0..(Size - 1),
           p = Wrap(r, r.reader + off)
    PROVE  Bytes(r, p, n) = SubSeq(Contents(r), off + 1, off + n)
  <1> DEFINE b == Bytes(r, p, n)
             c == Contents(r)
             s == SubSeq(c, off + 1, off + n)
  <1>1. /\ DataLenght(r) \in 0..(Size - 1) /\ r.size = Size
        /\ r.reader \in 0..(Size - 1) /\ Size \in Nat
    BY LengthRange, RingAssumption
  <1>2. /\ b \in Seq(Byte) /\ Len(b) = n
        /\ \A k \in 1..n : b[k] = r.buffer[Wrap(r, p + k - 1)]
    <2>1. n \in 0..Size
      BY <1>1
    <2> QED BY <2>1, BytesSeq
  <1>3. /\ c \in Seq(Byte) /\ Len(c) = DataLenght(r)
        /\ \A k \in 1..DataLenght(r) : c[k] = r.buffer[Wrap(r, r.reader + k - 1)]
    BY ContentsSeq
  <1>4. /\ s \in Seq(Byte) /\ Len(s) = n
        /\ \A k \in 1..n : s[k] = c[off + k]
    <2> HIDE DEF c
    <2>1. off + 1 \in Int /\ off + n \in Int
      BY <1>1
    <2>2. \A k \in (off + 1)..(off + n) : c[k] \in Byte
      BY <1>1, <1>3, ElementOfSeq
    <2>3. /\ s \in Seq(Byte)
          /\ Len(s) = IF off + 1 <= off + n THEN off + n - (off + 1) + 1 ELSE 0
          /\ \A k \in 1..(off + n - (off + 1) + 1) : s[k] = c[off + 1 + k - 1]
      BY <2>1, <2>2, SubSeqProperties
    <2> HIDE DEF s
    <2> QED BY <1>1, <2>3
  <1>5. \A k \in 1..n : b[k] = s[k]
    <2> HIDE DEF b, c, s
    <2> TAKE k \in 1..n
    <2>1. s[k] = r.buffer[Wrap(r, r.reader + (off + k) - 1)]
      <3>1. off + k \in 1..DataLenght(r)
        BY <1>1
      <3> QED BY <1>3, <1>4, <3>1
    <2>2. Wrap(r, r.reader + (off + k) - 1) = Wrap(r, p + k - 1)
      BY <1>1 DEF Wrap
    <2> QED BY <1>2, <2>1, <2>2
  <1> HIDE DEF b, s, c
  <1>6. b = s
    BY <1>2, <1>4, <1>5, SeqEqual
  <1> QED BY <1>6 DEF b, s, c

(***************************************************************************)
(* The positions of a ring in numbers: the one after i, one at most a turn *)
(* past the start, and the length of the data from rd to wr.  When the     *)
(* writer moves on by one the data is one longer, and when it meets the    *)
(* reader both have moved on by one and the ring is full.                  *)
(***************************************************************************)
WrapAt(S, p) == IF p < S THEN p ELSE p - S
TurnAt(S, i) == IF i = S - 1 THEN 0 ELSE i + 1

Turned(S, rd, wr) == IF wr < rd THEN S - rd + wr ELSE wr - rd

LEMMA TurnedBySteps ==
    ASSUME NEW S \in Nat, S > 1, NEW rd \in 0..(S - 1), NEW wr \in 0..(S - 1)
    PROVE  /\ TurnAt(S, wr) = rd =>
                 Turned(S, TurnAt(S, rd), TurnAt(S, wr)) = S - 1
           /\ TurnAt(S, wr) # rd =>
                 Turned(S, rd, TurnAt(S, wr)) = Turned(S, rd, wr) + 1
  <1>1. CASE wr = S - 1
    BY <1>1 DEF TurnAt, Turned
  <1>2. CASE wr # S - 1
    BY <1>2 DEF TurnAt, Turned
  <1> QED BY <1>1, <1>2

(***************************************************************************)
(* A byte written to a ring that is not full goes to the end of its data;  *)
(* to a full ring, the oldest byte leaves as well.                         *)
(***************************************************************************)
LEMMA WriteRing ==
    ASSUME NEW r \in RingBuffer(Size, Byte), NEW b \in Byte
    PROVE  /\ Write(r, b) \in RingBuffer(Size, Byte)
           /\ Write(r, b).buffer = [r.buffer EXCEPT ![r.writer] = b]
           /\ Write(r, b).writer = Succ(r, r.writer)
           /\ Write(r, b).reader = IF Succ(r, r.writer) = r.reader
                                   THEN Succ(r, r.reader) ELSE r.reader
           /\ Write(r, b).size = Size
           /\ DataLenght(Write(r, b)) = IF DataLenght(r) = Size - 1 THEN Size - 1
                                        ELSE DataLenght(r) + 1
           /\ DataLenght(r) = Size - 1 <=> Succ(r, r.writer) = r.reader
  <1>1. /\ Write(r, b) \in RingBuffer(Size, Byte)
        /\ Write(r, b).buffer = [r.buffer EXCEPT ![r.writer] = b]
        /\ Write(r, b).writer = Succ(r, r.writer)
        /\ Write(r, b).reader = IF Succ(r, r.writer) = r.reader
                                THEN Succ(r, r.reader) ELSE r.reader
        /\ Write(r, b).size = Size
    <2>1. /\ [r.buffer EXCEPT ![r.writer] = b] \in [0..(Size - 1) -> Byte]
          /\ Succ(r, r.writer) \in 0..(Size - 1)
          /\ Succ(r, r.reader) \in 0..(Size - 1)
          /\ r.reader \in 0..(Size - 1)
      BY LengthRange, RingAssumption DEF Succ
    <2> QED BY <2>1, LengthRange DEF Write, RingBuffer
  <1>2. DataLenght(r) = Size - 1 <=> Succ(r, r.writer) = r.reader
    BY LengthRange, RingAssumption DEF DataLenght, Succ
  <1>3. DataLenght(Write(r, b)) = IF DataLenght(r) = Size - 1 THEN Size - 1
                                  ELSE DataLenght(r) + 1
    <2>1. /\ Size \in Nat /\ Size > 1
          /\ r.reader \in 0..(Size - 1) /\ r.writer \in 0..(Size - 1)
      BY LengthRange, RingAssumption
    <2>2. DataLenght(r) = Turned(Size, r.reader, r.writer)
      BY LengthRange DEF DataLenght, Turned
    <2>3. /\ Succ(r, r.writer) = TurnAt(Size, r.writer)
          /\ Succ(r, r.reader) = TurnAt(Size, r.reader)
      BY LengthRange DEF Succ, TurnAt
    <2>4. DataLenght(Write(r, b)) = Turned(Size, Write(r, b).reader, Write(r, b).writer)
      BY <1>1 DEF DataLenght, Turned
    <2>5. CASE Succ(r, r.writer) = r.reader
      <3>1. DataLenght(r) = Size - 1
        BY <1>2, <2>5
      <3>2. DataLenght(Write(r, b)) = Turned(Size, TurnAt(Size, r.reader), TurnAt(Size, r.writer))
        BY <1>1, <2>3, <2>4, <2>5
      <3>3. TurnAt(Size, r.writer) = r.reader
        BY <2>3, <2>5
      <3>4. Turned(Size, TurnAt(Size, r.reader), TurnAt(Size, r.writer)) = Size - 1
        BY ONLY <2>1, <3>3, TurnedBySteps
      <3> QED BY <3>1, <3>2, <3>4
    <2>6. CASE Succ(r, r.writer) # r.reader
      <3>1. DataLenght(r) # Size - 1
        BY <1>2, <2>6
      <3>2. DataLenght(Write(r, b)) = Turned(Size, r.reader, TurnAt(Size, r.writer))
        BY <1>1, <2>3, <2>4, <2>6
      <3>3. TurnAt(Size, r.writer) # r.reader
        BY <2>3, <2>6
      <3>4. Turned(Size, r.reader, TurnAt(Size, r.writer))
               = Turned(Size, r.reader, r.writer) + 1
        BY ONLY <2>1, <3>3, TurnedBySteps
      <3> QED BY <2>2, <3>1, <3>2, <3>4
    <2> QED BY <2>5, <2>6
  <1> QED BY <1>1, <1>2, <1>3

(***************************************************************************)
(* The positions of the data around a write, in numbers: the writer is not *)
(* among them, comes right after them, and a full ring turns by one.       *)
(***************************************************************************)
LEMMA WritePositions ==
    ASSUME NEW S \in Nat, S > 1, NEW rd \in 0..(S - 1), NEW wr \in 0..(S - 1)
    PROVE  /\ WrapAt(S, rd + Turned(S, rd, wr)) = wr
           /\ \A k \in 1..Turned(S, rd, wr) :
                 /\ WrapAt(S, rd + k - 1) # wr
                 /\ WrapAt(S, rd + k - 1) \in 0..(S - 1)
           /\ Turned(S, rd, wr) = S - 1 =>
                 /\ WrapAt(S, TurnAt(S, rd) + Turned(S, rd, wr) - 1) = wr
                 /\ \A k \in 1..(Turned(S, rd, wr) - 1) :
                       /\ WrapAt(S, TurnAt(S, rd) + k - 1) = WrapAt(S, rd + (k + 1) - 1)
                       /\ WrapAt(S, TurnAt(S, rd) + k - 1) # wr
                       /\ WrapAt(S, TurnAt(S, rd) + k - 1) \in 0..(S - 1)
  BY DEF WrapAt, TurnAt, Turned

LEMMA WriteContents ==
    ASSUME NEW r \in RingBuffer(Size, Byte), NEW b \in Byte
    PROVE  Contents(Write(r, b)) =
              IF Len(Contents(r)) = Size - 1 THEN Append(Tail(Contents(r)), b)
                                             ELSE Append(Contents(r), b)
  <1> DEFINE w == Write(r, b)
             c == Contents(r)
             d == Contents(w)
             L == DataLenght(r)
  <1>1. /\ w \in RingBuffer(Size, Byte) /\ w.size = Size
        /\ w.buffer = [r.buffer EXCEPT ![r.writer] = b]
        /\ w.reader = IF L = Size - 1 THEN Succ(r, r.reader) ELSE r.reader
        /\ DataLenght(w) = IF L = Size - 1 THEN Size - 1 ELSE L + 1
    BY WriteRing
  <1>2. /\ L \in 0..(Size - 1) /\ r.size = Size /\ Size \in Nat /\ Size > 1
        /\ r.reader \in 0..(Size - 1) /\ r.writer \in 0..(Size - 1)
        /\ r.buffer \in [0..(Size - 1) -> Byte]
        /\ L = IF r.writer < r.reader THEN Size - r.reader + r.writer
               ELSE r.writer - r.reader
    BY LengthRange, RingAssumption DEF DataLenght
  <1>3. /\ c \in Seq(Byte) /\ Len(c) = L
        /\ \A k \in 1..L : c[k] = r.buffer[Wrap(r, r.reader + k - 1)]
    BY ContentsSeq
  <1> HIDE DEF w
  <1>4. /\ d \in Seq(Byte) /\ Len(d) = DataLenght(w)
        /\ \A k \in 1..DataLenght(w) : d[k] = w.buffer[Wrap(w, w.reader + k - 1)]
    BY <1>1, ContentsSeq
  <1> HIDE DEF c, d, L
  <1>p. /\ WrapAt(Size, r.reader + L) = r.writer
        /\ \A k \in 1..L : /\ WrapAt(Size, r.reader + k - 1) # r.writer
                           /\ WrapAt(Size, r.reader + k - 1) \in 0..(Size - 1)
        /\ L = Size - 1 =>
              /\ WrapAt(Size, TurnAt(Size, r.reader) + L - 1) = r.writer
              /\ \A k \in 1..(L - 1) :
                    /\ WrapAt(Size, TurnAt(Size, r.reader) + k - 1)
                          = WrapAt(Size, r.reader + (k + 1) - 1)
                    /\ WrapAt(Size, TurnAt(Size, r.reader) + k - 1) # r.writer
                    /\ WrapAt(Size, TurnAt(Size, r.reader) + k - 1) \in 0..(Size - 1)
    <2>1. Size \in Nat /\ Size > 1
      BY <1>2
    <2>2. r.reader \in 0..(Size - 1) /\ r.writer \in 0..(Size - 1)
      BY <1>2
    <2>3. L = Turned(Size, r.reader, r.writer)
      BY <1>2 DEF Turned
    <2> QED BY ONLY <2>1, <2>2, <2>3, WritePositions
  <1>q. /\ \A p \in Int : Wrap(r, p) = WrapAt(Size, p) /\ Wrap(w, p) = WrapAt(Size, p)
        /\ Succ(r, r.reader) = TurnAt(Size, r.reader)
        /\ r.reader \in Int /\ w.reader \in Int
    <2>1. w.reader \in 0..(Size - 1)
      BY <1>1, LengthRange
    <2>2. \A p \in Int : Wrap(r, p) = WrapAt(Size, p) /\ Wrap(w, p) = WrapAt(Size, p)
      BY <1>1, <1>2 DEF Wrap, WrapAt
    <2>3. Succ(r, r.reader) = TurnAt(Size, r.reader)
      BY <1>2 DEF Succ, TurnAt
    <2> QED BY <1>2, <2>1, <2>2, <2>3
  <1>5. CASE L = Size - 1
    <2>1. c # <<>>
      BY <1>2, <1>3, <1>5, EmptySeq
    <2>2. /\ Tail(c) \in Seq(Byte) /\ Len(Tail(c)) = L - 1
          /\ \A k \in 1..(L - 1) : Tail(c)[k] = c[k + 1]
      BY <1>3, <2>1, HeadTailProperties
    <2> DEFINE t == Tail(c)
    <2> HIDE DEF t
    <2>3. /\ Append(t, b) \in Seq(Byte) /\ Len(Append(t, b)) = L
          /\ \A k \in 1..(L - 1) : Append(t, b)[k] = c[k + 1]
          /\ Append(t, b)[L] = b
      <3>1. /\ t \in Seq(Byte) /\ Len(t) = L - 1
            /\ \A k \in 1..(L - 1) : t[k] = c[k + 1]
        BY <2>2 DEF t
      <3>2. L \in Nat /\ L > 0
        BY <1>2, <1>5
      <3> QED BY <3>1, <3>2, AppendProperties
    <2>4. \A k \in 1..L : d[k] = Append(t, b)[k]
      <3> TAKE k \in 1..L
      <3>1. d[k] = w.buffer[Wrap(w, w.reader + k - 1)]
        BY <1>1, <1>2, <1>4, <1>5
      <3>2. CASE k = L
        <4>1. Wrap(w, w.reader + k - 1) = r.writer
          BY <1>1, <1>2, <1>5, <1>p, <1>q, <3>2
        <4> QED BY <1>1, <1>2, <2>3, <3>1, <3>2, <4>1
      <3>3. CASE k # L
        <4>1. k \in 1..(L - 1) /\ k + 1 \in 1..L
          BY <1>2, <3>3
        <4>2. /\ Wrap(w, w.reader + k - 1) = Wrap(r, r.reader + (k + 1) - 1)
              /\ Wrap(w, w.reader + k - 1) # r.writer
              /\ Wrap(w, w.reader + k - 1) \in 0..(Size - 1)
          <5>1. w.reader = TurnAt(Size, r.reader)
            BY <1>1, <1>5, <1>q
          <5>2. /\ Wrap(w, w.reader + k - 1) = WrapAt(Size, TurnAt(Size, r.reader) + k - 1)
                /\ Wrap(r, r.reader + (k + 1) - 1) = WrapAt(Size, r.reader + (k + 1) - 1)
            <6>1. w.reader + k - 1 \in Int /\ r.reader + (k + 1) - 1 \in Int
              BY <1>q, <4>1
            <6> QED BY <1>q, <5>1, <6>1
          <5>3. /\ WrapAt(Size, TurnAt(Size, r.reader) + k - 1)
                       = WrapAt(Size, r.reader + (k + 1) - 1)
                /\ WrapAt(Size, TurnAt(Size, r.reader) + k - 1) # r.writer
                /\ WrapAt(Size, TurnAt(Size, r.reader) + k - 1) \in 0..(Size - 1)
            BY <1>5, <1>p, <4>1
          <5> QED BY <5>2, <5>3
        <4>3. c[k + 1] = r.buffer[Wrap(r, r.reader + (k + 1) - 1)]
          BY <1>3, <4>1
        <4> QED BY <1>1, <1>2, <2>3, <3>1, <4>1, <4>2, <4>3
      <3> QED BY <3>2, <3>3
    <2>5. d = Append(t, b)
      BY <1>1, <1>2, <1>4, <1>5, <2>3, <2>4, SeqEqual
    <2> QED BY <1>3, <1>5, <2>5 DEF t, c, d, w
  <1>6. CASE L # Size - 1
    <2>1. /\ Append(c, b) \in Seq(Byte) /\ Len(Append(c, b)) = L + 1
          /\ \A k \in 1..L : Append(c, b)[k] = c[k]
          /\ Append(c, b)[L + 1] = b
      BY <1>2, <1>3, AppendProperties
    <2>2. \A k \in 1..(L + 1) : d[k] = Append(c, b)[k]
      <3> TAKE k \in 1..(L + 1)
      <3>1. d[k] = w.buffer[Wrap(w, w.reader + k - 1)]
        BY <1>1, <1>4, <1>6
      <3>2. CASE k = L + 1
        <4>1. Wrap(w, w.reader + k - 1) = r.writer
          BY <1>1, <1>2, <1>6, <1>p, <1>q, <3>2
        <4> QED BY <1>1, <1>2, <2>1, <3>1, <3>2, <4>1
      <3>3. CASE k # L + 1
        <4>1. k \in 1..L
          BY <1>2, <3>3
        <4>2. /\ Wrap(w, w.reader + k - 1) = Wrap(r, r.reader + k - 1)
              /\ Wrap(w, w.reader + k - 1) # r.writer
              /\ Wrap(w, w.reader + k - 1) \in 0..(Size - 1)
          BY <1>1, <1>2, <1>6, <1>p, <1>q, <4>1
        <4> DEFINE at == Wrap(w, w.reader + k - 1)
        <4>3. w.buffer[at] = r.buffer[at]
          BY <1>1, <1>2, <4>2
        <4>4. Append(c, b)[k] = c[k] /\ c[k] = r.buffer[at]
          BY <1>3, <2>1, <4>1, <4>2
        <4> QED BY <3>1, <4>3, <4>4
      <3> QED BY <3>2, <3>3
    <2>3. d = Append(c, b)
      <3>1. Len(d) = L + 1
        BY <1>1, <1>4, <1>6
      <3> QED BY <1>4, <2>1, <2>2, <3>1, SeqEqual
    <2> QED BY <1>3, <1>6, <2>3 DEF c, d, w
  <1> QED BY <1>5, <1>6

(***************************************************************************)
(* Moving one end of the data over n of its bytes.                         *)
(***************************************************************************)
LEMMA ReaderMoved ==
    ASSUME NEW r \in RingBuffer(Size, Byte), NEW n \in 0..DataLenght(r),
           NEW s \in RingBuffer(Size, Byte),
           s.buffer = r.buffer, s.writer = r.writer,
           s.reader = Wrap(r, r.reader + n)
    PROVE  Contents(s) = SubSeq(Contents(r), n + 1, Len(Contents(r)))
  <1>1. /\ DataLenght(r) \in 0..(Size - 1) /\ r.size = Size /\ s.size = Size
        /\ r.reader \in 0..(Size - 1) /\ r.writer \in 0..(Size - 1)
        /\ s.reader \in 0..(Size - 1) /\ Size \in Nat
    BY LengthRange, RingAssumption
  <1>2. DataLenght(s) = DataLenght(r) - n
    <2>1. s.reader = IF r.reader + n < Size THEN r.reader + n ELSE r.reader + n - Size
      BY <1>1 DEF Wrap
    <2>2. DataLenght(r) = IF r.writer < r.reader THEN Size - r.reader + r.writer
                          ELSE r.writer - r.reader
      BY <1>1 DEF DataLenght
    <2>3. DataLenght(s) = IF r.writer < s.reader THEN Size - s.reader + r.writer
                          ELSE r.writer - s.reader
      BY <1>1 DEF DataLenght
    <2>4. n \in Int /\ 0 <= n /\ n <= DataLenght(r)
      BY <1>1
    <2> QED BY <1>1, <2>1, <2>2, <2>3, <2>4
  <1>3. Contents(s) = Bytes(r, s.reader, DataLenght(r) - n)
    BY <1>1, <1>2 DEF Contents, Bytes, Wrap
  <1>4. Bytes(r, s.reader, DataLenght(r) - n)
           = SubSeq(Contents(r), n + 1, n + (DataLenght(r) - n))
    <2>1. DataLenght(r) - n \in 0..(DataLenght(r) - n)
      BY <1>1
    <2> QED BY <1>1, <2>1, PartOfContents
  <1>5. n + (DataLenght(r) - n) = Len(Contents(r))
    BY <1>1, ContentsSeq
  <1> QED BY <1>3, <1>4, <1>5

LEMMA WriterMoved ==
    ASSUME NEW r \in RingBuffer(Size, Byte), NEW n \in 0..DataLenght(r),
           NEW s \in RingBuffer(Size, Byte),
           s.buffer = r.buffer, s.reader = r.reader,
           s.writer = IF r.writer - n < 0 THEN r.writer - n + Size ELSE r.writer - n
    PROVE  Contents(s) = SubSeq(Contents(r), 1, Len(Contents(r)) - n)
  <1>1. /\ DataLenght(r) \in 0..(Size - 1) /\ r.size = Size /\ s.size = Size
        /\ r.reader \in 0..(Size - 1) /\ r.writer \in 0..(Size - 1)
        /\ s.writer \in 0..(Size - 1) /\ Size \in Nat
    BY LengthRange, RingAssumption
  <1>2. DataLenght(s) = DataLenght(r) - n
    <2>1. DataLenght(r) = IF r.writer < r.reader THEN Size - r.reader + r.writer
                          ELSE r.writer - r.reader
      BY <1>1 DEF DataLenght
    <2>2. DataLenght(s) = IF s.writer < r.reader THEN Size - r.reader + s.writer
                          ELSE s.writer - r.reader
      BY <1>1 DEF DataLenght
    <2>3. n \in Int /\ 0 <= n /\ n <= DataLenght(r)
      BY <1>1
    <2> QED BY <1>1, <2>1, <2>2, <2>3
  <1>3. Contents(s) = Bytes(r, r.reader, DataLenght(r) - n)
    BY <1>1, <1>2 DEF Contents, Bytes, Wrap
  <1>4. Bytes(r, r.reader, DataLenght(r) - n)
           = SubSeq(Contents(r), 0 + 1, 0 + (DataLenght(r) - n))
    <2>1. /\ 0 \in 0..DataLenght(r)
          /\ DataLenght(r) - n \in 0..(DataLenght(r) - 0)
          /\ r.reader = Wrap(r, r.reader + 0)
      BY <1>1 DEF Wrap
    <2> QED BY <1>1, <2>1, PartOfContents
  <1>5. 0 + (DataLenght(r) - n) = Len(Contents(r)) - n /\ 0 + 1 = 1
    BY <1>1, ContentsSeq
  <1> QED BY <1>3, <1>4, <1>5

(***************************************************************************)
(* One lemma for each function: the ring it leaves is a ring, and the call *)
(* is the call of the queue.                                               *)
(***************************************************************************)
FifoStep == Fifo!Next

LEMMA WriteStep ==
    ASSUME RingOK, NEW b \in Byte, RINGS_write(b)
    PROVE  RingOK' /\ FifoStep
  <1>1. ring' = Write(ring, b) /\ out' = Fifo!Did("write", <<b>>, <<>>)
    BY DEF RINGS_write, Call, Did, Fifo!Did
  <1>2. RingOK'
    BY <1>1, WriteRing DEF RingOK
  <1>3. Contents(ring)' = IF Len(Contents(ring)) = Size - 1
                          THEN Append(Tail(Contents(ring)), b)
                          ELSE Append(Contents(ring), b)
    BY <1>1, WriteContents DEF RingOK
  <1>4. Fifo!Put(b)
    BY <1>1, <1>3 DEF Fifo!Put
  <1> QED BY <1>2, <1>4 DEF FifoStep, Fifo!Next

LEMMA EmptyStep ==
    ASSUME RingOK, RINGS_readAll \/ RINGS_dataClear
    PROVE  RingOK' /\ FifoStep
  <1>1. ring' = [ring EXCEPT !.reader = ring.writer]
    BY DEF RINGS_readAll, RINGS_dataClear, Call, ReadAll, DataClear
  <1>2. RingOK'
    BY <1>1, LengthRange DEF RingOK, RingBuffer
  <1>3. Contents(ring)' = <<>>
    <2>1. DataLenght(ring') = 0
      BY <1>1, LengthRange, RingAssumption DEF RingOK, RingBuffer, DataLenght
    <2>2. Contents(ring') \in Seq(Byte) /\ Len(Contents(ring')) = 0
      BY <1>2, <2>1, ContentsSeq DEF RingOK
    <2> QED BY <2>2, EmptySeq
  <1>4. CASE RINGS_readAll
    <2>1. Fifo!TakeAll
      BY <1>3, <1>4 DEF RINGS_readAll, Call, Did, Fifo!TakeAll, Fifo!Did
    <2> QED BY <1>2, <2>1 DEF FifoStep, Fifo!Next
  <1>5. CASE RINGS_dataClear
    <2>1. Fifo!Clear
      BY <1>3, <1>5 DEF RINGS_dataClear, Call, Did, Fifo!Clear, Fifo!Did
    <2> QED BY <1>2, <2>1 DEF FifoStep, Fifo!Next
  <1> QED BY <1>4, <1>5

(***************************************************************************)
(* The other ways to clear, and the calls that keep the mutex.             *)
(***************************************************************************)
LEMMA ClearFullStep ==
    ASSUME RingOK, RINGS_dataClearFull
    PROVE  RingOK' /\ FifoStep
  <1>1. ring \in RingBuffer(Size, Byte) /\ Size \in Nat /\ Size > 1 /\ 0 \in Byte
    BY RingAssumption DEF RingOK
  <1> DEFINE zeros == [i \in DOMAIN ring.buffer |->
                          IF i < ring.size - 1 THEN 0 ELSE ring.buffer[i]]
  <1>2. zeros \in [0..(Size - 1) -> Byte]
    BY <1>1 DEF RingBuffer
  <1>3. ring' = [ring EXCEPT !.reader = 0, !.writer = 0, !.buffer = zeros]
    BY DEF RINGS_dataClearFull, Call, DataClearFull
  <1>4. RingOK' /\ ring'.reader = 0 /\ ring'.writer = 0
    <2> HIDE DEF zeros
    <2>1. 0 \in 0..(Size - 1)
      BY <1>1
    <2> QED BY <1>1, <1>2, <1>3, <2>1 DEF RingOK, RingBuffer
  <1>5. Contents(ring)' = <<>>
    <2>1. DataLenght(ring') = 0
      BY <1>4 DEF DataLenght
    <2>2. Contents(ring') \in Seq(Byte) /\ Len(Contents(ring')) = 0
      BY <1>4, <2>1, ContentsSeq DEF RingOK
    <2> QED BY <2>2, EmptySeq
  <1>6. Fifo!Clear
    BY <1>5 DEF RINGS_dataClearFull, Call, Did, Fifo!Clear, Fifo!Did
  <1> QED BY <1>4, <1>6 DEF FifoStep, Fifo!Next

LEMMA ClearBySizeStep ==
    ASSUME RingOK, NEW n \in 0..Length, ring.reader + n < Size, RINGS_dataClearBySize(n)
    PROVE  RingOK' /\ FifoStep
  <1> DEFINE c == Contents(ring)
  <1>1. /\ Len(c) = DataLenght(ring) /\ n \in 0..DataLenght(ring) /\ n \in 0..Len(c)
        /\ ring \in RingBuffer(Size, Byte) /\ ring.size = Size
        /\ ring.reader \in 0..(Size - 1) /\ n \in Nat
    BY LengthRange, ContentsSeq DEF RingOK, Length
  <1>2. /\ Counter(ring.reader + n) = ring.reader + n
        /\ ring.reader + n \in 0..(Size - 1)
        /\ Wrap(ring, ring.reader + n) = ring.reader + n
    BY <1>1, RingAssumption, CounterKeeps DEF Wrap
  <1> DEFINE at == Wrap(ring, ring.reader + n)
  <1>3. ring' = [ring EXCEPT !.reader = at] /\ at \in 0..(Size - 1)
    BY <1>2 DEF RINGS_dataClearBySize, Call, DataClearBySize
  <1> HIDE DEF at
  <1>4. /\ RingOK' /\ ring'.buffer = ring.buffer /\ ring'.writer = ring.writer
        /\ ring'.reader = at
    BY <1>1, <1>3 DEF RingOK, RingBuffer
  <1>5. Contents(ring)' = SubSeq(c, n + 1, Len(c))
    BY <1>1, <1>4, ReaderMoved DEF RingOK, at
  <1>6. Fifo!SkipFirst(n)
    BY <1>5 DEF RINGS_dataClearBySize, Call, Did, Fifo!SkipFirst, Fifo!Did
  <1> QED BY <1>1, <1>4, <1>6 DEF FifoStep, Fifo!Next

LEMMA JamStep ==
    ASSUME RingOK, NEW op \in {"start", "array"}, Jam(op)
    PROVE  RingOK' /\ FifoStep
  <1>1. ring' = ring /\ Fifo!Jam(op)
    BY DEF Jam, Did, Fifo!Jam, Fifo!Did
  <1> QED BY <1>1 DEF FifoStep, Fifo!Next, RingOK

(***************************************************************************)
(* The position of a shift, as Wrap has it.                                *)
(***************************************************************************)
LEMMA ShiftedUp ==
    ASSUME NEW r \in RingBuffer(Size, Byte), NEW n \in 0..DataLenght(r)
    PROVE  Shifted(r, r.reader, n) = Wrap(r, r.reader + n)
  <1>1. /\ r.size = Size /\ Size \in Nat /\ Size > 0 /\ r.reader + n \in Nat
        /\ r.reader + n < 2 * Size
    BY LengthRange, RingAssumption
  <1> QED BY <1>1, ModUp DEF Shifted, Wrap

LEMMA ShiftedDown ==
    ASSUME NEW r \in RingBuffer(Size, Byte), NEW n \in 0..DataLenght(r)
    PROVE  /\ Shifted(r, r.writer, -n)
                = IF r.writer - n < 0 THEN r.writer - n + Size ELSE r.writer - n
           /\ Shifted(r, r.writer, -n) \in 0..(Size - 1)
  <1>1. /\ r.size = Size /\ Size \in Nat /\ Size > 0 /\ r.writer \in 0..(Size - 1)
        /\ n \in Nat /\ n < Size /\ r.writer + -n = r.writer - n
    BY LengthRange, RingAssumption
  <1>2. CASE r.writer - n < 0
    <2>1. (r.writer - n) % Size = r.writer - n + Size
      BY <1>1, <1>2, ModDown
    <2> QED BY <1>1, <1>2, <2>1 DEF Shifted
  <1>3. CASE ~(r.writer - n < 0)
    <2>1. (r.writer - n) % Size = r.writer - n
      BY <1>1, <1>3, ModUp
    <2> QED BY <1>1, <1>3, <2>1 DEF Shifted
  <1> QED BY <1>2, <1>3

-----------------------------------------------------------------------------
(* What the parsers that keep a ring rely on, without the variables of     *)
(* Rings: SoStreamProofs and GateOutStreamProofs cite these.               *)

LEMMA RingMade ==
    ASSUME NEW junk \in [0..(Size - 1) -> Byte]
    PROVE  /\ CreateRingBuffer(Size, junk) \in RingBuffer(Size, Byte)
           /\ Contents(CreateRingBuffer(Size, junk)) = <<>>
  <1> DEFINE r == CreateRingBuffer(Size, junk)
  <1>1. r \in RingBuffer(Size, Byte) /\ DataLenght(r) = 0
    BY RingAssumption DEF CreateRingBuffer, RingBuffer, DataLenght
  <1> HIDE DEF r
  <1>2. Contents(r) = <<>>
    BY <1>1, ContentsSeq, EmptySeq
  <1> QED BY <1>1, <1>2 DEF r

LEMMA ByteAdded ==
    ASSUME NEW r \in RingBuffer(Size, Byte), NEW b \in Byte
    PROVE  /\ Write(r, b) \in RingBuffer(Size, Byte)
           /\ Contents(Write(r, b)) =
                 IF Len(Contents(r)) = Size - 1 THEN Append(Tail(Contents(r)), b)
                                                ELSE Append(Contents(r), b)
  BY WriteRing, WriteContents

LEMMA RingEmptied ==
    ASSUME NEW r \in RingBuffer(Size, Byte)
    PROVE  /\ DataClear(r) \in RingBuffer(Size, Byte) /\ ReadAll(r) = DataClear(r)
           /\ Contents(DataClear(r)) = <<>>
  <1> DEFINE s == DataClear(r)
  <1>1. s \in RingBuffer(Size, Byte) /\ s = ReadAll(r)
    BY DEF DataClear, ReadAll, RingBuffer
  <1>2. DataLenght(s) = 0
    BY LengthRange DEF DataClear, DataLenght, RingBuffer
  <1> HIDE DEF s
  <1>3. Contents(s) = <<>>
    BY <1>1, <1>2, ContentsSeq, EmptySeq
  <1> QED BY <1>1, <1>3 DEF s

LEMMA ReaderShifted ==
    ASSUME NEW r \in RingBuffer(Size, Byte), NEW n \in 0..DataLenght(r)
    PROVE  /\ ShiftReader(r, n) \in RingBuffer(Size, Byte)
           /\ Contents(ShiftReader(r, n)) = SubSeq(Contents(r), n + 1, Len(Contents(r)))
  <1> DEFINE s == ShiftReader(r, n)
  <1>1. s = [r EXCEPT !.reader = Wrap(r, r.reader + n)]
    BY ShiftedUp DEF ShiftReader
  <1>2. Wrap(r, r.reader + n) \in 0..(Size - 1)
    BY LengthRange, RingAssumption DEF Wrap
  <1>3. /\ s \in RingBuffer(Size, Byte)
        /\ s.buffer = r.buffer /\ s.writer = r.writer
        /\ s.reader = Wrap(r, r.reader + n)
    BY <1>1, <1>2 DEF RingBuffer
  <1> HIDE DEF s
  <1>4. Contents(s) = SubSeq(Contents(r), n + 1, Len(Contents(r)))
    BY <1>3, ReaderMoved
  <1> QED BY <1>3, <1>4 DEF s

(***************************************************************************)
(* A part of the data, found by its distance from the reader.  To compare  *)
(* it a counter must hold the sum of the two.                              *)
(***************************************************************************)
LEMMA PartFound ==
    ASSUME NEW r \in RingBuffer(Size, Byte),
           NEW off \in 0..DataLenght(r), NEW n \in 0..(DataLenght(r) - off)
    PROVE  /\ r.reader + off < CounterSize =>
                 \A data : Len(data) = n =>
                    (CmpData(r, off, data) <=>
                        SubSeq(Contents(r), off + 1, off + n) = data)
           /\ ExtractData(r, r.reader + off, n) = SubSeq(Contents(r), off + 1, off + n)
  <1> DEFINE p == Wrap(r, r.reader + off)
  <1>1. /\ DataLenght(r) \in 0..(Size - 1) /\ r.size = Size /\ Size \in Nat
        /\ r.reader \in 0..(Size - 1)
    BY LengthRange, RingAssumption
  <1>2. /\ p = IF r.reader + off > r.size - 1 THEN r.reader + off - r.size
               ELSE r.reader + off
        /\ p = RealPosition(r, r.reader + off)
        /\ p \in 0..(Size - 1)
    BY <1>1 DEF Wrap, RealPosition
  <1>3. Bytes(r, p, n) = SubSeq(Contents(r), off + 1, off + n)
    BY <1>2, PartOfContents
  <1>4. r.reader + off < CounterSize => Counter(r.reader + off) = r.reader + off
    BY <1>1, CounterKeeps, RingAssumption
  <1> HIDE DEF p
  <1>5. ASSUME r.reader + off < CounterSize, NEW data, Len(data) = n
        PROVE  CmpData(r, off, data) <=> SubSeq(Contents(r), off + 1, off + n) = data
    <2>1. Counter(r.reader + off) = r.reader + off
      BY <1>4, <1>5
    <2> DEFINE ptr == Counter(r.reader + off)
               q   == IF ptr > r.size - 1 THEN ptr - r.size ELSE ptr
    <2>2. CmpData(r, off, data) <=> Bytes(r, q, Len(data)) = data
      BY DEF CmpData
    <2> HIDE DEF ptr
    <2>3. q = p
      <3>1. ptr = r.reader + off
        BY <2>1 DEF ptr
      <3> QED BY <1>1, <1>2, <3>1
    <2> HIDE DEF q
    <2> QED BY <1>3, <1>5, <2>2, <2>3
  <1>6. ExtractData(r, r.reader + off, n) = SubSeq(Contents(r), off + 1, off + n)
    BY <1>2, <1>3 DEF ExtractData
  <1> QED BY <1>5, <1>6

LEMMA ShiftStep ==
    ASSUME RingOK, NEW n \in 0..Length, RINGS_shiftReader(n) \/ RINGS_shiftWriter(-n)
    PROVE  RingOK' /\ FifoStep
  <1> DEFINE c == Contents(ring)
  <1>1. /\ DataLenght(ring) \in 0..(Size - 1) /\ Len(c) = DataLenght(ring)
        /\ n \in 0..DataLenght(ring) /\ n \in 0..Len(c)
        /\ ring \in RingBuffer(Size, Byte) /\ ring.size = Size
    BY LengthRange, ContentsSeq DEF RingOK, Length
  <1>2. CASE RINGS_shiftReader(n)
    <2>1. ring' = [ring EXCEPT !.reader = Wrap(ring, ring.reader + n)]
      BY <1>1, <1>2, ShiftedUp DEF RINGS_shiftReader, Call, ShiftReader
    <2>2. Wrap(ring, ring.reader + n) \in 0..(Size - 1)
      BY <1>1, LengthRange, RingAssumption DEF Wrap
    <2>3. /\ RingOK' /\ ring'.buffer = ring.buffer /\ ring'.writer = ring.writer
          /\ ring'.reader = Wrap(ring, ring.reader + n)
      BY <1>1, <2>1, <2>2 DEF RingOK, RingBuffer
    <2>4. Contents(ring)' = SubSeq(c, n + 1, Len(c))
      BY <1>1, <2>3, ReaderMoved DEF RingOK
    <2>5. Fifo!SkipFirst(n)
      BY <1>2, <2>4 DEF RINGS_shiftReader, Call, Did, Fifo!SkipFirst, Fifo!Did
    <2> QED BY <1>1, <2>3, <2>5 DEF FifoStep, Fifo!Next
  <1>3. CASE RINGS_shiftWriter(-n)
    <2>1. /\ ring' = [ring EXCEPT !.writer = Shifted(ring, ring.writer, -n)]
          /\ Shifted(ring, ring.writer, -n) \in 0..(Size - 1)
          /\ Shifted(ring, ring.writer, -n) = IF ring.writer - n < 0
                THEN ring.writer - n + Size ELSE ring.writer - n
      BY <1>1, <1>3, ShiftedDown DEF RINGS_shiftWriter, Call, ShiftWriter
    <2>2. /\ RingOK' /\ ring'.buffer = ring.buffer /\ ring'.reader = ring.reader
          /\ ring'.writer = IF ring.writer - n < 0 THEN ring.writer - n + Size
                            ELSE ring.writer - n
      BY <1>1, <2>1 DEF RingOK, RingBuffer
    <2>3. Contents(ring)' = SubSeq(c, 1, Len(c) - n)
      BY <1>1, <2>2, WriterMoved DEF RingOK
    <2>4. Fifo!SkipLast(n)
      BY <1>3, <2>3 DEF RINGS_shiftWriter, Call, Did, Fifo!SkipLast, Fifo!Did
    <2> QED BY <1>1, <2>2, <2>4 DEF FifoStep, Fifo!Next
  <1> QED BY <1>2, <1>3

LEMMA ReadStep ==
    ASSUME RingOK, Length > 0, RINGS_read
    PROVE  RingOK' /\ FifoStep
  <1> DEFINE c == Contents(ring)
  <1>1. /\ DataLenght(ring) \in 1..(Size - 1) /\ Len(c) = DataLenght(ring)
        /\ c \in Seq(Byte) /\ ring \in RingBuffer(Size, Byte) /\ ring.size = Size
        /\ ring.reader \in 0..(Size - 1) /\ ring.reader # ring.writer
    BY LengthRange, ContentsSeq DEF RingOK, Length, DataLenght
  <1>2. ring' = [ring EXCEPT !.reader = Wrap(ring, ring.reader + 1)]
    BY <1>1, RingAssumption DEF RINGS_read, Call, Read, Wrap
  <1>3. Wrap(ring, ring.reader + 1) \in 0..(Size - 1)
    BY <1>1, RingAssumption DEF Wrap
  <1>4. /\ RingOK' /\ ring'.buffer = ring.buffer /\ ring'.writer = ring.writer
        /\ ring'.reader = Wrap(ring, ring.reader + 1)
    BY <1>1, <1>2, <1>3 DEF RingOK, RingBuffer
  <1>5. Contents(ring)' = SubSeq(c, 2, Len(c))
    <2>1. 1 \in 0..DataLenght(ring) /\ 1 + 1 = 2
      BY <1>1
    <2> QED BY <1>1, <1>4, <2>1, ReaderMoved DEF RingOK
  <1>6. c # <<>> /\ c[1] = ring.buffer[ring.reader]
    <2>1. c[1] = ring.buffer[Wrap(ring, ring.reader + 1 - 1)]
      BY <1>1, ContentsSeq
    <2>2. Wrap(ring, ring.reader + 1 - 1) = ring.reader
      BY <1>1, RingAssumption DEF Wrap
    <2> QED BY <1>1, <2>1, <2>2, EmptySeq
  <1>7. Contents(ring)' = Tail(c)
    BY <1>1, <1>5, <1>6, TailIsSubSeq
  <1>8. Fifo!Get
    BY <1>6, <1>7 DEF RINGS_read, Call, Did, Fifo!Get, Fifo!Did
  <1> QED BY <1>4, <1>8 DEF FifoStep, Fifo!Next

(***************************************************************************)
(* The questions: the bytes the ring answers with are those of the queue.  *)
(***************************************************************************)
LEMMA OneByte ==
    ASSUME NEW s \in Seq(Byte), NEW i \in 1..Len(s)
    PROVE  SubSeq(s, i, i + 1 - 1) = <<s[i]>>
  <1>1. \A j \in i..i : s[j] \in Byte
    BY ElementOfSeq
  <1>2. i + 1 - 1 = i /\ i \in Int
    BY LenProperties
  <1>3. /\ SubSeq(s, i, i) \in Seq(Byte)
        /\ Len(SubSeq(s, i, i)) = IF i <= i THEN i - i + 1 ELSE 0
        /\ \A j \in 1..(i - i + 1) : SubSeq(s, i, i)[j] = s[i + j - 1]
    BY <1>1, <1>2, SubSeqProperties
  <1> DEFINE t == SubSeq(s, i, i)
  <1>4. t \in Seq(Byte) /\ Len(t) = 1 /\ t[1] = s[i]
    BY <1>2, <1>3
  <1> HIDE DEF t
  <1>5. t = <<s[i]>>
    <2>1. s[i] \in Byte
      BY ElementOfSeq
    <2>2. <<s[i]>> \in Seq(Byte) /\ Len(<<s[i]>>) = 1 /\ <<s[i]>>[1] = s[i]
      BY <2>1
    <2>3. \A j \in 1..Len(t) : t[j] = <<s[i]>>[j]
      BY <1>4, <2>2
    <2> QED BY <1>4, <2>2, <2>3, SeqEqual
  <1> QED BY <1>2, <1>5 DEF t

LEMMA BackFromWriter ==
    ASSUME NEW S \in Nat, NEW rd \in 0..(S - 1), NEW wr \in 0..(S - 1),
           NEW n \in 0..(Turned(S, rd, wr) - 1)
    PROVE  (IF wr - (n + 1) < 0 THEN wr - (n + 1) + S ELSE wr - (n + 1))
              = WrapAt(S, rd + (Turned(S, rd, wr) - n) - 1)
  BY DEF Turned, WrapAt

LEMMA ByShiftStep ==
    ASSUME RingOK, NEW n \in 0..(Length - 1),
           \/ RINGS_getByShiftFromReader(n)
           \/ RINGS_getByShiftFromWriter(-n - 1)
    PROVE  RingOK' /\ FifoStep
  <1> DEFINE c == Contents(ring)
             L == DataLenght(ring)
  <1>1. /\ L \in 1..(Size - 1) /\ Len(c) = L /\ n \in 0..(L - 1)
        /\ c \in Seq(Byte) /\ ring \in RingBuffer(Size, Byte) /\ ring.size = Size
        /\ ring.reader \in 0..(Size - 1) /\ ring.writer \in 0..(Size - 1)
        /\ Size \in Nat
    BY LengthRange, ContentsSeq, RingAssumption DEF RingOK, Length
  <1>2. ring' = ring /\ RingOK'
    BY DEF RINGS_getByShiftFromReader, RINGS_getByShiftFromWriter, Call, RingOK
  <1>3. CASE RINGS_getByShiftFromReader(n)
    <2>1. n + 1 \in 1..L /\ n \in 0..L /\ 1 \in 0..(Len(c) - (n + 1) + 1)
      BY <1>1
    <2>2. Shifted(ring, ring.reader, n) = Wrap(ring, ring.reader + (n + 1) - 1)
      BY <1>1, <2>1, ShiftedUp DEF Wrap
    <2>3. GetByShiftFromReader(ring, n) = c[n + 1]
      BY <1>1, <2>1, <2>2, ContentsSeq DEF GetByShiftFromReader
    <2>4. SubSeq(c, n + 1, (n + 1) + 1 - 1) = <<c[n + 1]>>
      BY <1>1, <2>1, OneByte
    <2>5. Fifo!Look("byReader", <<(n + 1) - 1>>, n + 1, 1)
      BY <1>2, <1>3, <2>3, <2>4
      DEF RINGS_getByShiftFromReader, Call, Did, Fifo!Look, Fifo!Did
    <2> QED BY <1>1, <1>2, <2>1, <2>5 DEF FifoStep, Fifo!Next
  <1>4. CASE RINGS_getByShiftFromWriter(-n - 1)
    <2>1. /\ L - n \in 1..L /\ n + 1 \in 0..L /\ -n - 1 = -(n + 1)
          /\ 1 \in 0..(Len(c) - (L - n) + 1)
      BY <1>1
    <2>2. Shifted(ring, ring.writer, -(n + 1)) = Wrap(ring, ring.reader + (L - n) - 1)
      <3>1. Shifted(ring, ring.writer, -(n + 1)) =
               IF ring.writer - (n + 1) < 0 THEN ring.writer - (n + 1) + Size
               ELSE ring.writer - (n + 1)
        BY <1>1, <2>1, ShiftedDown
      <3>2. L = Turned(Size, ring.reader, ring.writer)
        BY <1>1 DEF DataLenght, Turned
      <3> HIDE DEF L
      <3>3. (IF ring.writer - (n + 1) < 0 THEN ring.writer - (n + 1) + Size
             ELSE ring.writer - (n + 1))
               = WrapAt(Size, ring.reader + (L - n) - 1)
        BY <1>1, <3>2, BackFromWriter
      <3> QED BY <1>1, <3>1, <3>3 DEF Wrap, WrapAt
    <2>3. GetByShiftFromWriter(ring, -n - 1) = c[L - n]
      <3>1. c[L - n] = ring.buffer[Wrap(ring, ring.reader + (L - n) - 1)]
        BY <1>1, <2>1, ContentsSeq
      <3> QED BY <2>1, <2>2, <3>1 DEF GetByShiftFromWriter
    <2>4. SubSeq(c, L - n, (L - n) + 1 - 1) = <<c[L - n]>>
      BY <1>1, <2>1, OneByte
    <2>5. Fifo!Look("byWriter", <<(L - n) - 1 - Len(c)>>, L - n, 1)
      <3>1. (L - n) - 1 - Len(c) = -n - 1
        BY <1>1
      <3> QED BY <1>2, <1>4, <2>3, <2>4, <3>1
      DEF RINGS_getByShiftFromWriter, Call, Did, Fifo!Look, Fifo!Did
    <2> QED BY <1>1, <1>2, <2>1, <2>5 DEF FifoStep, Fifo!Next
  <1> QED BY <1>3, <1>4

LEMMA PartStep ==
    ASSUME RingOK, NEW off \in 0..(Length - 1), NEW n \in 0..(Length - off),
           \/ RINGS_extractData(off, n)
           \/ CountersFit /\ \E data \in [1..n -> Byte] : RINGS_cmpData(off, data)
    PROVE  RingOK' /\ FifoStep
  <1> DEFINE c == Contents(ring)
             L == DataLenght(ring)
             p == Wrap(ring, ring.reader + off)
  <1>1. /\ L \in 1..(Size - 1) /\ Len(c) = L
        /\ off \in 0..(L - 1) /\ off \in 0..L /\ n \in 0..(L - off)
        /\ ring \in RingBuffer(Size, Byte) /\ ring.size = Size
        /\ ring.reader \in 0..(Size - 1) /\ Size \in Nat
        /\ off \in 0..(Len(c) - 1) /\ n \in 0..(Len(c) - off)
    BY LengthRange, ContentsSeq, RingAssumption DEF RingOK, Length
  <1>2. p \in 0..(Size - 1)
    BY <1>1 DEF Wrap
  <1>3. Bytes(ring, p, n) = SubSeq(c, off + 1, off + n)
    BY <1>1, <1>2, PartOfContents
  <1>4. ring' = ring /\ RingOK'
    BY DEF RINGS_extractData, RINGS_cmpData, Call, RingOK
  <1>5. CASE RINGS_extractData(off, n)
    <2>1. RealPosition(ring, ring.reader + off) = p
      BY <1>1 DEF RealPosition, Wrap
    <2>2. Fifo!Look("extract", <<off, n>>, off + 1, n)
      <3>1. (off + 1) + n - 1 = off + n
        BY <1>1
      <3> QED BY <1>3, <1>4, <1>5, <2>1, <3>1
      DEF RINGS_extractData, ExtractData, Call, Did, Fifo!Look, Fifo!Did
    <2> QED BY <1>1, <1>4, <2>2 DEF FifoStep, Fifo!Next
  <1>6. CASE CountersFit /\ \E data \in [1..n -> Byte] : RINGS_cmpData(off, data)
    <2>1. PICK data \in [1..n -> Byte] : RINGS_cmpData(off, data)
      BY <1>6
    <2>2. Len(data) = n
      BY <1>1
    <2>3. CmpData(ring, off, data) <=> SubSeq(c, off + 1, off + n) = data
      <3>1. ring.reader + off < CounterSize
        BY <1>1, <1>6, RingAssumption DEF CountersFit
      <3>2. \A z : Len(z) = n =>
                (CmpData(ring, off, z) <=> SubSeq(c, off + 1, off + n) = z)
        <4>1. /\ ring \in RingBuffer(Size, Byte) /\ off \in 0..DataLenght(ring)
              /\ n \in 0..(DataLenght(ring) - off)
          BY <1>1
        <4> HIDE DEF p, c, L
        <4>2. \A z : Len(z) = n =>
                 (CmpData(ring, off, z) <=>
                     SubSeq(Contents(ring), off + 1, off + n) = z)
          BY <3>1, <4>1, PartFound
        <4> QED BY <4>2 DEF c
      <3> QED BY <2>2, <3>2
    <2>4. Fifo!Compare(off, data)
      BY <1>4, <2>1, <2>2, <2>3 DEF RINGS_cmpData, Call, Did, Fifo!Compare, Fifo!Did
    <2> QED BY <1>1, <1>4, <2>1, <2>4 DEF FifoStep, Fifo!Next
  <1> QED BY <1>5, <1>6

LEMMA RangeStep ==
    ASSUME RingOK, NEW n \in 1..Length, RINGS_readStringInRange(n)
    PROVE  RingOK' /\ FifoStep
  <1> DEFINE c == Contents(ring)
             L == DataLenght(ring)
  <1>1. /\ L \in 1..(Size - 1) /\ Len(c) = L
        /\ 0 \in 0..L /\ n \in 0..(L - 0)
        /\ ring \in RingBuffer(Size, Byte)
        /\ ring.reader \in 0..(Size - 1) /\ ring.reader = Wrap(ring, ring.reader + 0)
        /\ n \in 1..Len(c)
    BY LengthRange, ContentsSeq, RingAssumption DEF RingOK, Length, Wrap
  <1>2. Bytes(ring, ring.reader, n) = SubSeq(c, 1, 1 + n - 1)
    <2>1. 1 + n - 1 = 0 + n /\ 0 + 1 = 1
      BY <1>1
    <2> QED BY <1>1, <2>1, PartOfContents
  <1>3. ring' = ring /\ RingOK'
    BY DEF RINGS_readStringInRange, Call, RingOK
  <1>4. Fifo!Look("range", <<n>>, 1, n)
    BY <1>2, <1>3 DEF RINGS_readStringInRange, Call, Did, Fifo!Look, Fifo!Did
  <1> QED BY <1>1, <1>3, <1>4 DEF FifoStep, Fifo!Next

(***************************************************************************)
(* Every step is one of the queue, but for a comparison whose sum no       *)
(* counter holds, which hands out no bytes.                                *)
(***************************************************************************)
LEMMA NextStep ==
    ASSUME RingOK, Next
    PROVE  /\ RingOK'
           /\ FifoStep \/ (~CountersFit /\ out'.bytes = <<>>)
  <1>1. ASSUME NEW b \in Byte, RINGS_write(b) \/ RINGS_writeArray(<<b>>)
        PROVE  RingOK' /\ FifoStep
    <2>1. CASE RINGS_write(b)
      BY <2>1, WriteStep
    <2>2. CASE RINGS_writeArray(<<b>>)
      BY <2>2, JamStep DEF RINGS_writeArray
    <2> QED BY <1>1, <2>1, <2>2
  <1>2. CASE RINGS_readAll \/ RINGS_dataClear
    BY <1>2, EmptyStep
  <1>3. CASE Length > 0 /\ RINGS_read
    BY <1>3, ReadStep
  <1>4. ASSUME NEW n \in 0..Length,
               \/ RINGS_shiftReader(n)
               \/ RINGS_shiftWriter(-n)
               \/ ring.reader + n < Size /\ RINGS_dataClearBySize(n)
        PROVE  RingOK' /\ FifoStep
    BY <1>4, ShiftStep, ClearBySizeStep
  <1>5. ASSUME NEW n \in 0..(Length - 1),
               \/ RINGS_getByShiftFromReader(n)
               \/ RINGS_getByShiftFromWriter(-n - 1)
        PROVE  RingOK' /\ FifoStep
    BY <1>5, ByShiftStep
  <1>6. ASSUME NEW off \in 0..(Length - 1), NEW n \in 0..MaxData,
               NEW data \in [1..n -> Byte], off + n <= Length, RINGS_cmpData(off, data)
        PROVE  RingOK' /\ (FifoStep \/ (~CountersFit /\ out'.bytes = <<>>))
    <2>1. n \in 0..(Length - off)
      BY <1>6, RingAssumption, LengthRange DEF Length, RingOK
    <2>2. CASE CountersFit
      BY <1>6, <2>1, <2>2, PartStep
    <2>3. CASE ~CountersFit
      BY <1>6, <2>3 DEF RINGS_cmpData, Call, Did, RingOK
    <2> QED BY <2>2, <2>3
  <1>7. ASSUME NEW off \in 0..(Length - 1), NEW n \in 0..(Length - off),
               RINGS_extractData(off, n)
        PROVE  RingOK' /\ FifoStep
    BY <1>7, PartStep
  <1>8. ASSUME NEW n \in 1..Length, RINGS_readStringInRange(n)
        PROVE  RingOK' /\ FifoStep
    BY <1>8, RangeStep
  <1>9. CASE RINGS_dataClearFull
    BY <1>9, ClearFullStep
  <1>10. CASE RINGS_dataStart
    BY <1>10, JamStep DEF RINGS_dataStart
  <1> QED BY <1>1, <1>2, <1>3, <1>4, <1>5, <1>6, <1>7, <1>8, <1>9, <1>10 DEF Next

(***************************************************************************)
(* The ring of rings.c is the queue it stands for, whatever its bytes and  *)
(* what malloc left in its buffer, when it is at most half as large as a   *)
(* counter can count, as those of gate_out.c and core.c are.               *)
(***************************************************************************)
THEOREM RingIsFifo == ASSUME CountersFit PROVE Spec => IsFifo
  <1>1. Init => RingOK /\ Fifo!Init
    <2> SUFFICES ASSUME Init PROVE RingOK /\ Fifo!Init
      OBVIOUS
    <2>1. PICK junk \in [0..(Size - 1) -> Byte] : ring = CreateRingBuffer(Size, junk)
      BY DEF Init
    <2>2. RingOK
      BY <2>1, RingAssumption DEF CreateRingBuffer, RingOK, RingBuffer
    <2>3. DataLenght(ring) = 0
      BY <2>1 DEF CreateRingBuffer, DataLenght
    <2>4. Contents(ring) \in Seq(Byte) /\ Len(Contents(ring)) = 0
      BY <2>2, <2>3, ContentsSeq DEF RingOK
    <2>5. Contents(ring) = <<>>
      BY <2>4, EmptySeq
    <2> QED BY <2>2, <2>5 DEF Init, Did, Fifo!Init, Fifo!Did
  <1>2. RingOK /\ [Next]_vars => RingOK' /\ [Fifo!Next]_(Fifo!vars)
    <2> SUFFICES ASSUME RingOK, [Next]_vars
                 PROVE  RingOK' /\ [Fifo!Next]_(Fifo!vars)
      OBVIOUS
    <2>1. CASE Next
      BY <2>1, NextStep DEF FifoStep
    <2>2. CASE UNCHANGED vars
      BY <2>2 DEF vars, RingOK, Fifo!vars
    <2> QED BY <2>1, <2>2
  <1> QED BY <1>1, <1>2, PTL DEF Spec, IsFifo, Fifo!Spec

(***************************************************************************)
(* What a call hands out are bytes.                                        *)
(***************************************************************************)
LEMMA AnswersAreBytes ==
    ASSUME NEW c \in Seq(Byte), c = Contents(ring), FifoStep
    PROVE  out'.bytes \in Seq(Byte)
  <1> USE DEF Fifo!Did
  <1>0. <<>> \in Seq(Byte)
    OBVIOUS
  <1>1. ASSUME NEW b \in Byte, Fifo!Put(b) PROVE out'.bytes \in Seq(Byte)
    BY <1>0, <1>1 DEF Fifo!Put
  <1>2. CASE Fifo!Get
    <2>1. c # <<>> /\ out'.bytes = <<c[1]>>
      BY <1>2 DEF Fifo!Get
    <2>2. c[1] \in Byte
      BY <2>1, EmptySeq, ElementOfSeq
    <2> QED BY <2>1, <2>2
  <1>3. CASE Fifo!TakeAll
    <2>1. out'.bytes = c
      BY <1>3 DEF Fifo!TakeAll
    <2> QED BY <2>1
  <1>4. ASSUME NEW op, NEW args, out' = Fifo!Did(op, args, <<>>) PROVE out'.bytes \in Seq(Byte)
    BY <1>0, <1>4
  <1>5. CASE Fifo!Clear
    BY <1>4, <1>5 DEF Fifo!Clear
  <1>6. ASSUME NEW op, Fifo!Jam(op) PROVE out'.bytes \in Seq(Byte)
    BY <1>4, <1>6 DEF Fifo!Jam
  <1>7. ASSUME NEW n, Fifo!SkipFirst(n) \/ Fifo!SkipLast(n) PROVE out'.bytes \in Seq(Byte)
    BY <1>4, <1>7 DEF Fifo!SkipFirst, Fifo!SkipLast
  <1>8. ASSUME NEW op, NEW args, NEW first \in 1..Len(c), NEW n \in 0..(Len(c) - first + 1),
               Fifo!Look(op, args, first, n)
        PROVE  out'.bytes \in Seq(Byte)
    <2>1. out'.bytes = SubSeq(c, first, first + n - 1)
      BY <1>8 DEF Fifo!Look
    <2>2. Len(c) \in Nat /\ first \in Int /\ first + n - 1 \in Int
      OBVIOUS
    <2>3. \A i \in first..(first + n - 1) : i \in 1..Len(c)
      BY <2>2
    <2>4. \A i \in first..(first + n - 1) : c[i] \in Byte
      BY <2>3, ElementOfSeq
    <2> QED BY <2>1, <2>2, <2>4, SubSeqProperties
  <1>9. ASSUME NEW first, NEW data, Fifo!Compare(first, data) PROVE out'.bytes \in Seq(Byte)
    BY <1>0, <1>9 DEF Fifo!Compare
  <1>10. ASSUME NEW i \in 1..Len(c),
                \/ Fifo!Look("byReader", <<i - 1>>, i, 1)
                \/ Fifo!Look("byWriter", <<i - 1 - Len(c)>>, i, 1)
         PROVE  out'.bytes \in Seq(Byte)
    <2>1. 1 \in 0..(Len(c) - i + 1)
      BY LenProperties
    <2> QED BY <1>8, <1>10, <2>1
  <1>11. ASSUME NEW n \in 1..Len(c), Fifo!Look("range", <<n>>, 1, n)
         PROVE  out'.bytes \in Seq(Byte)
    <2>1. 1 \in 1..Len(c) /\ n \in 0..(Len(c) - 1 + 1)
      BY LenProperties
    <2> QED BY <1>8, <1>11, <2>1
  <1>12. ASSUME NEW off \in 0..(Len(c) - 1), NEW n \in 0..(Len(c) - off),
                Fifo!Look("extract", <<off, n>>, off + 1, n)
         PROVE  out'.bytes \in Seq(Byte)
    <2>1. off + 1 \in 1..Len(c) /\ n \in 0..(Len(c) - (off + 1) + 1)
      BY LenProperties
    <2> QED BY <1>8, <1>12, <2>1
  <1> QED BY <1>1, <1>2, <1>3, <1>5, <1>6, <1>7, <1>9, <1>10, <1>11, <1>12
          DEF FifoStep, Fifo!Next

(***************************************************************************)
(* Every variable has its shape.                                           *)
(***************************************************************************)
THEOREM TypeCorrect == Spec => []TypeOK
  <1>1. Init => TypeOK
    <2> SUFFICES ASSUME Init PROVE TypeOK
      OBVIOUS
    <2>1. PICK junk \in [0..(Size - 1) -> Byte] : ring = CreateRingBuffer(Size, junk)
      BY DEF Init
    <2>2. ring \in RingBuffer(Size, Byte)
      BY <2>1, RingAssumption DEF CreateRingBuffer, RingBuffer
    <2> QED BY <2>2 DEF Init, TypeOK, Did
  <1>2. TypeOK /\ [Next]_vars => TypeOK'
    <2> SUFFICES ASSUME TypeOK, [Next]_vars PROVE TypeOK'
      OBVIOUS
    <2>1. CASE Next
      <3>1. RingOK /\ Contents(ring) \in Seq(Byte)
        BY ContentsSeq DEF TypeOK, RingOK
      <3>2. RingOK' /\ out'.bytes \in Seq(Byte)
        <4>1. RingOK' /\ (FifoStep \/ out'.bytes = <<>>)
          BY <2>1, <3>1, NextStep
        <4>2. CASE FifoStep
          BY <3>1, <4>1, <4>2, AnswersAreBytes
        <4>3. CASE out'.bytes = <<>>
          BY <4>1, <4>3
        <4> QED BY <4>1, <4>2, <4>3
      <3>3. mutex' \in {"free", "taken"}
        BY <2>1 DEF TypeOK, Next, Call, Jam, RINGS_write, RINGS_readAll, RINGS_dataClear,
             RINGS_shiftReader, RINGS_shiftWriter, RINGS_read, RINGS_getByShiftFromReader,
             RINGS_getByShiftFromWriter, RINGS_cmpData, RINGS_extractData,
             RINGS_readStringInRange, RINGS_dataClearFull, RINGS_dataClearBySize,
             RINGS_dataStart, RINGS_writeArray
      <3> QED BY <3>2, <3>3 DEF TypeOK, RingOK
    <2>2. CASE UNCHANGED vars
      BY <2>2 DEF vars, TypeOK
    <2> QED BY <2>1, <2>2
  <1> QED BY <1>1, <1>2, PTL DEF Spec
=============================================================================
