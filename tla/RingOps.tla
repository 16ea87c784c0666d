------------------------------ MODULE RingOps ------------------------------
(***************************************************************************)
(* The operations of libs/collections/src/rings.c on the definition of a   *)
(* ring: a buffer of size bytes, the position reader of the oldest unread  *)
(* byte and the position writer the next byte goes to.  The ring is empty  *)
(* when the two meet, so it holds at most size - 1 bytes.  Each operator    *)
(* stands for the body of one function, between the lock and the unlock.   *)
(***************************************************************************)
EXTENDS Integers, Sequences

CONSTANT CounterSize   \* the values of a uint16_t: 65536 in the code

(***************************************************************************)
(* What is left of a sum that is kept in a uint16_t.                       *)
(***************************************************************************)
Counter(n) == n % CounterSize

RingBuffer(size, B) ==
    [buffer : [0..(size - 1) -> B], reader : 0..(size - 1),
     writer : 0..(size - 1), size : {size}]

(***************************************************************************)
(* malloc does not clear the buffer: junk is what it finds there.          *)
(***************************************************************************)
CreateRingBuffer(size, junk) ==
    [buffer |-> junk, reader |-> 0, writer |-> 0, size |-> size]

(***************************************************************************)
(* The position after i.  BadSucc does not turn over at the end.           *)
(***************************************************************************)
BadSucc(r, i) == i + 1

Succ(r, i) == IF i = r.size - 1 THEN 0 ELSE i + 1

(***************************************************************************)
(* The byte n places after (or before, n < 0) position i.                  *)
(***************************************************************************)
Shifted(r, i, n) == (i + n) % r.size

DataLenght(r) ==
    IF r.writer < r.reader THEN r.size - r.reader + r.writer
                           ELSE r.writer - r.reader

(***************************************************************************)
(* A position at most one turn after the start of the buffer.              *)
(***************************************************************************)
Wrap(r, p) == IF p < r.size THEN p ELSE p - r.size

(***************************************************************************)
(* n bytes from position p on.                                             *)
(***************************************************************************)
Bytes(r, p, n) == [k \in 1..n |-> r.buffer[Wrap(r, p + k - 1)]]

(***************************************************************************)
(* What RINGS_readAll copies, and the ring it leaves.                      *)
(***************************************************************************)
Contents(r) == Bytes(r, r.reader, DataLenght(r))
ReadAll(r)  == [r EXCEPT !.reader = r.writer]

(***************************************************************************)
(* RINGS_write under RINGS_OVERFLOW_SHIFT, the only policy there is: the   *)
(* writer that is about to meet the reader pushes it one byte on.          *)
(* BadWrite forgets to push it at the wrap of the buffer.                  *)
(***************************************************************************)
BadWrite(r, b) ==
    [buffer |-> [r.buffer EXCEPT ![r.writer] = b],
     reader |-> IF r.writer # r.size - 1 /\ Succ(r, r.writer) = r.reader
                THEN Succ(r, r.reader) ELSE r.reader,
     writer |-> Succ(r, r.writer),
     size   |-> r.size]

Write(r, b) ==
    [buffer |-> [r.buffer EXCEPT ![r.writer] = b],
     reader |-> IF Succ(r, r.writer) = r.reader
                THEN Succ(r, r.reader) ELSE r.reader,
     writer |-> Succ(r, r.writer),
     size   |-> r.size]

(***************************************************************************)
(* RINGS_read turns the reader over at the end of the buffer before it     *)
(* asks whether there is anything to read.                                 *)
(***************************************************************************)
Read(r) ==
    [r EXCEPT !.reader = IF r.reader = r.size - 1 THEN 0
                         ELSE IF r.reader # r.writer THEN r.reader + 1
                         ELSE r.reader]

DataClear(r)      == [r EXCEPT !.reader = r.writer]
ShiftReader(r, n) == [r EXCEPT !.reader = Shifted(r, r.reader, n)]
ShiftWriter(r, n) == [r EXCEPT !.writer = Shifted(r, r.writer, n)]

GetByShiftFromReader(r, n) == r.buffer[Shifted(r, r.reader, n)]
GetByShiftFromWriter(r, n) == r.buffer[Shifted(r, r.writer, n)]

(***************************************************************************)
(* RINGS_cmpData: are the bytes off places after the reader those of data? *)
(* The sum is cut to the width of a counter before it is asked whether it   *)
(* lies past the end of the buffer.                                        *)
(***************************************************************************)
CmpData(r, off, data) ==
    LET ptr == Counter(r.reader + off)
    IN  Bytes(r, IF ptr > r.size - 1 THEN ptr - r.size ELSE ptr, Len(data)) = data

(***************************************************************************)
(* RINGS_extractData: the bytes from a position that may lie up to one     *)
(* turn before or after the buffer.                                        *)
(***************************************************************************)
RealPosition(r, p) ==
    IF p > r.size - 1 THEN p - r.size ELSE IF p >= 0 THEN p ELSE r.size + p

ExtractData(r, p, n) == Bytes(r, RealPosition(r, p), n)

(***************************************************************************)
(* Two ways to clear: dataClearFull stops one byte before the end of the   *)
(* buffer, dataClearBySize moves the reader without turning it over.       *)
(***************************************************************************)
DataClearFull(r) ==
    [r EXCEPT !.reader = 0, !.writer = 0,
              !.buffer = [i \in DOMAIN r.buffer |->
                             IF i < r.size - 1 THEN 0 ELSE r.buffer[i]]]

DataClearBySize(r, n) == [r EXCEPT !.reader = Counter(r.reader + n)]
=============================================================================
