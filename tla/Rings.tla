------------------------------- MODULE Rings -------------------------------
(***************************************************************************)
(* One ring of rings.c and its caller.  The functions take the mutex of    *)
(* the ring, do their work and release it, so each is one step here; the   *)
(* two that do not release it, or block on it, are steps that leave it     *)
(* taken, after which no call returns.  Callers keep offsets and counts    *)
(* within the data, read when there is something to read, and clear by     *)
(* size within the buffer: the code checks none of it.                     *)
(*                                                                         *)
(* out records the last call, its arguments and the bytes it handed to the *)
(* caller.                                                                 *)
(***************************************************************************)
EXTENDS RingOps

CONSTANTS Byte, Size, MaxData

ASSUME RingAssumption ==
    /\ CounterSize \in Nat
    /\ Size \in Nat /\ Size > 1 /\ Size < CounterSize
    /\ MaxData \in Nat
    /\ 0 \in Byte

VARIABLES ring, mutex, out

vars == <<ring, mutex, out>>

Did(op, args, bytes) == [op |-> op, args |-> args, bytes |-> bytes]

Init ==
    /\ ring \in {CreateRingBuffer(Size, junk) : junk \in [0..(Size - 1) -> Byte]}
    /\ mutex = "free"
    /\ out = Did("none", <<>>, <<>>)

Length == DataLenght(ring)

(***************************************************************************)
(* A call: it waits for the mutex, changes the ring and releases the mutex.*)
(***************************************************************************)
Call(r, op, args, bytes) ==
    /\ mutex = "free"
    /\ ring' = r
    /\ out' = Did(op, args, bytes)
    /\ UNCHANGED mutex

RINGS_write(b)       == Call(Write(ring, b), "write", <<b>>, <<>>)
RINGS_readAll        == Call(ReadAll(ring), "readAll", <<>>, Contents(ring))
RINGS_dataClear      == Call(DataClear(ring), "clear", <<>>, <<>>)
RINGS_shiftReader(n) == Call(ShiftReader(ring, n), "shiftReader", <<n>>, <<>>)
RINGS_shiftWriter(n) == Call(ShiftWriter(ring, n), "shiftWriter", <<n>>, <<>>)
RINGS_read           == Call(Read(ring), "read", <<>>, <<ring.buffer[ring.reader]>>)

RINGS_getByShiftFromReader(n) ==
    Call(ring, "byReader", <<n>>, <<GetByShiftFromReader(ring, n)>>)
RINGS_getByShiftFromWriter(n) ==
    Call(ring, "byWriter", <<n>>, <<GetByShiftFromWriter(ring, n)>>)
RINGS_cmpData(off, data) ==
    Call(ring, IF CmpData(ring, off, data) THEN "equal" ELSE "differs",
         <<off>> \o data, <<>>)
RINGS_readStringInRange(n) ==
    Call(ring, "range", <<n>>, Bytes(ring, ring.reader, n))

(***************************************************************************)
(* The caller gives the position off places after the reader.              *)
(***************************************************************************)
RINGS_extractData(off, n) ==
    Call(ring, "extract", <<off, n>>, ExtractData(ring, ring.reader + off, n))

RINGS_dataClearFull      == Call(DataClearFull(ring), "clear", <<>>, <<>>)
RINGS_dataClearBySize(n) == Call(DataClearBySize(ring, n), "shiftReader", <<n>>, <<>>)

(***************************************************************************)
(* RINGS_dataStart returns before its unlock; RINGS_writeArray locks and   *)
(* calls RINGS_write, which locks again.                                   *)
(***************************************************************************)
Jam(op) ==
    /\ mutex = "free"
    /\ mutex' = "taken"
    /\ out' = Did(op, <<>>, <<>>)
    /\ UNCHANGED ring

RINGS_dataStart        == Jam("start")
RINGS_writeArray(data) == data # <<>> /\ Jam("array")

Next ==
    \/ \E b \in Byte : RINGS_write(b) \/ RINGS_writeArray(<<b>>)
    \/ RINGS_readAll
    \/ RINGS_dataClear
    \/ RINGS_dataClearFull
    \/ RINGS_dataStart
    \/ Length > 0 /\ RINGS_read
    \/ \E n \in 0..Length :
          \/ RINGS_shiftReader(n)
          \/ RINGS_shiftWriter(-n)
          \/ ring.reader + n < Size /\ RINGS_dataClearBySize(n)
    \/ \E n \in 0..(Length - 1) : \/ RINGS_getByShiftFromReader(n)
                                  \/ RINGS_getByShiftFromWriter(-n - 1)
    \/ \E off \in 0..(Length - 1) :
          \/ \E n \in 0..MaxData : \E data \in [1..n -> Byte] :
                off + n <= Length /\ RINGS_cmpData(off, data)
          \/ \E n \in 0..(Length - off) : RINGS_extractData(off, n)
    \/ \E n \in 1..Length : RINGS_readStringInRange(n)

Spec == Init /\ [][Next]_vars
-----------------------------------------------------------------------------
(* Properties.                                                             *)

(***************************************************************************)
(* The positions stay in the buffer and every byte of it is a byte.        *)
(***************************************************************************)
TypeOK ==
    /\ ring \in RingBuffer(Size, Byte)
    /\ mutex \in {"free", "taken"}
    /\ out.bytes \in Seq(Byte)

(***************************************************************************)
(* The ring is the queue RingFifo promises: at the wrap of the buffer, at   *)
(* a full ring and at an empty one, every call does to the bytes between    *)
(* reader and writer what it does to a queue that drops its oldest byte,    *)
(* and hands the caller the bytes of that queue.  It is so while a counter  *)
(* holds every sum of a position and an offset, as CountersFit says; for a  *)
(* larger ring, as so_receiver.c has, it is not (README, section 5).        *)
(***************************************************************************)
CountersFit == 2 * Size <= CounterSize + 2

Fifo == INSTANCE RingFifo WITH q <- Contents(ring), Capacity <- Size - 1
IsFifo == Fifo!Spec
=============================================================================
