# okto-wsd: specification and proofs

okto-wsd is a daemon on a single-board computer with an nRF24 radio chip. Local
programs connect to a Unix socket and send *WSD packets*: "transmit this ExB
packet to that address", "set the matrix of radio pipes". Remote devices, the
ExBs, answer over the radio in fragments of 32 bytes and send events of their
own. The daemon is a handful of threads around polled queues, two shared maps,
one chip and one mutex for it.

This directory holds TLA+ modules of those parts, configurations that check
them with TLC, and proofs that TLAPS checks. All paths below are relative to the
repository.

## 1. Inventory

### Threads and data

    local programs
      | socket                                         ^ socket
    SoReceiver (one per client, so_receiver.c)       SoTransmitter (so_transmitter.c)
      | gateInQueue                                    ^ soTransmitterQueue
    GateIn (gate_in.c) -- errors, results -------------+
      | rfTransmitterQueue                             |
    RfTransmitter (rf_transmitter.c) -- errors --------+
      | chip (NRF24.c, rf_mutex)                     GateOut (gate_out.c)
      v                                                ^ upQueue
    the air, the ExBs ---------------------------->  RfReceiver (rf_receiver.c)

| Component | State | Operations | Interacts through |
|---|---|---|---|
| Accept loop (`core.c:38-75`) | listening socket | accept, start a receiver | descriptors |
| `SoReceiver` | ring, mode, packet being read | register in `globSoMap`, read, hand over, unregister, close | `globSoMap`, `gateInQueue` |
| `GateIn` | `tidSoMap`, pipe globals | remember the transaction, TRANSMIT, SET_PIPES_MATRIX, answer | both queues, chip, globals |
| `RfTransmitter` | five pipe queues | look a pipe up, cut into fragments, send, report | globals, chip, queue |
| `RfReceiver` | time of the last fragment | take a fragment, reset a hung chip, make a TICK | chip, `upQueue` |
| `GateOut` | ring, mode, packet | assemble packets, mark events | queues |
| `SoTransmitter` | the element it writes | write to one client or to all | `tidSoMap`, `globSoMap`, sockets |
| nRF24 driver (`NRF24.c`) | registers, `a_pN_targ`, `a_pN_self` | RX/TX mode, send, receive, reset | `rf_mutex` for the chip, nothing for the globals |
| Ring buffer (`rings.c`) | buffer, reader, writer, mutex | write, read, compare, extract, shift, clear | its callers |
| Queue (`lbq.c`) | list of nodes, 16-bit count, mutex | enqueue, dequeue, size | all threads |
| Map and list (`map2.c`, `list.c`) | list of keys and values, mutex | add, get, remove, iterate | receivers, GateIn, SoTransmitter |
| Daemon control (`core.c:77-327`) | pid file, socket name, processes | start, stop, restart, status | file system, signals |
| Codecs (`wsd_packet.c`, `exb_packet.c`) | none | encode, parse a header | bytes |

Not part of the running program, and not modelled: `socket_handler.c`,
`data_processor.c`, `packet.c` and `map.c` (an earlier structure), `setd.c`,
`treeset.c`, `lbq8.c` (unused collections), `RF_transmit` and `RF_Receive` of
`rf.c`. Pins, SPI, logging, time and the wrappers in `libs/oscl` are input,
output and formatting.

### What is hard here, and what correctness means

* **Routing.** An answer carries a transaction number and finds its way by the
  newest entry of a map. Connections end while answers are under way, and their
  descriptor numbers are given again. *Correct*: an answer goes to the client
  that asked; no answer is dropped; a broadcast writes only to clients that are
  registered; each client sees its answers in order, and does get them.
* **Framing.** Two parsers recover packets from bytes that arrive one by one,
  mixed with noise, cut, or from several senders. *Correct*: what is handed on
  is what was sent, whole, in order, all of it, with the right sender.
* **Radio.** Three threads share a chip under a mutex and a matrix of addresses
  without one. *Correct*: a packet is heard by its addressee, a fragment gets
  its sender's address, the chip listens with the matrix it was said to accept,
  nothing waits for ever.
* **Containers.** *Correct*: a ring is a queue that drops its oldest byte; a
  queue is a queue; no function keeps its mutex; no freed node is reached.
* **Daemon control.** Two runs of the program share a file that survives a
  crash. *Correct*: one daemon; every daemon can be stopped; only daemons are
  signalled; reports are true.

`PROJECT.json` lists every hazard at its line with the properties that watch it.

## 2. Modules

| Module | Models | Composes |
|---|---|---|
| `Routing` | all threads, queues and maps, packets whole | — |
| `SoStream` | parser of `so_receiver.c`, byte by byte | `RingOps` |
| `GateOutStream` | parser of `gate_out.c`, byte by byte, and what feeds it | `RingOps` |
| `FrameChannel` | abstract: a lossless channel of frames | implemented by `SoStream`, `GateOutStream`, `Lbq` |
| `Radio` | matrix, chip and its registers, mutex, the three threads that use them | — |
| `RingOps`, `Rings` | the functions of `rings.c`, and a ring with its mutex | `RingOps` |
| `RingFifo` | abstract: a bounded queue that drops its oldest byte | implemented by `Rings` |
| `Lbq` | `lbq.c` down to its nodes | — |
| `Map2` | `map2.c` and `list.c` down to the nodes, with the threads that call them | — |
| `NewestFirst` | abstract: a map whose newest entry is found first | implemented by `Map2` |
| `Daemon` | launchers, daemons, pid file, socket name, signals | — |
| `MC*` | small values of the constants for TLC | |
| `RoutingProofs`, `SoStreamProofs`, `GateOutStreamProofs`, `RadioProofs`, `RingProofs`, `LbqProofs`, `Map2Proofs`, `DaemonProofs` | theorems | `SoStreamProofs` and `GateOutStreamProofs` cite `RingProofs` |

Every operator whose name begins with `Bad` (or `Silent`) is a mistake that could have been
made in the operator after it. No specification uses them; they are there to show
that a property notices.

### Routing

The state is that of the threads between two points at which another thread can
be noticed. `toDriver` is the socket of a client, `rx` the receiver thread
(`start`, `reading`, `unreg`, `closed`), `sock` the descriptor `accept()` gave,
`globSoMap` the list of registered connections newest first, `tidSoMap` what
`MAP_get` finds first for a transaction. `giElem` is the element GateIn has
stored but not acted on, `giWaits` says that it has come to the lock of the chip
with an accepted matrix, `sending` and `left` are the request whose fragments
RfTransmitter sends, `rfMutex` says whether `NRF24_Send` has the chip
(`sending`) and will have it for ever (`stuck`); `stPc`, `stMsg`, `stFd`, `stNext`, `stRest` SoTransmitter in
the middle of a write or of a walk.

| Action | Code |
|---|---|
| `Accept`, `AcceptFails` | `core.c:59-74` |
| `Register`, `Receive`, `Unregister`, `Close` | `so_receiver.c:23-39`, `41-90`, `92`, `98` |
| `GateInStore`, `GateInTransmit`, `GateInOther` | `gate_in.c:55-66`, `73-105`, `248` |
| `GateInRefuse`, `GateInAccept`, `GateInMatrix` | `gate_in.c:116-199`, `202-217` up to the lock of the chip, `217-247` with it |
| `RfReject`, `RfFragment` | `rf_transmitter.c:143-153`, `103-142` |
| `RfSend`, `RfAcked`, `RfUnreachable` | `NRF24.c:210-226`; what follows its wait (`:228`) with `rf_transmitter.c:58-101` |
| `ChipHangs` | the chip that never ends the wait of `NRF24.c:228` (external) |
| `GateOutReply`, `GateOutEvent` | `gate_out.c:61-97` |
| `StTakeBroadcast`, `StTakeDirected`, `StWrite` | `so_transmitter.c:15-51` |
| `StLock`, `StLockDangling`, `StWalk`, `StUnlock` | `so_transmitter.c:28-37`, `map2.c:125-154` |
| `Connect`, `ClientSend`, `ClientRead`, `HangUp` | the local programs (external) |

A transaction is four bytes of base `Base`; `ParseTid` is the shift by 25 of
`wsd_packet.c:39` and `Tid16` the `uint16_t` of `rf_transmitter.h:18`. `uniall`
of an answer is any value of `Garbage`, since `malloc` leaves it unwritten. A
write to a client that hung up ends the process (`SIGPIPE` is not handled); a
write to a full socket waits. Abstracted: whether the matrix has an address is
a free choice (`Radio` has the matrix); packets are whole; `GateOut` and
`RfReceiver` are one step (`GateOutStream` has their bytes), which does not look
at `rfMutex`: RfReceiver keeps it for the reading of one fragment (`Radio` has
that too), and what `GateOut` hands on was read before; a chip that hung in a
transmission is not reset, because the reset needs the mutex; the backlog of
`accept()` has no order. Matrix commands with transaction 0 get no answer: that
is the code's behaviour and no property excludes it except where it says so.

### SoStream, GateOutStream, FrameChannel

Both parsers have one step per byte, because one byte changes the mode at most
once. Each step writes the byte to the ring (`RingOps!Write`) and goes on by the
mode: `HuntPreamble`, `ParseHeader`, `ParseBody`. The header fields are one byte
each and the preamble two; the assumption on the preamble (its first byte does
not occur in it again) is what `3F AA AA ..` and `3B AA AA ..` have, and what
makes "the last bytes are the preamble" the right test. The ring starts with
whatever `malloc` found, so a parser that looked behind the data would be
noticed. In `GateOutStream` the devices cut packets into fragments, `Tick` is
the fragment RfReceiver makes itself, `Lose` the air (and the flushes of the
receive FIFO at `NRF24.c:172` and `:191`). The air is one of two, chosen in
`Init`: `orderly`, where the fragments of a packet follow each other, none is
lost and the packet fits in the ring, or not. `Orders` says which of the two an
instance looks at. `event` is what `uniall` should be; that it is unwritten for
other packets is in `Routing`.

`FrameChannel` promises: what is delivered is what was sent, in turn
(`Safety`), and everything in the end (`Spec`). `SoStream` implements it for
packets and noise that are `Tidy`: bodies of at least one byte that the ring can
hold, no preamble in the noise, and no more noise between two packets than a
counter can look past (`InReach`). In a ring of at most half a counter's values
that is any noise; in that of `so_receiver.c`, one smaller than the counter,
it is one byte. What becomes of other packets and of longer noise is in
section 5. The preamble is compared with the last bytes of the ring, and the ring
is cleared only when one was found, so it is the bytes before a preamble that
push the sum of `rings.c:657` up. `GateOutStream` implements it while the air is orderly (`InOrderOnly`
is the empty channel otherwise), and `WellFormed` is what is left when it is not.
Two constants of `GateOutStream` are bytes whose value matters to the parser:
the preamble does not begin with 0, with which the devices fill the last fragment
of a packet up, and not with `TickTail`, which fills the TICK up; otherwise the
search for the next preamble could begin in what fills a fragment up.

### Radio

`targ` and `self` are the ten globals, written one by one (`WriteGlobal`,
`gate_in.c:203-212`), read without the mutex by `GetPipeByAddress`, `Self` and
`GetAddrByPipe`. `chip` has what the code can tell of the chip: the whole
address in the register of pipe 1 (`rx1`), the lowest bytes in those of the
others (`rxlow`), the receive FIFO, the bits of STATUS, which stay until they
are cleared, the address it is sending to, and whether ARC_CNT stands at its
maximum. An address is a device's and has a lowest byte and an upper part
(`Lsb`, `High`), so that the chip matches addresses as it does: by all bytes on
pipe 1, and elsewhere by the lowest of the pipe and the upper ones of pipe 1.

| Action | Code |
|---|---|
| `SetPipesMatrix`, `WriteGlobal`, `ProgramChip` | `gate_in.c:116-199`, `202-212`, `214-247` |
| `TakeRequest`, `GetPipeByAddress` | `rf_transmitter.c:103-142`, `NRF24.c:250-263` |
| `Send`, `ReadStatus`, `Sent` | `NRF24_Send` up to its wait, after it, and its end with what RfTransmitter makes of the result |
| `Receive`, `HangReset` | `NRF24.c:284-306`, `rf_receiver.c:58-67` |
| `ChipReceives`, `ChipRetransmits`, `ChipAcknowledged`, `ChipGivesUp`, `Hang` | the chip and the devices (external) |

Between `Send` and `Sent` the transmitter holds `rf_mutex`, so `ProgramChip`,
`Receive` and `HangReset` wait. `IrqLow` is true for a received packet as well
as for the end of a transmission: CONFIG is `0x0a`, which masks neither. A bit
that is left in STATUS by one fragment is there when the next is sent: with
MAX_RT the chip does not send at all, and the pin is low from the start. A chip
that has hung takes nothing that is written (`Takes`) until it is reset.
RfTransmitter empties its five pipe queues before it takes the next request, so
they hold the fragments of one request only, which `tx.left` counts.

### Rings, RingFifo

`RingOps` has each function of `rings.c` as an operator on a record of buffer,
reader, writer and size. Two of them keep a sum in a `uint16_t` that may be
larger than the ring: `RINGS_cmpData` that of the reader and the offset, before
it is asked whether it lies past the end (`rings.c:657`), and
`RINGS_dataClearBySize` that of the reader and the count (`:380`). `Counter` is
what is left of such a sum, and `CounterSize` the 2^16, a constant so that small
rings can be large for it. `RingFifo` is told of a call its arguments as well as
its bytes, so that an answer is one to the question that was asked. A ring is
such a queue if a counter holds every sum (`CountersFit`, a ring of about half
its values at most, as the 256 bytes of `gate_out.c` and the 1024 of `core.c`). The
65535 bytes of `so_receiver.c` are not: there a comparison past the end of the
buffer looks one byte too early. `Rings` calls the functions one at a time under the mutex, with offsets and counts the
way callers use them: a read or a shift only over bytes that are there, and
`RINGS_dataClearBySize` only up to the end of the buffer, where it does not turn
the reader over. `RINGS_dataStart` and `RINGS_writeArray` are steps that take
the mutex and do not give it back (`Jam`); nothing in the daemon calls them.

### Lbq

Nodes are memory that `pmalloc` gives, also again after `pfree`. `Alloc` is
`enqueue` before the lock, `Enqueue` with it; `Size` and `Dequeue` are the two
calls of the consumer. `CountSize` is the 2^16 of the count. `sent` and `order`
are history variables. Every queue of the program has one consumer, which is why
a size that was seen is still there when the consumer dequeues (`NeverNull`).
A queue that grows to `CountSize` elements says that it is empty; `AllTaken`,
that everything sent is taken, is therefore promised only for runs in which the
queue stays shorter (`Fits`; up to three elements in the run), and `InOrder` and `SizeIsLength` (modulo
`CountSize`) for all.

### Map2, NewestFirst

`Map2` has one map and its callers. `use` says which of the two maps of the
program a behaviour looks at: `globSoMap`, to which a receiver adds its
connection (`Register`, `so_receiver.c:26-30`) and from which it takes it at the
end (`Unregister`, `FreeAndClose`, `so_receiver.c:88-98`) while SoTransmitter
walks over it (`Iterator...`, `map2.c:125-154`); or `tidSoMap`, to which GateIn
adds (`Store`, `gate_in.c:59-66`) and in which SoTransmitter looks up (`Lookup`,
`ReadItem`, `map2.c:19-37`) and from which nobody removes. A function of `map2.c`
is one step with the mutex. Two things the code does without it are steps of
their own: the iterator reads the head (`IteratorNew`) before its lock, and
`MAP_get` reads the value (`ReadItem`) after its unlock.

A `MapItem` lives as long as its `Node` and the two are one cell. Freed memory
is given again, so the cell a walk has read may be out of the list when it gets
the mutex (`IteratorDangles`: anything may happen then) or be that of a new
connection. `order` is a history variable, the cells from `head` on; `Linked`
says that the pointers agree with it. `seen` and `due` record whom a walk has
met and whom it has to.

`NewestFirst` is the map without nodes: a sequence of entries, where a key finds
its newest. `Routing` uses the maps in this form.

### Daemon

A launcher is a run of the program; its steps are the system calls of `start`,
`stop`, `restart`, `status` (`access`, `fork`, `open`, `write`, `read`, `kill`,
`remove`), interleaved with other launchers and the daemons. `proc` is what runs
under a process number: a daemon on its way to serving, another program, or
nothing. The pid file is an inode named by its creator, so a file that is opened
and removed stays what it was. `Atoi` may continue into the memory behind the
file's bytes.

`world` is chosen in `Init` and says under what circumstances the program runs:
how many runs, whether they overlap, what may fail, which numbers `atoi` may
read, which process numbers other programs may get. The properties say for which
worlds they are promised (`Orderly`, `Tame`).

## 3. Runs

Bounds are constants of the modules (`Max...`), or the size of the sets.

| Run | Instance | Shows |
|---|---|---|
| `routing_safety` | 3 connections on 2 descriptors: one transmits or sends an unknown type, one sends a matrix, one listens; one request each, two fragments, any `Garbage`, so that answers are broadcast too | answers reach their requester, none is rotten, `OwnTransactions` is invariant, no stale descriptor is registered |
| `routing_live` | 2 connections, one of which sends two requests, matrices or packets for the radio, without waiting; one event, one fragment; fair threads | answers in order, matrices are answered although GateIn waits for the chip, unless this hangs in a transmission, connections are cleaned up |
| `so_stream_channel` | 2 packets of 3 kinds, 4 kinds of noise up to 9 bytes, ring of 8, a counter of 13 values, the fewest `Tidy` allows for this noise, 2 memories | the socket parser is a channel, for every point at which the client may end |
| `gate_out_channel` | 2 devices, 2 packets of 5 kinds, a TICK, ring of 16, a counter of 32 values, 2 memories, both kinds of air | the radio parser is a channel while the air is orderly; what it queues is well formed in any air |
| `radio_matrix` | 2 pipes, 3 devices of which two share the lowest byte and two the upper ones, 2 commands out of 4, requests of up to 2 fragments, 1 fragment received, failures, hangs, resets, fair threads | an accepted matrix is heard on its pipes; with one matrix the right addressee and sender; the outcome of a fragment is its own; commands and requests end while the chip works |
| `rings_fifo` | ring of 4, a counter of 6 values, the fewest `CountersFit` allows, 2 byte values, every initial memory | the ring is the queue `RingFifo` |
| `lbq_channel` | 2 producers, 4 nodes, 5 calls with 2 items, a count of 2 bits | the list, the count and the order are right, also when the count turns over; a queue of up to three elements is drained |
| `map2` | 3 connections on 3 descriptors, or 3 transactions, in 4 cells | the list is linked, implements `NewestFirst`, receivers free their own, walks meet everybody once |
| `daemon` | 2 process numbers, 3 worlds: 3 runs in sequence where fork, radio and daemon may fail; 3 runs in sequence next to other programs that take free numbers; 2 overlapping runs where everything may fail | in sequence one daemon, recorded and reachable, and a pid file that is true; in all worlds daemons serve or end, stop works |

Why the bounds are enough: a misdirected answer needs two clients and one
number used twice; a stale descriptor one more connection than descriptors; a
torn matrix two commands; a bit of STATUS that is left two fragments; a walk
that misses somebody two nodes after the one it begins with; a parser's error two packets, the first of which
leaves the ring in a bad state for the second, with a ring shorter than the
bytes of both so that it turns over; a wrong list a node that is freed and given
again; a count that turns over as many nodes as its values; a queue that is
drained in turn three elements, one that is neither first nor last; a sum that is
cut a counter that is just long enough. A symmetry is used
in `map2` only, which has no liveness property and whose receivers, keys and
cells nothing distinguishes.

Three runs must fail, each with one property taken from a comment or message of
the code (quoted in `PROJECT.json` under "findings"):

| Run | Property | What TLC shows |
|---|---|---|
| `routing_stale_fd` | `ReplyOnlyToRequester` | a late answer goes to the next owner of its requester's descriptor |
| `radio_torn` | `NotDefinedIsTrue` | a look-up during a matrix command misses a device that both matrices have |
| `gate_out_interleaved` | `FromItsSender` | fragments of two devices become one packet with the sender of the last |

Section 5 has the other disagreements. The passing runs state what does hold
beside them: `RepliesToRequester` says that a requester *that is still
connected* gets its answer, for clients that use small transactions of their own
(`Disciplined`).

Deadlock is checked in `routing_*`, whose system never stops (`Idle` is the
polling of the threads, and the waiting of those behind a chip that hangs). In the other instances the outside has a bounded number
of calls and may stop calling, and a ring whose mutex is kept does stop; there
`CHECK_DEADLOCK FALSE`.

### Fairness

* `Routing`: weak fairness of each thread, since each is an endless loop that
  polls, and of clients that read. None of clients that connect, send or hang up,
  none of devices, and none of the chip but that it ends a transmission
  (`RfAcked`, `RfUnreachable` are steps of RfTransmitter) or hangs in it
  (`ChipHangs`), after which `MatrixAnswered` promises nothing. Weak fairness of
  GateIn is enough although it waits for `rf_mutex`: requests and their fragments
  are finite, so there comes a time at which RfTransmitter leaves the mutex alone.
* `SoStream`, `GateOutStream`, `Lbq`: weak fairness of the thread that takes.
* `Radio`: weak fairness of the threads where they do not wait, strong fairness
  where they wait for `rf_mutex`: it becomes free again and again, because the
  receiver sleeps 10 ms between two uses and the transmitter 100 ms after its
  queues. The chip ends a transmission unless it hangs, and
  a chip that has hung is silent until it is reset.
* `Map2`: none.
* `Daemon`: weak fairness of a run of the program and of a daemon; nothing makes
  anyone run the program.

## 4. Proofs

TLAPS checks these for every value of the constants that the named assumptions
(`RoutingAssumption`, `NoElementAssumption`, `SoStreamAssumption`,
`GateOutStreamAssumption`, `RadioAssumption`, `RingAssumption`, `LbqAssumption`,
`Map2Assumption`, `DaemonAssumption`) allow. What a theorem assumes beyond them
is in its statement.

* **Routing.** `TypeCorrect`. `DescriptorsAreOwned`: no two open connections
  share a descriptor; it is inductive with types, because `Accept` takes a free
  number and `Close` is the last step of a receiver. From it
  `RegisteredAreOpen` and `WalksAreRegistered` (the entry is removed before the
  descriptor is closed, and the walk holds the lock of the map). For disciplined
  clients `TransactionsAreOwned`: the conjunction `OwnTransactions` follows a
  transaction through every queue (`OwnSent`, `OwnGate`, `OwnRadio`,
  `OwnReplies`), and says that the map leads it to the descriptor of its client
  (`OwnMap`) or nowhere. The property itself speaks of one write only and is not
  inductive: it needs to know what is still queued. `NoReplyIsRotten` and
  `RepliesReachRequester` follow from it. `AnswersAreInOrder`: the commands of a
  client that are not answered stand in one line that runs from SoTransmitter
  through its queue, GateIn and GateIn's queue to the socket (`OrderOf`): their
  numbers do not decrease along it (`Line`), and while the client is connected
  every command that is owed is in it. A step moves one number from the head of
  a queue to the tail of the next (`LineReceive`, `LineStore`, `LineAnswer`,
  `LineTake`), so the one that is written is the least. It needs two hypotheses.
  The clients are disciplined: an answer with transaction 0, or with one that
  another client uses too, is dropped or written to the other. And `Garbage` is
  at most FALSE: an answer that is taken for an event is written by a walk, which
  may begin at a node that was freed and miss its client.
* **SoStream.** `TypeCorrect`. `ParserIsChannel`: `Tidy` implies that what the
  parser has handed on is the first of what was sent. The invariant `Follows`
  looks at all the bytes `V` that the client has written, the packets `g` in it
  (the last may be broken off) and the places `b` after which they begin.
  `Written` says that there is no preamble between one packet and the next.
  `Parsed` says that the ring holds the last of the bytes read, and for each mode
  where in a packet, or after which packet, these end (`Hunting`, `InHeader`,
  `InBody`). While it hunts, the ring holds all that came after the last packet,
  or as much of it as it can, so a preamble is found where it is and nowhere
  else; after that what it holds is short of its size, and no byte is dropped.
* **GateOutStream.** `TypeCorrect`. `QueuedWellFormed`, for any air: while a
  header or a body is awaited the ring begins with the preamble and the header
  that was read (`RingBegun`), unless the packet is one the ring cannot hold, and
  that one is never completed. `OrderlyIsChannel`: the invariant `Follows` lists
  all packets begun so far as jobs with their fragments, in the order in which
  these arrive (`Chained`), and says which fragments are with the device
  (`Sending`), in `upQueue` (`InQueue`) and with the parser (`Parsing`). Under
  it stand two simpler arguments: what one byte of a packet makes of the parser
  (`ByteScan`), and that the fragments of a packet are its bytes and then bytes
  that are not the first of the preamble (`Cuts`), by which a job ends with the
  parser back at the search. A packet without a body is the odd one: it is
  queued with the byte after its header, which still lies in its last fragment.
  Both stream modules use the ring through the lemmas of `RingProofs`, by
  INSTANCE.
* **Rings.** `RingIsFifo`: if `CountersFit`, `Rings` implements `RingFifo`, every
  call mapped to a step of the queue, with the data between reader and writer as
  the queue. The hypothesis is needed for `RINGS_cmpData` only (`CounterKeeps`). The
  lemmas say what each operator does to that data, at the wrap too. With them,
  `TypeCorrect`.
* **Lbq.** The inductive invariant `Inv` joins the shape, `Linked` (pointers
  agree with the history `order`, no node twice, none of a producer's in the
  list), the count modulo `CountSize`, and `Holds` (what was sent is what was
  taken and what the nodes hold). `TypeCorrect`, `ListIsLinked`, `SizeIsRight`,
  `ConsumerFindsItem` and `QueueIsInOrder` (the safety of `FrameChannel`) follow.
* **Map2.** `TypeCorrect` and `ListIsLinked` are inductive together. `MapInv`
  adds who is in the list: in `globSoMap` an entry for each open connection and
  for no other, under its own descriptor, which no other connection has before
  it closes it; so the first entry with a descriptor is the right one
  (`ReceiversFreeTheirOwn`). `WalkInv` splits the list at the cursor of a walk
  that has the lock: the values before it have been met, those from it on have
  not, and every connection that is due is on one of the two sides. From it
  `WalkMeetsTheLiving` and `WalkMissesNoOne`, whatever happened between the read
  of the head and the lock. `MapIsNewestFirst` is the refinement; the answer of
  a look-up that has yet to read its value counts as given, which is right
  because nobody removes from `tidSoMap`.
* **Radio.** `TypeCorrect` with `TxInv` (the transmitter has the mutex exactly
  while it waits). `AcceptedIsProgrammed`: `GateInv` follows the command through
  its ten writes and says that after RESULT the registers are the globals. Sends
  and resets rewrite the first address from an unprotected global; this changes
  nothing because only GateIn writes the globals, and not between RESULT and the
  next command. `FirstMatrixIsSafe`: `AddressInv` says that until a second
  matrix a global holds the address nobody has or that of the matrix, so one
  that was found stays and its `self` is right or reaches nobody.
  `FirstSendersAreRight`: `SenderInv` says the same of the registers, and that
  a fragment in the FIFO lies on the pipe of its sender.
  `OutcomesAreTrue`: `OutcomeInv` says that while nothing is received a chip
  that works starts every fragment with STATUS clear and gets exactly one bit.
* **Daemon.** `TypeCorrect`; for runs that follow one another with a pid file
  that can be written and read (`Orderly`), `DaemonIsRecorded`, `OneDaemonRuns`
  and `SocketLeadsToDaemon`. The invariant `IInv` says where the number of the
  one daemon is while a launcher is between its system calls. If in addition
  daemons end only when they are stopped (`Tame`), `PidFileNamesDaemon`.

Only model-checked: everything with fairness (`MatrixAnswered`,
`HungUpIsClosed`, `ThreadsGoOn`, `DaemonServesOrEnds`, `StoppedEnds`,
`AllTaken`, and of `IsChannel` that what was sent is delivered in the end),
because liveness is out of the prover's reach. Every other property of a passing
run is a theorem; where it is one for `Tidy`, `Disciplined`, `Orderly` or `Tame`
only, the section above says why. `WalksAreRegistered` is proved and not among
the properties of a run: `map2` checks what it says on the nodes themselves.

## 5. What the comments say and the code does not do

Each property below stands in the last section of its module, or is one of its
others for constants that it is not promised for. It is false of the code: TLC finds a counterexample with the constants of the run named, changed
as said. The first three lines are the runs of section 3.

| Property | Code and comment | Constants | What happens |
|---|---|---|---|
| `ReplyOnlyToRequester` | `so_receiver.c:92`; "associated with the socket to send a response packet to it" (`gate_in.c:70-71`) | `routing_stale_fd` | the transactions of a closed socket stay in `tidSoMap` and its number is given again |
| `NotDefinedIsTrue` | `NRF24.c:250`; "address is not defined" (`rf_transmitter.c:146`) | `radio_torn` | five globals are read while they are written |
| `FromItsSender` | `gate_out.c:68`; "determine exb sender" (`gate_in.c:109`) | `gate_out_interleaved` | one parser for all senders; with `MaxTicks = 1` and one device the program's own TICK does it too |
| `OnlyEventsToAll` | `gate_in.c:33`; "If this is an event" (`gate_out.c:85-86`) | `routing_safety` | `uniall` of an answer is what `malloc` left |
| `WalkStaysInList`, `WalkInMap` | `so_transmitter.c:28`; "Any concurrecnt operation at map will be blocked" (`map2.c:134-135`) | `map2`, `routing_safety` | the head of the list is read before the lock |
| `CommandIsAnswered` | `gate_in.c:217`; "This action return RESULT packet if action was succes or ERROR if dos not" (`gate_in.c:111-112`) | `routing_live` | GateIn waits for the mutex that `NRF24_Send` keeps while the chip hangs |
| `ServerStays` | `so_transmitter.c:50`; "try to accept a new connections" (`core.c:39-40`) | `routing_safety` | a write to a client that hung up raises SIGPIPE |
| `ExbTidAssociated` | `gate_in.c:60`; "Transaction ID is selected from the package" (`gate_in.c:69`) | `routing_stale_fd`, requests with `exb # tid` | the transaction of the WSD header is associated instead |
| `RepliesToRequester` | `rf_transmitter.h:18`; `gate_in.c:70-71` as above | `routing_safety`, two clients with transactions `<<0, 0, 0, 1>>` and `<<0, 1, 0, 1>>` | an error names the transaction in 16 bits, which is another client's |
| `Disassembled` | `so_receiver.c:68`; "Disassembled packets are placed in the downstream buffer" (`so_receiver.c:20-21`) | `so_stream_channel`, a packet with an empty body, or with one of 8 bytes | the first eats a byte of the next preamble; the second is waited for for ever, since a ring of n bytes keeps n - 1 |
| `Disassembled` | `rings.c:657`; `so_receiver.c:20-21` as above | `so_stream_channel` with `CounterSize = 9`, two bytes of noise `<<2, 2>>` and without the assumption `TidyInstance` | in a ring one smaller than the counter the sum of reader and offset loses the counter's size, the preamble is found one byte late and the first byte of the header is cleared with it |
| `EventsResent` | `gate_out.c:61`; `gate_out.c:85-86` as above | `gate_out_interleaved`, events among the packets, or one longer than the ring | after a lost fragment the event is taken for a body; the long one is waited for for ever |
| `SentToAddressee` | `NRF24.c:181`; "what exb will be considered as a transmitter" (`gate_in.c:110-111`) | `radio_matrix` | the pipe is looked up before a matrix is set and its self read after it |
| `SenderIsRight` | `NRF24.c:303`; "used for determine exb sender" (`gate_in.c:109`) | `radio_matrix` | a fragment waits in the chip while the matrix changes |
| `AcceptedIsHeard` | `gate_in.c:219`; "used for determine exb sender" (`gate_in.c:109`) | `radio_matrix` | two addresses whose upper bytes differ pass the check of the lowest ones, and the register of the second pipe has no room for its own |
| `RefusedLeavesMatrix` | `gate_in.c:203`; "RESULT packet if action was succes or ERROR if dos not" (`gate_in.c:111-112`) | `radio_matrix` | the globals are assigned before the chip is asked and not restored |
| `TransmittedIsTrue` | `NRF24.c:228`; "Rf packet transmitted" (`rf_transmitter.c:88`) | `radio_matrix` | the pin is low for a received packet too, before the transmission has ended; the bit that comes later decides the outcome of the next fragment |
| `UntransmittedIsTrue` | `rf_transmitter.c:74`; "Rf packet not transmitted" (`rf_transmitter.c:78`) | `radio_matrix` | the fifteenth retransmission may be acknowledged |
| `HungIsReset` | `NRF24.c:228`; "assume that ntf24 is hung" (`rf_receiver.c:62`) | `radio_matrix` | the wait for the pin holds the mutex the reset needs |
| `AtMostOne` | `core.c:147`; "Daemon already started" (`core.c:148`) | `daemon` | two starts both look before either creates the pid file; in runs that follow one another, with `overread` not empty, stop signals a wrong number and removes the file |
| `FailedLeavesNothing` | `core.c:168`, `:231`; "Unable to restart daemon" (`core.c:232`) | `daemon` | the pid file is opened after the fork; restart fails after it has started a daemon |
| `OthersUnharmed` | `core.c:218`, `:213`; "send SIGUSR1 to the daemon process" (`core.c:190-191`) | `daemon` | the pid file outlives the daemon, its number is another program's; `atoi` reads behind the file's bytes |
| `RefusedIfStarted` | `core.c:147`; "Daemon already started" (`core.c:148`) | `daemon` | a crash leaves the pid file |
| `StatusIsTrue` | `core.c:264`; "Daemon run with pid" (`core.c:264`) | `daemon` | the number in the file is printed without asking for the process |

The sum of `rings.c:657` shows in `IsFifo` too: with `CounterSize = 5`
`rings_fifo` finds a comparison with the byte before the one that was asked for.
Of the rings, read from the code and not stated as properties: `RINGS_read`
of an empty ring turns the reader over at the last position (`rings.c:77`);
`RINGS_dataStart` returns before its unlock (`:314`) and `RINGS_writeArray` locks
twice (`:158`); `RINGS_dataClearFull` leaves the last byte (`:358`);
`RINGS_dataClearBySize` may put the reader past the end (`:380`);
`RINGS_extractData` returns an offset for a count when the data wraps (`:647`).
The daemon uses none of these in a way that would show.

## 6. Not modelled

Memory that is not freed (the `continue` of `gate_in.c:122`, `:198`, `:241`),
one byte written behind a block (`so_receiver.c:70` for an empty body,
`gate_out.c:66`), time other than "longer than the limit or not", TRANSMIT
packets with fewer than four bytes (`gate_in.c:89`), whether `write()` is
complete, signals other than SIGUSR1 and SIGPIPE; of `map2.c` and `list.c` what
nothing calls, and the 16-bit index of `LIST_remove`, which would take 65536
connections to turn over.

## 7. Plan

Done: `Routing`, `Rings`, `Daemon`, the two streams, `Radio` with its fragments
and the bytes of its registers, `Lbq`, `Map2`, with their runs and the theorems
above. Next, in this order. Runs are kept few, one for a module and a question; a
module below takes the place of a run that must fail.

1. `PacketCodec`: encode and parse with their widths, the shift by 25, the
   `size - 4` of `gate_in.c:89`, against an abstract header.
2. A composition of `SoStream` with `Routing`'s `Receive`, and an abstract
   specification of a request and its answer that `Routing` implements.
