------------------------------ MODULE Routing ------------------------------
(***************************************************************************)
(* How a request of a local client reaches the radio and how its answer    *)
(* finds the way back: the accept loop (core.c), one receiver thread per   *)
(* client (so_receiver.c), GateIn, RfTransmitter, GateOut and              *)
(* SoTransmitter, the queues between them and the two maps they share.     *)
(* One action is what one thread does between two points where another     *)
(* thread can be noticed.  Bytes, bodies and the radio chip are abstracted:*)
(* a packet is a record, the chip acknowledges a fragment or does not.     *)
(***************************************************************************)
EXTENDS Integers, Sequences, FiniteSets

CONSTANTS
  Clients,     \* connections that local programs make, each at most once
  Fds,         \* the descriptor numbers the driver can be given by accept()
  Base,        \* values of one byte (256 in the code)
  RequestsOf,  \* the requests each client may send
  Garbage,     \* what an uninitialised bool can hold (malloc'ed uniall)
  Nil,         \* no client, no element
  MaxSend,     \* bound: requests of each client
  MaxEvents,   \* bound: events of remote devices
  MaxFrags,    \* bound: radio fragments per request
  SockCap      \* bound: packets a client's socket buffer takes

Byte  == 0 .. Base - 1
Tid   == Byte \X Byte \X Byte \X Byte     \* big-endian, as on the wire
NoTid == <<0, 0, 0, 0>>
Kind  == {"transmit", "matrix", "other"}
Request == [kind : Kind, tid : Tid, exb : Tid]

ASSUME RoutingAssumption ==
  /\ Fds \subseteq Nat
  /\ Base \in Nat /\ Base > 1
  /\ RequestsOf \in [Clients -> SUBSET Request]
  /\ Garbage \subseteq BOOLEAN
  /\ Nil \notin Clients
  /\ MaxSend \in [Clients -> Nat] /\ MaxEvents \in Nat /\ MaxFrags \in Nat
  /\ SockCap \in Nat \ {0}

\* The header parser shifts the top byte by 25 instead of 24, in 32 bits.
ParseTid(t) == <<(2 * t[1]) % Base, t[2], t[3], t[4]>>

\* PipeQueueElem keeps the transaction in a uint16_t.
Tid16(t) == <<0, 0, t[3], t[4]>>

-----------------------------------------------------------------------------
VARIABLES
  up,           \* the process runs
  link,         \* client side of each connection
  sent,         \* requests written by each client
  toDriver,     \* requests in flight on each connection
  rx,           \* the SoReceiver thread of each connection
  sock,         \* the descriptor accept() gave to each connection
  globSoMap,    \* list of registered connections, newest first
  gateInQueue,
  giElem,       \* the element GateIn is processing
  giWaits,      \* its matrix is accepted and goes to the chip
  tidSoMap,     \* transaction -> descriptor, what MAP_get finds first
  rfQueue,
  sending,      \* the request whose fragments fill a pipe queue
  left,         \* fragments of it not sent yet
  rfMutex,      \* "free", "sending", or "stuck" with a chip that never answers
  remote,       \* requests the remote devices have and may answer
  events,       \* events sent by the remote devices so far
  soQueue,
  stPc,         \* SoTransmitter: where it is,
  stMsg,        \*   the element it writes,
  stFd,         \*   the descriptor MAP_get returned,
  stNext,       \*   the list node its iterator holds,
  stRest,       \*   the entries its walk has still to visit
  inbox,        \* packets in each client's socket buffer
  owed          \* per client, the matrix commands not answered yet (history)

clientVars == <<link, sent, toDriver>>
rxVars     == <<rx, sock>>
giVars     == <<gateInQueue, giElem, giWaits, tidSoMap>>
rfVars     == <<rfQueue, sending, left, rfMutex>>
airVars    == <<remote, events>>
stVars     == <<stPc, stMsg, stFd, stNext, stRest>>
outVars    == <<inbox, owed>>
vars == <<up, clientVars, rxVars, globSoMap, giVars, rfVars, airVars, soQueue,
          stVars, outVars>>

NoFd == -1
FdOrNone == Fds \union {NoFd}

\* A request on its way in: n numbers the requests of one client.
Sent     == [kind : Kind, tid : Tid, exb : Tid, n : Nat]
GateElem == [src : Clients, fd : FdOrNone, req : Sent]
RfElem   == [src : Clients, tid : Tid]
\* A packet on its way out.  src and n are history: the connection whose
\* request it answers, and the matrix command it answers (0: none).
Message  == [tid : Tid, uniall : BOOLEAN, src : Clients \union {Nil}, n : Nat]
Entry    == [conn : Clients \union {Nil}, fd : FdOrNone]

\* GateIn's null pointer is no element.
ASSUME NoElementAssumption == Nil \notin GateElem

Alive(c)   == rx[c] \in {"start", "reading", "unreg"}
Holders(f) == {c \in Clients : Alive(c) /\ sock[c] = f}
FreeFds    == {f \in Fds : Holders(f) = {}}
MapLocked  == stPc = "walk"

Init ==
  /\ up = TRUE
  /\ link = [c \in Clients |-> "idle"]
  /\ sent = [c \in Clients |-> 0]
  /\ toDriver = [c \in Clients |-> <<>>]
  /\ rx = [c \in Clients |-> "none"]
  /\ sock = [c \in Clients |-> NoFd]
  /\ globSoMap = <<>>
  /\ gateInQueue = <<>> /\ giElem = Nil /\ giWaits = FALSE
  /\ tidSoMap = [t \in Tid |-> NoFd]
  /\ rfQueue = <<>> /\ sending = Nil /\ left = 0 /\ rfMutex = "free"
  /\ remote = {} /\ events = 0
  /\ soQueue = <<>>
  /\ stPc = "idle" /\ stMsg = Nil /\ stFd = NoFd /\ stNext = Nil /\ stRest = <<>>
  /\ inbox = [c \in Clients |-> <<>>]
  /\ owed = [c \in Clients |-> {}]

-----------------------------------------------------------------------------
(* Steps with a plausible mistake in them.  No specification uses these:   *)
(* each one takes the place of the step it is named after to show that a   *)
(* property notices the mistake.                                           *)

\* The list position is counted one too far.
BadRemoveFd(f) ==
  \E i \in 1 .. Len(globSoMap) :
    /\ globSoMap[i].fd = f
    /\ globSoMap' = SubSeq(globSoMap, 1, i)
                      \o SubSeq(globSoMap, i + 2, Len(globSoMap))

\* MAP_remove takes out the first entry under the descriptor.
RemoveFd(f) ==
  IF \E i \in 1 .. Len(globSoMap) : globSoMap[i].fd = f
  THEN \E i \in 1 .. Len(globSoMap) :
         /\ globSoMap[i].fd = f
         /\ \A j \in 1 .. i - 1 : globSoMap[j].fd # f
         /\ globSoMap' = SubSeq(globSoMap, 1, i - 1)
                           \o SubSeq(globSoMap, i + 1, Len(globSoMap))
  ELSE globSoMap' = globSoMap

\* The receivers share the variable the accept loop writes.
BadReceive(c) ==
  /\ up /\ rx[c] = "reading" /\ toDriver[c] # <<>>
  /\ \E d \in Clients :
       /\ rx[d] # "none"
       /\ gateInQueue' = Append(gateInQueue,
                           [src |-> c, fd |-> sock[d], req |->
                              [Head(toDriver[c]) EXCEPT !.tid = ParseTid(@)]])
  /\ toDriver' = [toDriver EXCEPT ![c] = Tail(@)]
  /\ UNCHANGED <<up, link, sent, rxVars, globSoMap, giElem, giWaits, tidSoMap,
                 rfVars, airVars, soQueue, stVars, outVars>>

\* The transaction is not stored.
BadGateInStore ==
  /\ up /\ giElem = Nil /\ gateInQueue # <<>>
  /\ giElem' = Head(gateInQueue) /\ gateInQueue' = Tail(gateInQueue)
  /\ UNCHANGED <<up, clientVars, rxVars, globSoMap, giWaits, tidSoMap, rfVars,
                 airVars, soQueue, stVars, outVars>>

GateInDone ==
  giElem' = Nil /\ giWaits' = FALSE /\ UNCHANGED <<gateInQueue, tidSoMap>>

\* The answer is put in front of those that wait.
BadMatrixAnswer ==
  soQueue' = <<[tid |-> giElem.req.tid, uniall |-> FALSE,
                src |-> giElem.src, n |-> giElem.req.n]>> \o soQueue

\* One of the error paths leaves without an answer.
SilentMatrixAnswer == UNCHANGED soQueue

\* The request is released with its first fragment.
BadFragmentGone == left' = left - 1 /\ sending' = Nil

\* A write to a client that has hung up is tried again.
BadWrite(f, m) ==
  \/ /\ Holders(f) = {}
     /\ UNCHANGED <<up, inbox, owed>>
  \/ \E c \in Holders(f) :
       /\ link[c] = "open" /\ Len(inbox[c]) < SockCap
       /\ inbox' = [inbox EXCEPT ![c] = Append(@, m)]
       /\ owed' = IF m.src = c
                  THEN [owed EXCEPT ![c] = @ \ {m.n}] ELSE owed
       /\ UNCHANGED up

-----------------------------------------------------------------------------
(* The local programs.                                                     *)

Connect(c) ==
  /\ up /\ link[c] = "idle"
  /\ link' = [link EXCEPT ![c] = "open"]
  /\ UNCHANGED <<up, sent, toDriver, rxVars, globSoMap, giVars, rfVars, airVars,
                 soQueue, stVars, outVars>>

ClientSend(c) ==
  /\ up /\ link[c] = "open" /\ sent[c] < MaxSend[c]
  /\ \E r \in RequestsOf[c] :
       LET n == sent[c] + 1 IN
       /\ toDriver' = [toDriver EXCEPT ![c] = Append(@,
                         [kind |-> r.kind, tid |-> r.tid, exb |-> r.exb, n |-> n])]
       /\ owed' = IF r.kind = "matrix"
                  THEN [owed EXCEPT ![c] = @ \union {n}] ELSE owed
       /\ sent' = [sent EXCEPT ![c] = n]
  /\ UNCHANGED <<up, link, rxVars, globSoMap, giVars, rfVars, airVars, soQueue,
                 stVars, inbox>>

ClientRead(c) ==
  /\ link[c] = "open" /\ inbox[c] # <<>>
  /\ inbox' = [inbox EXCEPT ![c] = Tail(@)]
  /\ UNCHANGED <<up, clientVars, rxVars, globSoMap, giVars, rfVars, airVars,
                 soQueue, stVars, owed>>

\* The client closes its end: what it wrote can still be read by the driver.
HangUp(c) ==
  /\ link[c] = "open"
  /\ link' = [link EXCEPT ![c] = "hungup"]
  /\ inbox' = [inbox EXCEPT ![c] = <<>>]
  /\ UNCHANGED <<up, sent, toDriver, rxVars, globSoMap, giVars, rfVars, airVars,
                 soQueue, stVars, owed>>

-----------------------------------------------------------------------------
(* The accept loop and the SoReceiver threads.                             *)

\* accept() returns the lowest free descriptor.
Accept(c) ==
  /\ up /\ link[c] # "idle" /\ rx[c] = "none"
  /\ \E f \in FreeFds :
       /\ \A g \in FreeFds : f <= g
       /\ sock' = [sock EXCEPT ![c] = f]
  /\ rx' = [rx EXCEPT ![c] = "start"]
  /\ UNCHANGED <<up, clientVars, globSoMap, giVars, rfVars, airVars, soQueue,
                 stVars, outVars>>

\* No descriptor left: accept() returns -1 and the driver exits.
AcceptFails(c) ==
  /\ up /\ link[c] # "idle" /\ rx[c] = "none" /\ FreeFds = {}
  /\ up' = FALSE
  /\ UNCHANGED <<clientVars, rxVars, globSoMap, giVars, rfVars, airVars, soQueue,
                 stVars, outVars>>

Register(c) ==
  /\ up /\ rx[c] = "start" /\ ~MapLocked
  /\ globSoMap' = <<[conn |-> c, fd |-> sock[c]]>> \o globSoMap
  /\ rx' = [rx EXCEPT ![c] = "reading"]
  /\ UNCHANGED <<up, clientVars, sock, giVars, rfVars, airVars, soQueue, stVars,
                 outVars>>

Receive(c) ==
  /\ up /\ rx[c] = "reading" /\ toDriver[c] # <<>>
  /\ gateInQueue' = Append(gateInQueue,
                      [src |-> c, fd |-> sock[c], req |->
                         [Head(toDriver[c]) EXCEPT !.tid = ParseTid(@)]])
  /\ toDriver' = [toDriver EXCEPT ![c] = Tail(@)]
  /\ UNCHANGED <<up, link, sent, rxVars, globSoMap, giElem, giWaits, tidSoMap,
                 rfVars, airVars, soQueue, stVars, outVars>>

Unregister(c) ==
  /\ up /\ rx[c] = "reading" /\ toDriver[c] = <<>> /\ link[c] = "hungup"
  /\ ~MapLocked
  /\ RemoveFd(sock[c])
  /\ rx' = [rx EXCEPT ![c] = "unreg"]
  /\ UNCHANGED <<up, clientVars, sock, giVars, rfVars, airVars, soQueue, stVars,
                 outVars>>

Close(c) ==
  /\ up /\ rx[c] = "unreg"
  /\ rx' = [rx EXCEPT ![c] = "closed"]
  /\ UNCHANGED <<up, clientVars, sock, globSoMap, giVars, rfVars, airVars,
                 soQueue, stVars, outVars>>

-----------------------------------------------------------------------------
(* GateIn: remembers whose transaction it is, then acts on the packet.     *)

GateInStore ==
  /\ up /\ giElem = Nil /\ gateInQueue # <<>>
  /\ LET e == Head(gateInQueue) IN
     /\ giElem' = e
     /\ tidSoMap' = IF e.req.tid = NoTid THEN tidSoMap
                    ELSE [tidSoMap EXCEPT ![e.req.tid] = e.fd]
  /\ gateInQueue' = Tail(gateInQueue)
  /\ UNCHANGED <<up, clientVars, rxVars, globSoMap, giWaits, rfVars, airVars,
                 soQueue, stVars, outVars>>

GateInTransmit ==
  /\ up /\ giElem # Nil /\ giElem.req.kind = "transmit"
  /\ rfQueue' = Append(rfQueue, [src |-> giElem.src, tid |-> giElem.req.exb])
  /\ GateInDone
  /\ UNCHANGED <<up, clientVars, rxVars, globSoMap, sending, left, rfMutex,
                 airVars, soQueue, stVars, outVars>>

\* One RESULT or one ERROR; nobody writes uniall.
MatrixAnswer ==
  \E g \in Garbage :
    soQueue' = Append(soQueue,
      [tid |-> giElem.req.tid, uniall |-> g, src |-> giElem.src,
       n |-> giElem.req.n])

\* The matrix is too short, or two of its addresses end alike.
GateInRefuse ==
  /\ up /\ giElem # Nil /\ giElem.req.kind = "matrix" /\ ~giWaits
  /\ MatrixAnswer
  /\ GateInDone
  /\ UNCHANGED <<up, clientVars, rxVars, globSoMap, rfVars, airVars, stVars,
                 outVars>>

\* It goes to the globals, and GateIn comes to the lock of the chip.
GateInAccept ==
  /\ up /\ giElem # Nil /\ giElem.req.kind = "matrix" /\ ~giWaits
  /\ giWaits' = TRUE
  /\ UNCHANGED <<up, clientVars, rxVars, globSoMap, gateInQueue, giElem, tidSoMap,
                 rfVars, airVars, soQueue, stVars, outVars>>

\* With rf_mutex the chip is set and read back; the answer says whether it
\* holds the matrix.
GateInMatrix ==
  /\ up /\ giWaits /\ rfMutex = "free"
  /\ MatrixAnswer
  /\ GateInDone
  /\ UNCHANGED <<up, clientVars, rxVars, globSoMap, rfVars, airVars, stVars,
                 outVars>>

GateInOther ==
  /\ up /\ giElem # Nil /\ giElem.req.kind = "other"
  /\ GateInDone
  /\ UNCHANGED <<up, clientVars, rxVars, globSoMap, rfVars, airVars, soQueue,
                 stVars, outVars>>

-----------------------------------------------------------------------------
(* RfTransmitter empties its pipe queues before it takes another request,  *)
(* so they hold the fragments of one request at most.                      *)

\* The answer of a step to client c about transaction t.
Answer(t, c) == \E g \in Garbage :
  soQueue' = Append(soQueue, [tid |-> t, uniall |-> g, src |-> c, n |-> 0])

\* The address is in no pipe of the matrix.
RfReject ==
  /\ up /\ left = 0 /\ rfQueue # <<>>
  /\ Answer(Head(rfQueue).tid, Head(rfQueue).src)
  /\ rfQueue' = Tail(rfQueue)
  /\ UNCHANGED <<up, clientVars, rxVars, globSoMap, giVars, sending, left, rfMutex,
                 airVars, stVars, outVars>>

RfFragment ==
  /\ up /\ left = 0 /\ rfQueue # <<>>
  /\ \E k \in 0 .. MaxFrags :
       /\ left' = k
       /\ sending' = IF k = 0 THEN Nil ELSE Head(rfQueue)
  /\ rfQueue' = Tail(rfQueue)
  /\ UNCHANGED <<up, clientVars, rxVars, globSoMap, giVars, rfMutex, airVars,
                 soQueue, stVars, outVars>>

\* NRF24_Send takes rf_mutex for one fragment and keeps it until the chip
\* pulls the pin that says what became of it.
RfSend ==
  /\ up /\ left > 0 /\ rfMutex = "free"
  /\ rfMutex' = "sending"
  /\ UNCHANGED <<up, clientVars, rxVars, globSoMap, giVars, rfQueue, sending, left,
                 airVars, soQueue, stVars, outVars>>

FragmentGone ==
  /\ left' = left - 1
  /\ sending' = IF left = 1 THEN Nil ELSE sending

\* Acknowledged: with its last fragment the device has the request.
RfAcked ==
  /\ up /\ rfMutex = "sending" /\ rfMutex' = "free"
  /\ remote' = IF left = 1 THEN remote \union {sending} ELSE remote
  /\ FragmentGone
  /\ UNCHANGED <<up, clientVars, rxVars, globSoMap, giVars, rfQueue, events,
                 soQueue, stVars, outVars>>

\* Fifteen retransmissions: one error per fragment, with what the 16 bits
\* kept of the transaction.
RfUnreachable ==
  /\ up /\ rfMutex = "sending" /\ rfMutex' = "free"
  /\ Answer(Tid16(sending.tid), sending.src)
  /\ FragmentGone
  /\ UNCHANGED <<up, clientVars, rxVars, globSoMap, giVars, rfQueue, airVars,
                 stVars, outVars>>

\* The chip hangs and never pulls the pin: the wait in NRF24_Send has no limit
\* and keeps rf_mutex, also from RfReceiver, which would reset the chip.
ChipHangs ==
  /\ up /\ rfMutex = "sending" /\ rfMutex' = "stuck"
  /\ UNCHANGED <<up, clientVars, rxVars, globSoMap, giVars, rfQueue, sending, left,
                 airVars, soQueue, stVars, outVars>>

-----------------------------------------------------------------------------
(* GateOut hands a packet received from the air to SoTransmitter.          *)

GateOutReply(r) ==
  /\ up /\ r \in remote
  /\ Answer(ParseTid(r.tid), r.src)
  /\ remote' = remote \ {r}
  /\ UNCHANGED <<up, clientVars, rxVars, globSoMap, giVars, rfVars, events,
                 stVars, outVars>>

GateOutEvent ==
  /\ up /\ events < MaxEvents
  /\ events' = events + 1
  /\ soQueue' = Append(soQueue,
                  [tid |-> NoTid, uniall |-> TRUE, src |-> Nil, n |-> 0])
  /\ UNCHANGED <<up, clientVars, rxVars, globSoMap, giVars, rfVars, remote,
                 stVars, outVars>>

-----------------------------------------------------------------------------
(* SoTransmitter.                                                          *)

\* What write(2) does.  Nobody holds f: EBADF, ignored.  The peer is gone:
\* SIGPIPE ends the process.  No room: the call waits.
Write(f, m) ==
  \/ /\ Holders(f) = {}
     /\ UNCHANGED <<up, inbox, owed>>
  \/ \E c \in Holders(f) :
       \/ /\ link[c] = "hungup"
          /\ up' = FALSE
          /\ UNCHANGED <<inbox, owed>>
       \/ /\ link[c] = "open" /\ Len(inbox[c]) < SockCap
          /\ inbox' = [inbox EXCEPT ![c] = Append(@, m)]
          /\ owed' = IF m.src = c
                     THEN [owed EXCEPT ![c] = @ \ {m.n}] ELSE owed
          /\ UNCHANGED up

\* A broadcast reads the head of the list before it takes the lock.
StTakeBroadcast ==
  /\ up /\ stPc = "idle" /\ soQueue # <<>> /\ Head(soQueue).uniall
  /\ stMsg' = Head(soQueue) /\ soQueue' = Tail(soQueue)
  /\ stNext' = IF globSoMap = <<>> THEN Nil ELSE globSoMap[1].conn
  /\ stPc' = "iter"
  /\ UNCHANGED <<up, clientVars, rxVars, globSoMap, giVars, rfVars, airVars,
                 stFd, stRest, outVars>>

StTakeDirected ==
  /\ up /\ stPc = "idle" /\ soQueue # <<>> /\ ~Head(soQueue).uniall
  /\ soQueue' = Tail(soQueue)
  /\ LET f == tidSoMap[Head(soQueue).tid] IN
     IF f = NoFd     \* the transaction is rotten: the packet is dropped
     THEN UNCHANGED stVars
     ELSE /\ stMsg' = Head(soQueue) /\ stFd' = f /\ stPc' = "write"
          /\ UNCHANGED <<stNext, stRest>>
  /\ UNCHANGED <<up, clientVars, rxVars, globSoMap, giVars, rfVars, airVars,
                 outVars>>

StWrite ==
  /\ up /\ stPc = "write"
  /\ Write(stFd, stMsg)
  /\ stPc' = "idle" /\ stMsg' = Nil /\ stFd' = NoFd
  /\ UNCHANGED <<clientVars, rxVars, globSoMap, giVars, rfVars, airVars, soQueue,
                 stNext, stRest>>

\* The list from position i on.
From(i) == SubSeq(globSoMap, i, Len(globSoMap))

StLock ==
  /\ up /\ stPc = "iter"
  /\ stRest' \in IF stNext = Nil THEN {<<>>}
                 ELSE {From(i) : i \in {j \in 1 .. Len(globSoMap) :
                                          globSoMap[j].conn = stNext}}
  /\ stPc' = "walk"
  /\ UNCHANGED <<up, clientVars, rxVars, globSoMap, giVars, rfVars, airVars,
                 soQueue, stMsg, stFd, stNext, outVars>>

\* The node the iterator holds was freed meanwhile.  Reading it is undefined:
\* the process dies, or any descriptor is written to and the walk goes on
\* from any node.
StLockDangling ==
  /\ up /\ stPc = "iter" /\ stNext # Nil
  /\ \A i \in 1 .. Len(globSoMap) : globSoMap[i].conn # stNext
  /\ \/ up' = FALSE /\ UNCHANGED <<stRest, stPc>>
     \/ /\ \E f \in FdOrNone, i \in 1 .. Len(globSoMap) + 1 :
             stRest' = <<[conn |-> stNext, fd |-> f]>> \o From(i)
        /\ stPc' = "walk" /\ UNCHANGED up
  /\ UNCHANGED <<clientVars, rxVars, globSoMap, giVars, rfVars, airVars, soQueue,
                 stMsg, stFd, stNext, outVars>>

StWalk ==
  /\ up /\ stPc = "walk" /\ stRest # <<>>
  /\ Write(Head(stRest).fd, stMsg)
  /\ stRest' = Tail(stRest)
  /\ UNCHANGED <<clientVars, rxVars, globSoMap, giVars, rfVars, airVars, soQueue,
                 stPc, stMsg, stFd, stNext>>

StUnlock ==
  /\ up /\ stPc = "walk" /\ stRest = <<>>
  /\ stPc' = "idle" /\ stMsg' = Nil /\ stNext' = Nil
  /\ UNCHANGED <<up, clientVars, rxVars, globSoMap, giVars, rfVars, airVars,
                 soQueue, stFd, stRest, outVars>>

-----------------------------------------------------------------------------
SoReceiver(c) == Register(c) \/ Receive(c) \/ Unregister(c) \/ Close(c)
Server == \E c \in Clients : Accept(c) \/ AcceptFails(c)
GateIn ==
  \/ GateInStore \/ GateInTransmit \/ GateInOther
  \/ GateInRefuse \/ GateInAccept \/ GateInMatrix
RfTransmitter ==
  RfReject \/ RfFragment \/ RfSend \/ RfAcked \/ RfUnreachable
GateOut == GateOutEvent \/ \E r \in remote : GateOutReply(r)
SoTransmitter ==
  \/ StTakeBroadcast \/ StTakeDirected \/ StWrite
  \/ StLock \/ StLockDangling \/ StWalk \/ StUnlock
Client(c) == Connect(c) \/ ClientSend(c) \/ ClientRead(c) \/ HangUp(c)

\* The threads poll their queues for ever; a dead process does nothing, nor do
\* threads that wait for rf_mutex behind a chip that hangs.
Idle ==
  /\ \/ ~up
     \/ rfMutex = "stuck"
     \/ /\ gateInQueue = <<>> /\ giElem = Nil /\ rfQueue = <<>> /\ left = 0
        /\ soQueue = <<>> /\ stPc = "idle"
  /\ UNCHANGED vars

Next ==
  \/ Server \/ GateIn \/ RfTransmitter \/ ChipHangs \/ GateOut \/ SoTransmitter
  \/ Idle
  \/ \E c \in Clients : SoReceiver(c) \/ Client(c)

Spec == Init /\ [][Next]_vars

\* Every thread of the driver is scheduled, and a client that stays reads.
\* Nothing forces a client to connect, send or hang up, nor a device to talk.
\* The chip ends a transmission (RfAcked, RfUnreachable) or hangs in it.
Fairness ==
  /\ WF_vars(Server) /\ WF_vars(GateIn) /\ WF_vars(RfTransmitter)
  /\ WF_vars(SoTransmitter)
  /\ \A c \in Clients : WF_vars(SoReceiver(c)) /\ WF_vars(ClientRead(c))

FairSpec == Spec /\ Fairness

Elems(s) == {s[i] : i \in DOMAIN s}

\* Clients that use small transactions of their own, the same in the WSD header
\* and in the ExB package: none of the narrowings changes what they send.
TidsOf(c) == {r.tid : r \in RequestsOf[c]}
Disciplined ==
  /\ \A c \in Clients : \A r \in RequestsOf[c] :
       /\ r.exb = r.tid /\ r.tid # NoTid
       /\ ParseTid(r.tid) = r.tid /\ Tid16(r.tid) = r.tid
  /\ \A c, d \in Clients : c # d => TidsOf(c) \intersect TidsOf(d) = {}

-----------------------------------------------------------------------------
(* The state has the shape the code gives it.                              *)
TypeOK ==
  /\ up \in BOOLEAN
  /\ link \in [Clients -> {"idle", "open", "hungup"}]
  /\ sent \in [Clients -> Nat]
  /\ toDriver \in [Clients -> Seq(Sent)]
  /\ rx \in [Clients -> {"none", "start", "reading", "unreg", "closed"}]
  /\ sock \in [Clients -> FdOrNone]
  /\ globSoMap \in Seq([conn : Clients, fd : FdOrNone])
  /\ gateInQueue \in Seq(GateElem) /\ giElem \in GateElem \union {Nil}
  /\ tidSoMap \in [Tid -> FdOrNone]
  /\ rfQueue \in Seq(RfElem) /\ sending \in RfElem \union {Nil} /\ left \in Nat
  /\ left > 0 => sending \in RfElem
  /\ rfMutex \in {"free", "sending", "stuck"} /\ (rfMutex # "free" => left > 0)
  /\ giWaits \in BOOLEAN /\ (giWaits => giElem # Nil /\ giElem.req.kind = "matrix")
  /\ remote \subseteq RfElem /\ events \in Nat
  /\ soQueue \in Seq(Message)
  /\ stPc \in {"idle", "write", "iter", "walk"}
  /\ stPc # "idle" => stMsg \in Message
  /\ stMsg \in Message \union {Nil} /\ stFd \in FdOrNone
  /\ stNext \in Clients \union {Nil} /\ stRest \in Seq(Entry)
  /\ inbox \in [Clients -> Seq(Message)]
  /\ owed \in [Clients -> SUBSET Nat]

\* Every descriptor a broadcast can find in globSoMap is open and belongs to
\* the connection that registered it, and no connection is in the map twice:
\* SoReceiver takes its entry out before it closes the descriptor
\* (so_receiver.c:92-98), so a reused number is never found under an old entry.
RegisteredIsOpen ==
  /\ \A i \in 1 .. Len(globSoMap) :
       /\ rx[globSoMap[i].conn] = "reading"
       /\ globSoMap[i].fd = sock[globSoMap[i].conn]
  /\ \A i, j \in 1 .. Len(globSoMap) :
       globSoMap[i].conn = globSoMap[j].conn => i = j

\* What a broadcast has still to write to is registered at that moment
\* (so_transmitter.c:29-35 holds the lock of the map): an event is never
\* written to a descriptor a later connection took over.  The one exception is
\* the node the iterator read before the lock, when it was freed meanwhile.
WalkIsRegistered ==
  stPc = "walk" =>
    \A i \in 1 .. Len(stRest) :
      \/ \E j \in 1 .. Len(globSoMap) : globSoMap[j] = stRest[i]
      \/ i = 1 /\ \A j \in 1 .. Len(globSoMap) : globSoMap[j].conn # stNext

\* A reply whose requester is still connected is written to nobody else: the
\* transaction map leads to the requester (gate_in.c:59-66,
\* so_transmitter.c:39-51).
RepliesToRequester ==
  [][\A c \in Clients :
       /\ Len(inbox'[c]) > Len(inbox[c]) /\ ~stMsg.uniall
       /\ rx[stMsg.src] = "reading"
       => c = stMsg.src]_vars

\* No reply or error is dropped as rotten (so_transmitter.c:52-58): GateIn
\* registers the transaction before it acts on the packet.
NoRottenReply ==
  \A m \in Elems(soQueue) : m.uniall \/ tidSoMap[m.tid] # NoFd

\* No two open connections share a descriptor, and one keeps its number to the
\* end (core.c:61, so_receiver.c:98).
OwnDescriptor ==
  /\ \A c \in Clients : IF rx[c] = "none" THEN sock[c] = NoFd ELSE sock[c] \in Fds
  /\ \A c, d \in Clients : Alive(c) /\ Alive(d) /\ sock[c] = sock[d] => c = d

\* With disciplined clients everything in flight between the threads carries a
\* transaction of the client it came from, and by the time it is past GateIn
\* that transaction leads to the descriptor of this client.
OwnSent ==
  \A c \in Clients : \A r \in Elems(toDriver[c]) :
    r.tid \in TidsOf(c) /\ r.exb = r.tid
OwnElem(e) ==
  /\ e.req.tid \in TidsOf(e.src) /\ e.req.exb = e.req.tid
  /\ rx[e.src] # "none" /\ e.fd = sock[e.src]
OwnGate ==
  /\ \A e \in Elems(gateInQueue) : OwnElem(e)
  /\ giElem # Nil => OwnElem(giElem) /\ tidSoMap[giElem.req.tid] # NoFd
OwnRadio ==
  \A e \in Elems(rfQueue) \union remote \union (IF left > 0 THEN {sending} ELSE {}) :
    e.tid \in TidsOf(e.src) /\ tidSoMap[e.tid] # NoFd
OwnReplies ==
  \A m \in Elems(soQueue) : ~m.uniall =>
    m.src \in Clients /\ m.tid \in TidsOf(m.src) /\ tidSoMap[m.tid] # NoFd
OwnMap ==
  \A c \in Clients : \A t \in TidsOf(c) : tidSoMap[t] \in {NoFd, sock[c]}
OwnWrite ==
  /\ stPc = "write" =>
       /\ ~stMsg.uniall /\ stMsg.src \in Clients
       /\ rx[stMsg.src] # "none" /\ stFd = sock[stMsg.src]
  /\ stPc \in {"iter", "walk"} => stMsg.uniall
OwnTransactions ==
  OwnSent /\ OwnGate /\ OwnRadio /\ OwnReplies /\ OwnMap /\ OwnWrite

\* A client gets the answers to its matrix commands in the order of the
\* commands.
AnswersInOrder ==
  [][\A c \in Clients : owed'[c] # owed[c] =>
       \/ owed'[c] = owed[c] \union {sent'[c]}
       \/ \E n \in owed[c] : owed'[c] = owed[c] \ {n} /\ \A k \in owed[c] : n <= k]_vars

\* gate_in.c:111-112: a matrix command is answered, though GateIn waits for
\* rf_mutex (gate_in.c:217) while fragments are sent, unless the client hangs up,
\* the driver stops or the chip hangs in a transmission (NRF24.c:228).
MatrixAnswered ==
  \A c \in Clients :
    owed[c] # {} ~>
      owed[c] = {} \/ link[c] = "hungup" \/ ~up \/ rfMutex = "stuck"

\* A receiver thread ends once its client has hung up: the descriptor is
\* given back.
HungUpIsClosed ==
  \A c \in Clients :
    link[c] = "hungup" /\ Alive(c) ~> rx[c] = "closed" \/ ~up

-----------------------------------------------------------------------------
(* What the comments say and the code does not do: TLC finds each of these  *)
(* violated (README, section 5).                                           *)

\* gate_out.c:85-86, so_transmitter.h:11: only an event is resent to all
\* sockets.  Nothing clears uniall in the answers, which malloc allocates.
OnlyEventsToAll == \A m \in Elems(soQueue) : m.uniall => m.src = Nil

\* gate_in.c:70-71: the response goes to the socket its transaction came from.
\* The map keeps the number of a closed socket, which accept() gives again.
ReplyOnlyToRequester ==
  [][\A c \in Clients :
       Len(inbox'[c]) > Len(inbox[c]) /\ ~stMsg.uniall => c = stMsg.src]_vars

\* gate_in.c:69-71: the transaction associated with the socket is the one in
\* the ExB package.  The code associates the one in the WSD header.
ExbTidAssociated ==
  \A e \in Elems(rfQueue) : e.tid # NoTid => tidSoMap[e.tid] # NoFd

\* map2.c:134-135: while the iterator is locked every operation on the map
\* waits, so what it visits is in the map.  The head is read before the lock.
WalkInMap ==
  stPc = "walk" =>
    \A i \in 1 .. Len(stRest) :
      \E j \in 1 .. Len(globSoMap) : globSoMap[j] = stRest[i]

\* core.c:39-40: after a connection the server tries to accept new ones.  A
\* reply to a client that has hung up ends the process (SIGPIPE).
ServerStays == FreeFds # {} => up

\* gate_in.c:111-112: a matrix command is answered, whatever the chip does.
CommandIsAnswered ==
  \A c \in Clients : owed[c] # {} ~> owed[c] = {} \/ link[c] = "hungup" \/ ~up
=============================================================================
