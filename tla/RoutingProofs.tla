--------------------------- MODULE RoutingProofs ---------------------------
(***************************************************************************)
(* Machine-checked theorems about Routing, for every value of its          *)
(* constants: the shape of its state; who owns a descriptor, and what      *)
(* follows for the list of registered connections; who owns a transaction, *)
(* and what follows for the replies.                                       *)
(***************************************************************************)
EXTENDS Routing, SequenceTheorems, TLAPS

USE DEF clientVars, rxVars, giVars, rfVars, airVars, stVars, outVars

LEMMA NoFdType == NoFd \in FdOrNone
BY DEF NoFd, FdOrNone

LEMMA ParseType == ASSUME NEW t \in Tid PROVE ParseTid(t) \in Tid
BY RoutingAssumption, SMT DEF Tid, Byte, ParseTid

LEMMA Tid16Type == ASSUME NEW t \in Tid PROVE Tid16(t) \in Tid
BY RoutingAssumption, SMT DEF Tid, Byte, Tid16

LEMMA NoTidType == NoTid \in Tid
BY RoutingAssumption, SMT DEF Tid, Byte, NoTid

\* Removing an entry keeps the map a list of entries.
LEMMA RemoveType ==
  ASSUME TypeOK, NEW f, RemoveFd(f)
  PROVE  globSoMap' \in Seq([conn : Clients, fd : FdOrNone])
<1> DEFINE E == [conn : Clients, fd : FdOrNone]
<1>1. globSoMap \in Seq(E)
  BY DEF TypeOK
<1>2. ASSUME NEW i \in 1 .. Len(globSoMap)
      PROVE  SubSeq(globSoMap, 1, i - 1)
               \o SubSeq(globSoMap, i + 1, Len(globSoMap)) \in Seq(E)
  <2>0. /\ Len(globSoMap) \in Nat
        /\ \A k \in 1 .. Len(globSoMap) : globSoMap[k] \in E
    BY <1>1, LenProperties, ElementOfSeq
  <2>1. SubSeq(globSoMap, 1, i - 1) \in Seq(E)
    <3>1. 1 \in Int /\ i - 1 \in Int /\ \A k \in 1 .. i - 1 : globSoMap[k] \in E
      BY <2>0
    <3> QED
      BY <3>1, SubSeqProperties
  <2>2. SubSeq(globSoMap, i + 1, Len(globSoMap)) \in Seq(E)
    <3>1. /\ i + 1 \in Int /\ Len(globSoMap) \in Int
          /\ \A k \in i + 1 .. Len(globSoMap) : globSoMap[k] \in E
      BY <2>0
    <3> QED
      BY <3>1, SubSeqProperties
  <2> QED
    BY <2>1, <2>2
<1> QED
  BY <1>1, <1>2 DEF RemoveFd

LEMMA InitType == Init => TypeOK
<1> SUFFICES ASSUME Init PROVE TypeOK
  OBVIOUS
<1>1. /\ rfMutex \in {"free", "sending", "stuck"} /\ (rfMutex # "free" => left > 0)
      /\ giWaits \in BOOLEAN /\ ~giWaits
  BY Zenon DEF Init
<1> QED
  BY <1>1, RoutingAssumption, NoFdType, SMT DEF Init, TypeOK

LEMMA ClientType ==
  ASSUME TypeOK, NEW c \in Clients, Client(c) PROVE TypeOK'
<1>1. CASE Connect(c)
  BY <1>1 DEF Connect, TypeOK
<1>2. CASE ClientSend(c)
  <2> DEFINE m(r) == [kind |-> r.kind, tid |-> r.tid, exb |-> r.exb,
                      n |-> sent[c] + 1]
  <2>1. PICK r \in RequestsOf[c] :
          /\ toDriver' = [toDriver EXCEPT ![c] = Append(@, m(r))]
          /\ owed' = IF r.kind = "matrix"
                     THEN [owed EXCEPT ![c] = @ \union {sent[c] + 1}] ELSE owed
          /\ sent' = [sent EXCEPT ![c] = sent[c] + 1]
    BY <1>2, Zenon DEF ClientSend
  <2>2. r \in Request
    BY RoutingAssumption
  <2>3. m(r) \in Sent
    BY <2>2 DEF Request, Sent, TypeOK
  <2>4. toDriver' \in [Clients -> Seq(Sent)]
    BY <2>1, <2>3 DEF TypeOK
  <2>5. sent' \in [Clients -> Nat] /\ owed' \in [Clients -> SUBSET Nat]
    <3>1. sent \in [Clients -> Nat] /\ owed \in [Clients -> SUBSET Nat]
      BY DEF TypeOK
    <3>2. sent[c] + 1 \in Nat
      BY <3>1
    <3>3. sent' \in [Clients -> Nat]
      BY <2>1, <3>1, <3>2
    <3> QED
      BY <2>1, <3>1, <3>2, <3>3
  <2> QED
    BY <1>2, <2>4, <2>5 DEF ClientSend, TypeOK
<1>3. CASE ClientRead(c)
  BY <1>3 DEF ClientRead, TypeOK
<1>4. CASE HangUp(c)
  BY <1>4 DEF HangUp, TypeOK
<1> QED
  BY <1>1, <1>2, <1>3, <1>4 DEF Client

LEMMA SoReceiverType ==
  ASSUME TypeOK, NEW c \in Clients, SoReceiver(c) PROVE TypeOK'
<1>1. CASE Register(c)
  BY <1>1 DEF Register, TypeOK
<1>2. CASE Receive(c)
  <2>1. [Head(toDriver[c]) EXCEPT !.tid = ParseTid(@)] \in Sent
    <3>1. Head(toDriver[c]) \in Sent
      BY <1>2 DEF Receive, TypeOK
    <3> QED
      BY <3>1, ParseType DEF Sent
  <2>2. [src |-> c, fd |-> sock[c],
         req |-> [Head(toDriver[c]) EXCEPT !.tid = ParseTid(@)]] \in GateElem
    BY <2>1 DEF GateElem, TypeOK
  <2> QED
    <3>1. toDriver' \in [Clients -> Seq(Sent)] /\ gateInQueue' \in Seq(GateElem)
      BY <1>2, <2>2 DEF Receive, TypeOK
    <3> QED
      BY <1>2, <3>1 DEF Receive, TypeOK
<1>3. CASE Unregister(c)
  BY <1>3, RemoveType DEF Unregister, TypeOK
<1>4. CASE Close(c)
  BY <1>4 DEF Close, TypeOK
<1> QED
  BY <1>1, <1>2, <1>3, <1>4 DEF SoReceiver

LEMMA ServerType == ASSUME TypeOK, Server PROVE TypeOK'
<1>1. ASSUME NEW c \in Clients, Accept(c) PROVE TypeOK'
  BY <1>1 DEF Accept, TypeOK, FreeFds, FdOrNone
<1>2. ASSUME NEW c \in Clients, AcceptFails(c) PROVE TypeOK'
  BY <1>2 DEF AcceptFails, TypeOK
<1> QED
  BY <1>1, <1>2 DEF Server

\* A matrix is answered, refused or from the chip, while GateIn holds it.
LEMMA MatrixFacts ==
  ASSUME TypeOK, GateInRefuse \/ GateInMatrix
  PROVE  /\ giElem \in GateElem /\ giElem # Nil /\ giElem.req.kind = "matrix"
         /\ MatrixAnswer /\ GateInDone
         /\ UNCHANGED <<up, clientVars, rxVars, globSoMap, rfVars, airVars, stVars, outVars>>
BY DEF GateInRefuse, GateInMatrix, TypeOK

\* The mutex of the chip is kept for one fragment.
LEMMA FragmentFacts ==
  ASSUME TypeOK, RfAcked \/ RfUnreachable
  PROVE  left \in Nat /\ left > 0 /\ sending \in RfElem /\ FragmentGone /\ rfMutex' = "free"
BY DEF RfAcked, RfUnreachable, TypeOK

LEMMA GateInType == ASSUME TypeOK, GateIn PROVE TypeOK'
<1>1. CASE GateInStore
  <2>1. Head(gateInQueue) \in GateElem /\ Tail(gateInQueue) \in Seq(GateElem)
    BY <1>1 DEF GateInStore, TypeOK
  <2>2. tidSoMap' \in [Tid -> FdOrNone]
    BY <1>1, <2>1 DEF GateInStore, TypeOK, GateElem
  <2> QED
    BY <1>1, <2>1, <2>2 DEF GateInStore, TypeOK
<1>2. CASE GateInTransmit
  <2>1. [src |-> giElem.src, tid |-> giElem.req.exb] \in RfElem
    BY <1>2 DEF GateInTransmit, TypeOK, GateElem, Sent, RfElem
  <2>2. giWaits' = FALSE /\ giElem' = Nil /\ rfQueue' \in Seq(RfElem)
    BY <1>2, <2>1 DEF GateInTransmit, GateInDone, TypeOK
  <2> QED
    BY <1>2, <2>2 DEF GateInTransmit, GateInDone, TypeOK
<1>3. CASE GateInRefuse \/ GateInMatrix
  <2>1. PICK g \in Garbage :
          soQueue' = Append(soQueue,
            [tid |-> giElem.req.tid, uniall |-> g, src |-> giElem.src,
             n |-> giElem.req.n])
    BY <1>3, MatrixFacts DEF MatrixAnswer
  <2>2. [tid |-> giElem.req.tid, uniall |-> g, src |-> giElem.src,
         n |-> giElem.req.n] \in Message
    BY <1>3, MatrixFacts, RoutingAssumption DEF GateElem, Sent, Message
  <2>3. soQueue' \in Seq(Message)
    BY <2>1, <2>2 DEF TypeOK
  <2> QED
    BY <1>3, <2>3, MatrixFacts DEF GateInDone, TypeOK
<1>4. CASE GateInOther
  BY <1>4 DEF GateInOther, GateInDone, TypeOK
<1>5. CASE GateInAccept
  BY <1>5 DEF GateInAccept, TypeOK
<1> QED
  BY <1>1, <1>2, <1>3, <1>4, <1>5 DEF GateIn

LEMMA AnswerType ==
  ASSUME TypeOK, NEW t \in Tid, NEW c \in Clients, Answer(t, c)
  PROVE  soQueue' \in Seq(Message)
<1>1. PICK g \in Garbage :
        soQueue' = Append(soQueue, [tid |-> t, uniall |-> g, src |-> c, n |-> 0])
  BY DEF Answer
<1>2. [tid |-> t, uniall |-> g, src |-> c, n |-> 0] \in Message
  BY RoutingAssumption DEF Message
<1> QED
  BY <1>1, <1>2 DEF TypeOK

LEMMA RfTransmitterType ==
  ASSUME TypeOK, RfTransmitter \/ ChipHangs PROVE TypeOK'
<1>0. ASSUME rfQueue # <<>>
      PROVE  /\ Head(rfQueue) \in RfElem
             /\ Tail(rfQueue) \in Seq(RfElem)
             /\ Head(rfQueue).tid \in Tid
             /\ Head(rfQueue).src \in Clients
  <2>1. Head(rfQueue) \in RfElem /\ Tail(rfQueue) \in Seq(RfElem)
    BY <1>0, HeadTailProperties DEF TypeOK
  <2> QED
    BY <2>1 DEF RfElem
<1>1. CASE RfReject
  <2>1. soQueue' \in Seq(Message)
    BY <1>0, <1>1, AnswerType DEF RfReject
  <2> QED
    BY <1>0, <1>1, <2>1 DEF RfReject, TypeOK
<1>2. CASE RfFragment
  <2>1. PICK k \in 0 .. MaxFrags :
          left' = k /\ sending' = IF k = 0 THEN Nil ELSE Head(rfQueue)
    BY <1>2 DEF RfFragment
  <2>2. k \in Nat
    BY RoutingAssumption
  <2>3. rfQueue # <<>> /\ rfQueue' = Tail(rfQueue)
    BY <1>2 DEF RfFragment
  <2>4. /\ left' \in Nat /\ sending' \in RfElem \union {Nil}
        /\ left' > 0 => sending' \in RfElem
    BY <1>0, <2>1, <2>2, <2>3
  <2> QED
    BY <1>0, <1>2, <2>3, <2>4 DEF RfFragment, TypeOK
<1>3. CASE RfAcked
  <2>1. left' \in Nat /\ sending' \in RfElem \union {Nil} /\ (left' > 0 => sending' \in RfElem)
    BY <1>3, FragmentFacts DEF FragmentGone
  <2>2. remote' \subseteq RfElem
    BY <1>3, FragmentFacts DEF RfAcked, TypeOK
  <2> QED
    BY <1>3, <2>1, <2>2 DEF RfAcked, TypeOK
<1>4. CASE RfUnreachable
  <2>1. left' \in Nat /\ sending' \in RfElem \union {Nil} /\ (left' > 0 => sending' \in RfElem)
    BY <1>4, FragmentFacts DEF FragmentGone
  <2>2. sending \in RfElem
    BY <1>4, FragmentFacts
  <2>3. soQueue' \in Seq(Message)
    BY <1>4, <2>2, AnswerType, Tid16Type DEF RfUnreachable, RfElem
  <2> QED
    BY <1>4, <2>1, <2>3 DEF RfUnreachable, TypeOK
<1>5. CASE RfSend \/ ChipHangs
  <2>1. rfMutex' \in {"free", "sending", "stuck"} /\ left > 0 /\ left' = left
    BY <1>5 DEF RfSend, ChipHangs, TypeOK
  <2> QED
    BY <1>5, <2>1 DEF RfSend, ChipHangs, TypeOK
<1> QED
  BY <1>1, <1>2, <1>3, <1>4, <1>5 DEF RfTransmitter

LEMMA GateOutType == ASSUME TypeOK, GateOut PROVE TypeOK'
<1>1. ASSUME NEW r \in remote, GateOutReply(r) PROVE TypeOK'
  <2>1. r.tid \in Tid /\ r.src \in Clients
    BY DEF TypeOK, RfElem
  <2>2. soQueue' \in Seq(Message)
    BY <1>1, <2>1, AnswerType, ParseType DEF GateOutReply
  <2> QED
    BY <1>1, <2>2 DEF GateOutReply, TypeOK
<1>2. CASE GateOutEvent
  <2>1. [tid |-> NoTid, uniall |-> TRUE, src |-> Nil, n |-> 0] \in Message
    BY NoTidType DEF Message
  <2> QED
    BY <1>2, <2>1 DEF GateOutEvent, TypeOK
<1> QED
  BY <1>1, <1>2 DEF GateOut

LEMMA WriteType ==
  ASSUME TypeOK, NEW f, NEW m \in Message, Write(f, m)
  PROVE  /\ up' \in BOOLEAN
         /\ inbox' \in [Clients -> Seq(Message)]
         /\ owed' \in [Clients -> SUBSET Nat]
<1>1. CASE UNCHANGED <<up, inbox, owed>>
  BY <1>1 DEF TypeOK
<1>2. CASE up' = FALSE /\ UNCHANGED <<inbox, owed>>
  BY <1>2 DEF TypeOK
<1>3. ASSUME NEW c \in Holders(f),
             inbox' = [inbox EXCEPT ![c] = Append(@, m)],
             owed' = IF m.src = c THEN [owed EXCEPT ![c] = @ \ {m.n}] ELSE owed,
             UNCHANGED up
      PROVE  /\ up' \in BOOLEAN
             /\ inbox' \in [Clients -> Seq(Message)]
             /\ owed' \in [Clients -> SUBSET Nat]
  BY <1>3 DEF TypeOK, Holders
<1> QED
  BY <1>1, <1>2, <1>3 DEF Write

LEMMA FromType ==
  ASSUME TypeOK, NEW i \in Nat \ {0}
  PROVE  From(i) \in Seq([conn : Clients, fd : FdOrNone])
<1> DEFINE E == [conn : Clients, fd : FdOrNone]
<1>1. /\ Len(globSoMap) \in Nat
      /\ \A k \in 1 .. Len(globSoMap) : globSoMap[k] \in E
  BY LenProperties, ElementOfSeq DEF TypeOK
<1>2. i \in Int /\ Len(globSoMap) \in Int
      /\ \A k \in i .. Len(globSoMap) : globSoMap[k] \in E
  BY <1>1
<1> QED
  BY <1>2, SubSeqProperties DEF From

LEMMA EntryType ==
  ASSUME NEW s \in Seq([conn : Clients, fd : FdOrNone]) PROVE s \in Seq(Entry)
<1>1. [conn : Clients, fd : FdOrNone] \subseteq Entry
  BY DEF Entry
<1> QED
  BY <1>1, SeqMonotonic

LEMMA SoTransmitterType == ASSUME TypeOK, SoTransmitter PROVE TypeOK'
<1>0. ASSUME soQueue # <<>>
      PROVE  /\ Head(soQueue) \in Message
             /\ Tail(soQueue) \in Seq(Message)
  BY <1>0, HeadTailProperties DEF TypeOK
<1>1. CASE StTakeBroadcast
  <2>1. stNext' \in Clients \union {Nil}
    <3>1. ASSUME globSoMap # <<>>
          PROVE  globSoMap[1] \in [conn : Clients, fd : FdOrNone]
      <4>1. globSoMap \in Seq([conn : Clients, fd : FdOrNone])
        BY DEF TypeOK
      <4>2. Len(globSoMap) \in Nat \ {0}
        BY <3>1, <4>1, EmptySeq
      <4>3. 1 \in 1 .. Len(globSoMap)
        BY <4>2
      <4> QED
        BY <4>1, <4>3, ElementOfSeq, Zenon
    <3> QED
      BY <1>1, <3>1 DEF StTakeBroadcast
  <2> QED
    BY <1>0, <1>1, <2>1 DEF StTakeBroadcast, TypeOK
<1>2. CASE StTakeDirected
  <2>1. tidSoMap[Head(soQueue).tid] \in FdOrNone
    BY <1>0, <1>2 DEF StTakeDirected, TypeOK, Message
  <2> QED
    BY <1>0, <1>2, <2>1 DEF StTakeDirected, TypeOK
<1>3. CASE StWrite
  <2>1. stMsg \in Message
    BY <1>3 DEF StWrite, TypeOK
  <2>2. /\ up' \in BOOLEAN
        /\ inbox' \in [Clients -> Seq(Message)]
        /\ owed' \in [Clients -> SUBSET Nat]
    BY <1>3, <2>1, WriteType DEF StWrite
  <2> QED
    BY <1>3, <2>2, NoFdType DEF StWrite, TypeOK
<1>4. CASE StLock
  <2>1. stRest' \in Seq(Entry)
    <3>1. CASE stRest' = <<>>
      BY <3>1
    <3>2. ASSUME NEW i \in 1 .. Len(globSoMap), stRest' = From(i)
          PROVE  stRest' \in Seq(Entry)
      <4>0. Len(globSoMap) \in Nat
        BY LenProperties DEF TypeOK
      <4>1. i \in Nat \ {0}
        BY <4>0
      <4> QED
        BY <3>2, <4>1, FromType, EntryType
    <3> QED
      BY <1>4, <3>1, <3>2 DEF StLock
  <2> QED
    BY <1>4, <2>1 DEF StLock, TypeOK
<1>5. CASE StLockDangling
  <2>1. stRest' \in Seq(Entry) /\ up' \in BOOLEAN
    <3>1. CASE up' = FALSE /\ UNCHANGED <<stRest, stPc>>
      BY <3>1 DEF TypeOK
    <3>2. ASSUME NEW f \in FdOrNone, NEW i \in 1 .. Len(globSoMap) + 1,
                 stRest' = <<[conn |-> stNext, fd |-> f]>> \o From(i), UNCHANGED up
          PROVE  stRest' \in Seq(Entry) /\ up' \in BOOLEAN
      <4>1. i \in Nat \ {0}
        BY LenProperties DEF TypeOK
      <4>2. From(i) \in Seq(Entry)
        BY <4>1, FromType, EntryType
      <4>3. [conn |-> stNext, fd |-> f] \in Entry
        BY DEF TypeOK, Entry
      <4>4. <<[conn |-> stNext, fd |-> f]>> \in Seq(Entry)
        BY <4>3
      <4> QED
        BY <3>2, <4>2, <4>4, ConcatProperties DEF TypeOK
    <3> QED
      BY <1>5, <3>1, <3>2 DEF StLockDangling
  <2>2. stPc' \in {"iter", "walk"}
    BY <1>5 DEF StLockDangling
  <2> QED
    BY <1>5, <2>1, <2>2 DEF StLockDangling, TypeOK
<1>6. CASE StWalk
  <2>1. stMsg \in Message
    BY <1>6 DEF StWalk, TypeOK
  <2>2. /\ up' \in BOOLEAN
        /\ inbox' \in [Clients -> Seq(Message)]
        /\ owed' \in [Clients -> SUBSET Nat]
    BY <1>6, <2>1, WriteType DEF StWalk
  <2>3. stRest' \in Seq(Entry)
    BY <1>6, HeadTailProperties DEF StWalk, TypeOK
  <2> QED
    BY <1>6, <2>2, <2>3 DEF StWalk, TypeOK
<1>7. CASE StUnlock
  BY <1>7 DEF StUnlock, TypeOK
<1> QED
  BY <1>1, <1>2, <1>3, <1>4, <1>5, <1>6, <1>7 DEF SoTransmitter


LEMMA NextType == TypeOK /\ [Next]_vars => TypeOK'
<1> SUFFICES ASSUME TypeOK, [Next]_vars PROVE TypeOK'
  OBVIOUS
<1>1. CASE UNCHANGED vars
  BY <1>1 DEF vars, TypeOK
<1>2. CASE Idle
  BY <1>2, <1>1 DEF Idle
<1> QED
  BY <1>1, <1>2, ServerType, GateInType, RfTransmitterType, GateOutType,
     SoTransmitterType, SoReceiverType, ClientType DEF Next

\* The state keeps the shape TypeOK gives it: no queue element, list node or
\* thread variable of the driver ever holds what its code does not expect.
THEOREM TypeCorrect == Spec => []TypeOK
<1> QED
  BY InitType, NextType, PTL DEF Spec
-----------------------------------------------------------------------------
(* Descriptors and the list of registered connections.                     *)

LEMMA ElemsAppend ==
  ASSUME NEW S, NEW s \in Seq(S), NEW x \in S
  PROVE  Elems(Append(s, x)) = Elems(s) \union {x}
<1>1. /\ Append(s, x) \in Seq(S) /\ Len(Append(s, x)) = Len(s) + 1
      /\ \A i \in 1 .. Len(s) : Append(s, x)[i] = s[i]
      /\ Append(s, x)[Len(s) + 1] = x
  BY AppendProperties
<1>2. Len(s) \in Nat /\ DOMAIN s = 1 .. Len(s)
      /\ DOMAIN Append(s, x) = 1 .. Len(s) + 1
  BY <1>1, LenProperties
<1> QED
  BY <1>1, <1>2 DEF Elems

LEMMA ElemsTail ==
  ASSUME NEW S, NEW s \in Seq(S), s # <<>>
  PROVE  Head(s) \in Elems(s) /\ Elems(Tail(s)) \subseteq Elems(s)
<1>1. /\ Tail(s) \in Seq(S) /\ Len(Tail(s)) = Len(s) - 1
      /\ \A i \in 1 .. Len(s) - 1 : Tail(s)[i] = s[i + 1]
      /\ Head(s) = s[1]
  BY HeadTailProperties
<1>2. Len(s) \in Nat \ {0} /\ DOMAIN s = 1 .. Len(s)
      /\ DOMAIN Tail(s) = 1 .. Len(s) - 1
  BY <1>1, LenProperties, EmptySeq
<1> QED
  BY <1>1, <1>2 DEF Elems

-----------------------------------------------------------------------------
(* Only four actions touch a descriptor or the list of connections.        *)

LEMMA RegistryFrame ==
  ASSUME [Next]_vars
  PROVE  \/ \E c \in Clients :
              Accept(c) \/ Register(c) \/ Unregister(c) \/ Close(c)
         \/ UNCHANGED <<rx, sock, globSoMap>>
<1>1. CASE UNCHANGED vars
  BY <1>1 DEF vars
<1>2. CASE Idle
  BY <1>2 DEF Idle, vars
<1>3. CASE GateIn
  BY <1>3 DEF GateIn, GateInStore, GateInTransmit, GateInOther, GateInRefuse,
         GateInAccept, GateInMatrix
<1>4. CASE RfTransmitter \/ ChipHangs
  BY <1>4 DEF RfTransmitter, RfReject, RfFragment, RfSend, RfAcked, RfUnreachable, ChipHangs
<1>5. CASE GateOut
  BY <1>5 DEF GateOut, GateOutReply, GateOutEvent
<1>6. CASE SoTransmitter
  BY <1>6 DEF SoTransmitter, StTakeBroadcast, StTakeDirected, StWrite, StLock,
       StLockDangling, StWalk, StUnlock
<1>7. CASE Server
  BY <1>7 DEF Server, AcceptFails
<1>8. ASSUME NEW c \in Clients, Client(c)
      PROVE  UNCHANGED <<rx, sock, globSoMap>>
  BY <1>8 DEF Client, Connect, ClientSend, ClientRead, HangUp
<1>9. ASSUME NEW c \in Clients, SoReceiver(c)
      PROVE  \/ Register(c) \/ Unregister(c) \/ Close(c)
             \/ UNCHANGED <<rx, sock, globSoMap>>
  BY <1>9 DEF SoReceiver, Receive
<1> QED
  BY <1>1, <1>2, <1>3, <1>4, <1>5, <1>6, <1>7, <1>8, <1>9 DEF Next

LEMMA OwnDescriptorInit == Init => OwnDescriptor
BY DEF Init, OwnDescriptor, Alive

LEMMA OwnDescriptorNext ==
  ASSUME TypeOK, OwnDescriptor, [Next]_vars PROVE OwnDescriptor'
<1>1. ASSUME NEW c \in Clients, Accept(c) PROVE OwnDescriptor'
  <2>1. PICK f \in FreeFds : sock' = [sock EXCEPT ![c] = f]
    BY <1>1 DEF Accept
  <2>2. f \in Fds /\ \A d \in Clients : Alive(d) => sock[d] # f
    BY DEF FreeFds, Holders
  <2>3. rx' = [rx EXCEPT ![c] = "start"] /\ rx[c] = "none"
    BY <1>1 DEF Accept
  <2> QED
    BY <2>1, <2>2, <2>3 DEF OwnDescriptor, Alive, TypeOK
<1>2. ASSUME NEW c \in Clients, Register(c) PROVE OwnDescriptor'
  BY <1>2 DEF Register, OwnDescriptor, Alive, TypeOK
<1>3. ASSUME NEW c \in Clients, Unregister(c) PROVE OwnDescriptor'
  BY <1>3 DEF Unregister, OwnDescriptor, Alive, TypeOK
<1>4. ASSUME NEW c \in Clients, Close(c) PROVE OwnDescriptor'
  BY <1>4 DEF Close, OwnDescriptor, Alive, TypeOK
<1>5. CASE UNCHANGED <<rx, sock, globSoMap>>
  BY <1>5 DEF OwnDescriptor, Alive
<1> QED
  BY <1>1, <1>2, <1>3, <1>4, <1>5, RegistryFrame

\* Two open connections never have the same descriptor.
THEOREM DescriptorsAreOwned == Spec => []OwnDescriptor
<1>1. TypeOK /\ OwnDescriptor /\ [Next]_vars => OwnDescriptor'
  BY OwnDescriptorNext
<1> QED
  BY <1>1, OwnDescriptorInit, TypeCorrect, PTL DEF Spec

-----------------------------------------------------------------------------
(* The list of registered connections.                                     *)

\* What is left of a sequence without its i-th element.
LEMMA WithoutProperties ==
  ASSUME NEW S, NEW s \in Seq(S), NEW i \in 1 .. Len(s)
  PROVE  LET r == SubSeq(s, 1, i - 1) \o SubSeq(s, i + 1, Len(s))
         IN  /\ Len(r) = Len(s) - 1
             /\ \A k \in 1 .. Len(s) - 1 : r[k] = IF k < i THEN s[k] ELSE s[k + 1]
<1> DEFINE a == SubSeq(s, 1, i - 1)
           b == SubSeq(s, i + 1, Len(s))
<1>1. Len(s) \in Nat /\ i \in Int /\ \A k \in 1 .. Len(s) : s[k] \in S
  BY LenProperties, ElementOfSeq
<1>2. /\ a \in Seq(S) /\ Len(a) = i - 1
      /\ \A k \in 1 .. i - 1 : a[k] = s[k]
  <2>1. 1 \in Int /\ i - 1 \in Int /\ \A k \in 1 .. i - 1 : s[k] \in S
    BY <1>1
  <2>2. /\ a \in Seq(S)
        /\ Len(a) = IF 1 <= i - 1 THEN i - 1 - 1 + 1 ELSE 0
        /\ \A k \in 1 .. i - 1 - 1 + 1 : a[k] = s[1 + k - 1]
    BY <2>1, SubSeqProperties
  <2> HIDE DEF a
  <2> QED
    BY <1>1, <2>2
<1>3. /\ b \in Seq(S) /\ Len(b) = Len(s) - i
      /\ \A k \in 1 .. Len(s) - i : b[k] = s[i + k]
  <2>1. i + 1 \in Int /\ Len(s) \in Int /\ \A k \in i + 1 .. Len(s) : s[k] \in S
    BY <1>1
  <2>2. /\ b \in Seq(S)
        /\ Len(b) = IF i + 1 <= Len(s) THEN Len(s) - (i + 1) + 1 ELSE 0
        /\ \A k \in 1 .. Len(s) - (i + 1) + 1 : b[k] = s[i + 1 + k - 1]
    BY <2>1, SubSeqProperties
  <2> HIDE DEF b
  <2> QED
    BY <1>1, <2>2
<1> HIDE DEF a, b
<1>4. /\ Len(a \o b) = Len(a) + Len(b)
      /\ \A k \in 1 .. Len(a) + Len(b) :
           (a \o b)[k] = IF k <= Len(a) THEN a[k] ELSE b[k - Len(a)]
  BY <1>2, <1>3, ConcatProperties
<1>5. Len(a \o b) = Len(s) - 1
  BY <1>1, <1>2, <1>3, <1>4
<1>6. ASSUME NEW k \in 1 .. Len(s) - 1
      PROVE  (a \o b)[k] = IF k < i THEN s[k] ELSE s[k + 1]
  <2>1. CASE k < i
    BY <1>1, <1>2, <1>3, <1>4, <2>1
  <2>2. CASE ~(k < i)
    <3>1. k - Len(a) \in 1 .. Len(s) - i /\ i + (k - Len(a)) = k + 1
      BY <1>1, <1>2, <2>2
    <3>2. (a \o b)[k] = b[k - Len(a)]
      BY <1>1, <1>2, <1>3, <1>4, <2>2
    <3> QED
      BY <1>3, <2>2, <3>1, <3>2
  <2> QED
    BY <2>1, <2>2
<1> QED
  BY <1>5, <1>6 DEF a, b

LEMMA ListType ==
  ASSUME TypeOK
  PROVE  /\ globSoMap \in Seq([conn : Clients, fd : FdOrNone])
         /\ Len(globSoMap) \in Nat
         /\ \A i \in 1 .. Len(globSoMap) : globSoMap[i].conn \in Clients
<1>1. globSoMap \in Seq([conn : Clients, fd : FdOrNone])
  BY DEF TypeOK
<1>2. /\ Len(globSoMap) \in Nat
      /\ \A i \in 1 .. Len(globSoMap) :
           globSoMap[i] \in [conn : Clients, fd : FdOrNone]
  BY <1>1, LenProperties, ElementOfSeq
<1> QED
  BY <1>1, <1>2

\* A connection that registers is not in the list yet.
LEMMA RegisterKeepsList ==
  ASSUME TypeOK, RegisteredIsOpen, NEW c \in Clients, Register(c)
  PROVE  RegisteredIsOpen'
<1> DEFINE e == [conn |-> c, fd |-> sock[c]]
<1>1. e \in [conn : Clients, fd : FdOrNone]
  BY DEF TypeOK
<1>2. <<e>> \in Seq([conn : Clients, fd : FdOrNone]) /\ Len(<<e>>) = 1 /\ <<e>>[1] = e
  BY <1>1
<1>3. globSoMap' = <<e>> \o globSoMap
  BY DEF Register
<1>4. /\ Len(globSoMap') = Len(globSoMap) + 1
      /\ globSoMap'[1] = e
      /\ \A i \in 2 .. Len(globSoMap') : globSoMap'[i] = globSoMap[i - 1]
  <2> HIDE DEF e
  <2>1. /\ Len(globSoMap') = 1 + Len(globSoMap)
        /\ \A i \in 1 .. 1 + Len(globSoMap) :
             globSoMap'[i] = IF i <= 1 THEN <<e>>[i] ELSE globSoMap[i - 1]
    BY <1>2, <1>3, ListType, ConcatProperties
  <2> QED
    BY <1>2, <2>1, ListType
<1>5. rx[c] = "start" /\ rx' = [rx EXCEPT ![c] = "reading"] /\ sock' = sock
  BY DEF Register
<1>6. ASSUME NEW i \in 1 .. Len(globSoMap')
      PROVE  rx'[globSoMap'[i].conn] = "reading"
             /\ globSoMap'[i].fd = sock'[globSoMap'[i].conn]
  <2>1. CASE i = 1
    BY <1>4, <1>5, <2>1 DEF TypeOK
  <2>2. CASE i # 1
    <3>1. i - 1 \in 1 .. Len(globSoMap) /\ globSoMap'[i] = globSoMap[i - 1]
      BY <1>4, <2>2, ListType
    <3> QED
      BY <1>5, <3>1, ListType DEF RegisteredIsOpen, TypeOK
  <2> QED
    BY <2>1, <2>2
<1>7. ASSUME NEW i \in 1 .. Len(globSoMap'), NEW j \in 1 .. Len(globSoMap'),
             globSoMap'[i].conn = globSoMap'[j].conn
      PROVE  i = j
  <2>1. \A k \in 2 .. Len(globSoMap') :
          /\ k - 1 \in 1 .. Len(globSoMap)
          /\ globSoMap'[k] = globSoMap[k - 1]
          /\ globSoMap'[k].conn # c
    <3>1. \A k \in 2 .. Len(globSoMap') :
            k - 1 \in 1 .. Len(globSoMap) /\ globSoMap'[k] = globSoMap[k - 1]
      BY <1>4, ListType
    <3>2. \A k \in 1 .. Len(globSoMap) : globSoMap[k].conn # c
      BY <1>5 DEF RegisteredIsOpen
    <3> QED
      BY <3>1, <3>2
  <2>2. CASE i = 1 \/ j = 1
    BY <1>4, <1>7, <2>1, <2>2, ListType
  <2>3. CASE i # 1 /\ j # 1
    <3>1. i - 1 = j - 1
      BY <1>4, <1>7, <2>1, <2>3, ListType DEF RegisteredIsOpen
    <3> QED
      BY <1>4, <3>1, ListType
  <2> QED
    BY <2>2, <2>3
<1> QED
  BY <1>6, <1>7 DEF RegisteredIsOpen

\* The entry found under a descriptor is the one of the connection that holds
\* the descriptor, and it is the only one of this connection.
LEMMA UnregisterKeepsList ==
  ASSUME TypeOK, OwnDescriptor, RegisteredIsOpen, NEW c \in Clients, Unregister(c)
  PROVE  RegisteredIsOpen'
<1>1. rx[c] = "reading" /\ rx' = [rx EXCEPT ![c] = "unreg"] /\ sock' = sock
      /\ RemoveFd(sock[c])
  BY DEF Unregister
<1>2. ASSUME NEW i \in 1 .. Len(globSoMap), globSoMap[i].fd = sock[c]
      PROVE  globSoMap[i].conn = c
  BY <1>1, <1>2, ListType DEF RegisteredIsOpen, OwnDescriptor, Alive
<1>3. ASSUME NEW i \in 1 .. Len(globSoMap), globSoMap[i].conn = c
      PROVE  globSoMap[i].fd = sock[c]
  BY <1>3 DEF RegisteredIsOpen
<1>4. CASE globSoMap' = globSoMap
           /\ \A i \in 1 .. Len(globSoMap) : globSoMap[i].fd # sock[c]
  BY <1>1, <1>3, <1>4, ListType DEF RegisteredIsOpen, TypeOK
<1>5. ASSUME NEW i \in 1 .. Len(globSoMap), globSoMap[i].fd = sock[c],
             globSoMap' = SubSeq(globSoMap, 1, i - 1)
                            \o SubSeq(globSoMap, i + 1, Len(globSoMap))
      PROVE  RegisteredIsOpen'
  <2>1. /\ Len(globSoMap') = Len(globSoMap) - 1
        /\ \A k \in 1 .. Len(globSoMap) - 1 :
             globSoMap'[k] = IF k < i THEN globSoMap[k] ELSE globSoMap[k + 1]
    BY <1>5, ListType, WithoutProperties
  <2> DEFINE old(k) == IF k < i THEN k ELSE k + 1
  <2>2. \A k \in 1 .. Len(globSoMap') :
          /\ old(k) \in 1 .. Len(globSoMap) /\ old(k) # i
          /\ globSoMap'[k] = globSoMap[old(k)]
    <3> SUFFICES ASSUME NEW k \in 1 .. Len(globSoMap')
                 PROVE  /\ old(k) \in 1 .. Len(globSoMap) /\ old(k) # i
                        /\ globSoMap'[k] = globSoMap[old(k)]
      OBVIOUS
    <3>1. k \in 1 .. Len(globSoMap) - 1 /\ Len(globSoMap) \in Nat
      BY <2>1, ListType
    <3>2. old(k) \in 1 .. Len(globSoMap) /\ old(k) # i
      BY <3>1
    <3>3. globSoMap'[k] = globSoMap[old(k)]
      BY <2>1, <3>1
    <3> QED
      BY <3>2, <3>3
  <2>3. \A k, l \in 1 .. Len(globSoMap') : old(k) = old(l) => k = l
    BY <2>1, ListType
  <2> HIDE DEF old
  <2>4. globSoMap[i].conn = c
    BY <1>2, <1>5
  <2>5. ASSUME NEW k \in 1 .. Len(globSoMap') PROVE globSoMap'[k].conn # c
    <3>1. globSoMap[old(k)].conn # globSoMap[i].conn
      BY <2>2 DEF RegisteredIsOpen
    <3> QED
      BY <2>2, <2>4, <3>1
  <2>6. \A k \in 1 .. Len(globSoMap') :
          rx'[globSoMap'[k].conn] = "reading"
          /\ globSoMap'[k].fd = sock'[globSoMap'[k].conn]
    <3> SUFFICES ASSUME NEW k \in 1 .. Len(globSoMap')
                 PROVE  rx'[globSoMap'[k].conn] = "reading"
                        /\ globSoMap'[k].fd = sock'[globSoMap'[k].conn]
      OBVIOUS
    <3>1. /\ old(k) \in 1 .. Len(globSoMap) /\ globSoMap'[k] = globSoMap[old(k)]
          /\ globSoMap[old(k)].conn \in Clients \ {c}
      BY <2>2, <2>5, ListType
    <3>2. /\ rx[globSoMap[old(k)].conn] = "reading"
          /\ globSoMap[old(k)].fd = sock[globSoMap[old(k)].conn]
      BY <3>1 DEF RegisteredIsOpen
    <3> QED
      BY <1>1, <3>1, <3>2 DEF TypeOK
  <2>7. \A k, l \in 1 .. Len(globSoMap') :
          globSoMap'[k].conn = globSoMap'[l].conn => k = l
    <3> SUFFICES ASSUME NEW k \in 1 .. Len(globSoMap'), NEW l \in 1 .. Len(globSoMap'),
                        globSoMap'[k].conn = globSoMap'[l].conn
                 PROVE  k = l
      OBVIOUS
    <3>1. globSoMap[old(k)].conn = globSoMap[old(l)].conn
      BY <2>2
    <3>2. old(k) \in 1 .. Len(globSoMap) /\ old(l) \in 1 .. Len(globSoMap)
      BY <2>2
    <3>3. old(k) = old(l)
      BY <3>1, <3>2 DEF RegisteredIsOpen
    <3> QED
      BY <2>3, <3>3
  <2> QED
    BY <2>6, <2>7 DEF RegisteredIsOpen
<1> QED
  BY <1>1, <1>4, <1>5 DEF RemoveFd

LEMMA RegisteredNext ==
  ASSUME TypeOK, OwnDescriptor, RegisteredIsOpen, [Next]_vars
  PROVE  RegisteredIsOpen'
<1>1. ASSUME NEW c \in Clients, Accept(c) PROVE RegisteredIsOpen'
  <2>1. /\ rx[c] = "none" /\ rx' = [rx EXCEPT ![c] = "start"]
        /\ globSoMap' = globSoMap
        /\ \A d \in Clients : d # c => sock'[d] = sock[d]
    BY <1>1 DEF Accept, TypeOK
  <2> QED
    BY <2>1, ListType DEF RegisteredIsOpen, TypeOK
<1>2. ASSUME NEW c \in Clients, Close(c) PROVE RegisteredIsOpen'
  <2>1. /\ rx[c] = "unreg" /\ rx' = [rx EXCEPT ![c] = "closed"]
        /\ globSoMap' = globSoMap /\ sock' = sock
    BY <1>2 DEF Close
  <2> QED
    BY <2>1, ListType DEF RegisteredIsOpen, TypeOK
<1>3. CASE UNCHANGED <<rx, sock, globSoMap>>
  BY <1>3 DEF RegisteredIsOpen
<1> QED
  BY <1>1, <1>2, <1>3, RegisterKeepsList, UnregisterKeepsList, RegistryFrame

\* so_receiver.c:92-98: whatever a broadcast or MAP_remove finds in globSoMap is
\* an open descriptor, the one of the connection that registered it.
THEOREM RegisteredAreOpen == Spec => []RegisteredIsOpen
<1>1. Init => RegisteredIsOpen
  BY DEF Init, RegisteredIsOpen
<1>2. TypeOK /\ OwnDescriptor /\ RegisteredIsOpen /\ [Next]_vars => RegisteredIsOpen'
  BY RegisteredNext
<1> QED
  BY <1>1, <1>2, TypeCorrect, DescriptorsAreOwned, PTL DEF Spec

-----------------------------------------------------------------------------
(* The walk of a broadcast.                                                *)

LEMMA FromIsPart ==
  ASSUME TypeOK, NEW i \in Nat \ {0}
  PROVE  /\ Len(From(i)) \in Nat
         /\ \A k \in 1 .. Len(From(i)) :
              \E j \in 1 .. Len(globSoMap) : From(i)[k] = globSoMap[j]
<1> DEFINE E == [conn : Clients, fd : FdOrNone]
<1>0. \A k \in 1 .. Len(globSoMap) : globSoMap[k] \in E
  BY ListType, ElementOfSeq
<1>1. /\ i \in Int /\ Len(globSoMap) \in Int
      /\ \A k \in i .. Len(globSoMap) : globSoMap[k] \in E
  BY <1>0, ListType
<1>2. /\ Len(From(i)) = IF i <= Len(globSoMap) THEN Len(globSoMap) - i + 1 ELSE 0
      /\ \A k \in 1 .. Len(globSoMap) - i + 1 : From(i)[k] = globSoMap[i + k - 1]
  BY <1>1, SubSeqProperties DEF From
<1>3. ASSUME NEW k \in 1 .. Len(From(i))
      PROVE  \E j \in 1 .. Len(globSoMap) : From(i)[k] = globSoMap[j]
  <2>1. k \in 1 .. Len(globSoMap) - i + 1 /\ i + k - 1 \in 1 .. Len(globSoMap)
    BY <1>2, ListType
  <2> QED
    BY <1>2, <2>1
<1> QED
  BY <1>2, <1>3, ListType

LEMMA WalkNext ==
  ASSUME TypeOK, WalkIsRegistered, [Next]_vars PROVE WalkIsRegistered'
<1> SUFFICES ASSUME stPc' = "walk" PROVE WalkIsRegistered'
  BY DEF WalkIsRegistered
<1>0. stRest \in Seq(Entry) /\ Len(stRest) \in Nat
  BY LenProperties DEF TypeOK
<1>1. CASE StLock
  <2>1. globSoMap' = globSoMap
    BY <1>1 DEF StLock
  <2>2. CASE stRest' = <<>>
    BY <2>2, EmptySeq DEF WalkIsRegistered
  <2>3. ASSUME NEW i \in 1 .. Len(globSoMap), stRest' = From(i)
        PROVE  WalkIsRegistered'
    <3>1. i \in Nat \ {0}
      BY ListType
    <3>2. \A k \in 1 .. Len(stRest') :
            \E j \in 1 .. Len(globSoMap) : stRest'[k] = globSoMap[j]
      BY <2>3, <3>1, FromIsPart
    <3> QED
      BY <2>1, <3>2 DEF WalkIsRegistered
  <2> QED
    BY <1>1, <2>2, <2>3 DEF StLock
<1>2. CASE StLockDangling
  <2>1. /\ globSoMap' = globSoMap /\ stNext' = stNext
        /\ \A j \in 1 .. Len(globSoMap) : globSoMap[j].conn # stNext
        /\ stPc = "iter"
    BY <1>2 DEF StLockDangling
  <2>2. PICK f \in FdOrNone, i \in 1 .. Len(globSoMap) + 1 :
          stRest' = <<[conn |-> stNext, fd |-> f]>> \o From(i)
    BY <1>2, <2>1 DEF StLockDangling
  <2> DEFINE e == [conn |-> stNext, fd |-> f]
  <2>3. e \in Entry
    BY DEF TypeOK, Entry
  <2>4. i \in Nat \ {0}
    BY ListType
  <2>5. From(i) \in Seq(Entry)
    BY <2>4, FromType, EntryType
  <2> HIDE DEF e
  <2>6. <<e>> \in Seq(Entry) /\ Len(<<e>>) = 1
    BY <2>3
  <2>7. /\ Len(stRest') = 1 + Len(From(i))
        /\ \A k \in 1 .. 1 + Len(From(i)) :
             stRest'[k] = IF k <= 1 THEN <<e>>[k] ELSE From(i)[k - 1]
    BY <2>2, <2>5, <2>6, ConcatProperties DEF e
  <2>8. ASSUME NEW k \in 1 .. Len(stRest'), k # 1
        PROVE  \E j \in 1 .. Len(globSoMap) : globSoMap[j] = stRest'[k]
    <3>1. k - 1 \in 1 .. Len(From(i)) /\ stRest'[k] = From(i)[k - 1]
      BY <2>4, <2>7, <2>8, FromIsPart
    <3> QED
      BY <2>4, <3>1, FromIsPart
  <2> QED
    BY <2>1, <2>8 DEF WalkIsRegistered
<1>3. CASE StWalk
  <2>1. /\ stPc = "walk" /\ stRest # <<>> /\ stRest' = Tail(stRest)
        /\ globSoMap' = globSoMap
    BY <1>3 DEF StWalk
  <2>2. /\ Len(stRest') = Len(stRest) - 1
        /\ \A k \in 1 .. Len(stRest) - 1 : stRest'[k] = stRest[k + 1]
    BY <1>0, <2>1, HeadTailProperties
  <2>3. \A k \in 1 .. Len(stRest') :
          k + 1 \in 1 .. Len(stRest) /\ k + 1 # 1 /\ stRest'[k] = stRest[k + 1]
    BY <1>0, <2>2
  <2> QED
    BY <2>1, <2>3 DEF WalkIsRegistered
<1>4. CASE UNCHANGED <<stPc, stRest, globSoMap, stNext>>
  BY <1>4 DEF WalkIsRegistered
<1>5. [Next]_vars => \/ StLock \/ StLockDangling \/ StWalk
                     \/ UNCHANGED <<stPc, stRest, globSoMap, stNext>>
  <2>1. CASE UNCHANGED vars
    BY <2>1 DEF vars
  <2>2. CASE Idle
    BY <2>2 DEF Idle, vars
  <2>3. CASE GateIn
    BY <2>3 DEF GateIn, GateInStore, GateInTransmit, GateInOther, GateInRefuse,
         GateInAccept, GateInMatrix
  <2>4. CASE RfTransmitter \/ ChipHangs
    BY <2>4 DEF RfTransmitter, RfReject, RfFragment, RfSend, RfAcked, RfUnreachable, ChipHangs
  <2>5. CASE GateOut
    BY <2>5 DEF GateOut, GateOutReply, GateOutEvent
  <2>6. CASE SoTransmitter
    BY <2>6 DEF SoTransmitter, StTakeBroadcast, StTakeDirected, StWrite, StUnlock
  <2>7. CASE Server
    BY <2>7 DEF Server, Accept, AcceptFails
  <2>8. ASSUME NEW c \in Clients, Client(c)
        PROVE  UNCHANGED <<stPc, stRest, globSoMap, stNext>>
    BY <2>8 DEF Client, Connect, ClientSend, ClientRead, HangUp
  <2>9. ASSUME NEW c \in Clients, SoReceiver(c)
        PROVE  UNCHANGED <<stPc, stRest, globSoMap, stNext>>
    BY <2>9 DEF SoReceiver, Register, Receive, Unregister, Close, MapLocked
  <2> QED
    BY <2>1, <2>2, <2>3, <2>4, <2>5, <2>6, <2>7, <2>8, <2>9 DEF Next
<1> QED
  BY <1>1, <1>2, <1>3, <1>4, <1>5

\* so_transmitter.c:28-35: a broadcast writes to registered descriptors only,
\* but for the node it read before it had the lock.
THEOREM WalksAreRegistered == Spec => []WalkIsRegistered
<1>1. Init => WalkIsRegistered
  BY DEF Init, WalkIsRegistered
<1>2. TypeOK /\ WalkIsRegistered /\ [Next]_vars => WalkIsRegistered'
  BY WalkNext
<1> QED
  BY <1>1, <1>2, TypeCorrect, PTL DEF Spec
-----------------------------------------------------------------------------
(* Transactions: with disciplined clients one leads back to its client.    *)

LEMMA DisciplinedTid ==
  ASSUME Disciplined, NEW c \in Clients, NEW t \in TidsOf(c)
  PROVE  /\ t \in Tid /\ t # NoTid
         /\ ParseTid(t) = t /\ Tid16(t) = t
         /\ \A d \in Clients : t \in TidsOf(d) => d = c
<1>1. PICK r \in RequestsOf[c] : t = r.tid
  BY DEF TidsOf
<1>2. r \in Request
  BY RoutingAssumption
<1>3. t \in Tid
  BY <1>1, <1>2 DEF Request
<1>4. t # NoTid /\ ParseTid(t) = t /\ Tid16(t) = t
  BY <1>1 DEF Disciplined
<1>5. \A d \in Clients : t \in TidsOf(d) => d = c
  BY DEF Disciplined
<1> QED
  BY <1>3, <1>4, <1>5

\* An accepted connection keeps its descriptor.
DescriptorStays ==
  \A c \in Clients : rx[c] # "none" => rx'[c] # "none" /\ sock'[c] = sock[c]

LEMMA DescriptorKept ==
  ASSUME TypeOK, [Next]_vars PROVE DescriptorStays
<1>1. ASSUME NEW c \in Clients, Accept(c) PROVE DescriptorStays
  BY <1>1 DEF Accept, DescriptorStays, TypeOK
<1>2. ASSUME NEW c \in Clients, Register(c) \/ Unregister(c) \/ Close(c)
      PROVE  DescriptorStays
  BY <1>2 DEF Register, Unregister, Close, DescriptorStays, TypeOK
<1>3. CASE UNCHANGED <<rx, sock, globSoMap>>
  BY <1>3 DEF DescriptorStays
<1> QED
  BY <1>1, <1>2, <1>3, RegistryFrame

LEMMA AcceptedFd ==
  ASSUME OwnDescriptor, NEW c \in Clients
  PROVE  rx[c] = "none" <=> sock[c] = NoFd
BY RoutingAssumption DEF OwnDescriptor, NoFd

\* The types of what the parts of OwnTransactions speak of.
LEMMA ElemTypes ==
  ASSUME TypeOK
  PROVE  /\ \A c \in Clients : Elems(toDriver[c]) \subseteq Sent
         /\ Elems(gateInQueue) \subseteq GateElem
         /\ Elems(rfQueue) \subseteq RfElem
         /\ Elems(soQueue) \subseteq Message
<1>1. ASSUME NEW S, NEW s \in Seq(S) PROVE Elems(s) \subseteq S
  BY LenProperties, ElementOfSeq DEF Elems
<1> QED
  BY <1>1 DEF TypeOK

-----------------------------------------------------------------------------
LEMMA ClientOwn ==
  ASSUME Disciplined, TypeOK, OwnTransactions, NEW c \in Clients, Client(c)
  PROVE  OwnTransactions'
<1> USE DEF OwnTransactions
<1>1. /\ UNCHANGED <<rx, sock, giVars, rfVars, remote, soQueue, stVars>>
      /\ toDriver' = toDriver \/ ClientSend(c)
  BY DEF Client, Connect, ClientSend, ClientRead, HangUp
<1>2. OwnGate' /\ OwnRadio' /\ OwnReplies' /\ OwnMap' /\ OwnWrite'
  BY <1>1 DEF OwnGate, OwnElem, OwnRadio, OwnReplies, OwnMap, OwnWrite
<1>3. CASE ClientSend(c)
  <2> DEFINE m(r) == [kind |-> r.kind, tid |-> r.tid, exb |-> r.exb,
                      n |-> sent[c] + 1]
  <2>1. PICK r \in RequestsOf[c] :
          toDriver' = [toDriver EXCEPT ![c] = Append(@, m(r))]
    BY <1>3, Zenon DEF ClientSend
  <2>2. r \in Request
    BY RoutingAssumption
  <2>3. m(r) \in Sent /\ toDriver[c] \in Seq(Sent)
    <3>1. m(r) \in Sent
      BY <2>2 DEF Request, Sent, TypeOK
    <3>2. toDriver[c] \in Seq(Sent)
      BY DEF TypeOK
    <3> QED
      BY <3>1, <3>2
  <2>4. m(r).tid \in TidsOf(c) /\ m(r).exb = m(r).tid
    BY DEF TidsOf, Disciplined
  <2> HIDE DEF m
  <2>5. Elems(Append(toDriver[c], m(r))) = Elems(toDriver[c]) \union {m(r)}
    BY <2>3, ElemsAppend
  <2>6. OwnSent'
    BY <2>1, <2>4, <2>5 DEF OwnSent, TypeOK
  <2> QED
    BY <1>2, <2>6
<1>4. CASE toDriver' = toDriver
  BY <1>2, <1>4 DEF OwnSent
<1> QED
  BY <1>1, <1>3, <1>4

LEMMA SoReceiverOwn ==
  ASSUME Disciplined, TypeOK, OwnTransactions, DescriptorStays,
         NEW c \in Clients, SoReceiver(c)
  PROVE  OwnTransactions'
<1> USE DEF OwnTransactions
<1>1. /\ UNCHANGED <<sock, giElem, tidSoMap, rfVars, remote, soQueue, stPc,
                     stMsg, stFd>>
      /\ UNCHANGED <<toDriver, gateInQueue>> \/ Receive(c)
  BY DEF SoReceiver, Register, Receive, Unregister, Close
<1>2. OwnRadio' /\ OwnReplies' /\ OwnMap' /\ OwnWrite'
  BY <1>1 DEF OwnRadio, OwnReplies, OwnMap, OwnWrite, DescriptorStays
<1>3. CASE Receive(c)
  <2> DEFINE h == Head(toDriver[c])
             e == [src |-> c, fd |-> sock[c], req |-> [h EXCEPT !.tid = ParseTid(@)]]
  <2>1. /\ rx[c] = "reading" /\ toDriver[c] # <<>> /\ toDriver[c] \in Seq(Sent)
        /\ gateInQueue' = Append(gateInQueue, e)
        /\ toDriver' = [toDriver EXCEPT ![c] = Tail(@)]
    BY <1>3 DEF Receive, TypeOK
  <2>2. h \in Elems(toDriver[c]) /\ Elems(Tail(toDriver[c])) \subseteq Elems(toDriver[c])
    BY <2>1, ElemsTail
  <2>3. h \in Sent
    BY <2>2, ElemTypes
  <2>4. h.tid \in TidsOf(c) /\ h.exb = h.tid /\ ParseTid(h.tid) = h.tid
    BY <2>2, DisciplinedTid DEF OwnSent
  <2>5. e \in GateElem /\ e.req.tid = h.tid /\ e.req.exb = h.exb
        /\ e.src = c /\ e.fd = sock[c]
    BY <2>3, <2>4 DEF GateElem, Sent, TypeOK
  <2> HIDE DEF e, h
  <2>6. Elems(gateInQueue') = Elems(gateInQueue) \union {e}
    BY <2>1, <2>5, ElemsAppend DEF TypeOK
  <2>7. OwnElem(e)
    BY <2>1, <2>4, <2>5 DEF OwnElem
  <2>8. OwnGate'
    BY <1>1, <1>3, <2>6, <2>7 DEF OwnGate, OwnElem, Receive
  <2>9. OwnSent'
    BY <2>1, <2>2 DEF OwnSent, TypeOK
  <2> QED
    BY <1>2, <2>8, <2>9
<1>4. CASE UNCHANGED <<toDriver, gateInQueue>>
  <2>1. \A e \in GateElem : OwnElem(e) => OwnElem(e)'
    BY DEF OwnElem, DescriptorStays, GateElem
  <2>2. OwnGate'
    BY <1>1, <1>4, <2>1, ElemTypes DEF OwnGate, TypeOK
  <2> QED
    BY <1>2, <1>4, <2>2 DEF OwnSent
<1> QED
  BY <1>1, <1>3, <1>4

LEMMA ServerOwn ==
  ASSUME TypeOK, OwnDescriptor, OwnTransactions, DescriptorStays, Server
  PROVE  OwnTransactions'
<1> USE DEF OwnTransactions
<1>1. UNCHANGED <<toDriver, giVars, rfVars, remote, soQueue, stVars>>
  BY DEF Server, Accept, AcceptFails
<1>2. OwnSent' /\ OwnRadio' /\ OwnReplies'
  BY <1>1 DEF OwnSent, OwnRadio, OwnReplies
<1>3. \A e \in GateElem : OwnElem(e) => OwnElem(e)'
  BY DEF OwnElem, DescriptorStays, GateElem
<1>4. OwnGate'
  BY <1>1, <1>3, ElemTypes DEF OwnGate, TypeOK
<1>5. OwnMap'
  BY <1>1, AcceptedFd DEF OwnMap, DescriptorStays
<1>6. OwnWrite'
  BY <1>1 DEF OwnWrite, DescriptorStays
<1> QED
  BY <1>2, <1>4, <1>5, <1>6

\* GateIn is the only one that writes tidSoMap: the owner's descriptor under a
\* transaction of the owner.
LEMMA GateInOwn ==
  ASSUME Disciplined, TypeOK, OwnDescriptor, OwnTransactions, GateIn
  PROVE  OwnTransactions'
<1> USE DEF OwnTransactions
<1>1. UNCHANGED <<toDriver, rx, sock, sending, left, remote, stVars>>
  BY DEF GateIn, GateInStore, GateInTransmit, GateInOther, GateInRefuse,
         GateInAccept, GateInMatrix
<1>2. OwnSent' /\ OwnWrite'
  BY <1>1 DEF OwnSent, OwnWrite
<1>3. \A e \in GateElem : OwnElem(e) => OwnElem(e)'
  BY <1>1 DEF OwnElem
<1>4. CASE GateInStore
  <2> DEFINE e == Head(gateInQueue)
  <2>1. /\ gateInQueue # <<>> /\ gateInQueue \in Seq(GateElem)
        /\ gateInQueue' = Tail(gateInQueue) /\ giElem' = e
        /\ UNCHANGED <<rfVars, remote, soQueue>>
    BY <1>4 DEF GateInStore, TypeOK
  <2>2. e \in Elems(gateInQueue) /\ Elems(gateInQueue') \subseteq Elems(gateInQueue)
    BY <2>1, ElemsTail
  <2>3. e \in GateElem /\ OwnElem(e)
    BY <2>2, ElemTypes DEF OwnGate
  <2>4. e.src \in Clients /\ e.req.tid \in TidsOf(e.src) /\ e.fd = sock[e.src]
    BY <2>3 DEF GateElem, OwnElem
  <2>5. e.req.tid \in Tid /\ e.req.tid # NoTid
        /\ \A d \in Clients : e.req.tid \in TidsOf(d) => d = e.src
    BY <2>4, DisciplinedTid
  <2>6. e.fd # NoFd
    BY <2>3, <2>4, AcceptedFd DEF OwnElem
  <2>7. tidSoMap' = [tidSoMap EXCEPT ![e.req.tid] = e.fd]
    BY <1>4, <2>5 DEF GateInStore
  <2> HIDE DEF e
  <2>8. \A t \in Tid : tidSoMap[t] # NoFd => tidSoMap'[t] # NoFd
    BY <2>6, <2>7 DEF TypeOK
  <2>9. OwnGate'
    <3>1. tidSoMap'[e.req.tid] # NoFd
      BY <2>5, <2>6, <2>7 DEF TypeOK
    <3> QED
      BY <1>3, <2>1, <2>2, <2>3, <3>1, ElemTypes DEF OwnGate
  <2>10. OwnRadio'
    <3>1. \A x \in Elems(rfQueue) \union remote \union (IF left > 0 THEN {sending} ELSE {}) :
            x.tid \in Tid
      BY ElemTypes DEF TypeOK, RfElem
    <3> QED
      BY <2>1, <2>8, <3>1 DEF OwnRadio
  <2>11. OwnReplies'
    <3>1. \A x \in Elems(soQueue) : x.tid \in Tid
      BY ElemTypes DEF Message
    <3> QED
      BY <2>1, <2>8, <3>1 DEF OwnReplies
  <2>12. OwnMap'
    <3> SUFFICES ASSUME NEW c \in Clients, NEW t \in TidsOf(c)
                 PROVE  tidSoMap'[t] \in {NoFd, sock'[c]}
      BY DEF OwnMap
    <3>1. t \in Tid
      BY DisciplinedTid
    <3>2. CASE t = e.req.tid
      BY <1>1, <2>4, <2>5, <2>7, <3>1, <3>2 DEF TypeOK
    <3>3. CASE t # e.req.tid
      BY <1>1, <2>7, <3>1, <3>3 DEF TypeOK, OwnMap
    <3> QED
      BY <3>2, <3>3
  <2> QED
    BY <1>2, <2>9, <2>10, <2>11, <2>12
<1>5. ASSUME giElem # Nil, GateInDone PROVE OwnGate' /\ OwnMap'
  BY <1>1, <1>3, <1>5, ElemTypes DEF GateInDone, OwnGate, OwnMap
<1>6. ASSUME giElem # Nil
      PROVE  /\ giElem \in GateElem /\ giElem.src \in Clients /\ OwnElem(giElem)
             /\ giElem.req.tid \in Tid /\ giElem.req.exb \in Tid
             /\ giElem.req.n \in Nat
             /\ tidSoMap[giElem.req.tid] # NoFd
  BY <1>6 DEF TypeOK, GateElem, Sent, OwnGate
<1>7. CASE GateInTransmit
  <2> DEFINE x == [src |-> giElem.src, tid |-> giElem.req.exb]
  <2>1. giElem # Nil /\ GateInDone /\ rfQueue' = Append(rfQueue, x) /\ soQueue' = soQueue
    BY <1>7 DEF GateInTransmit
  <2>2. x \in RfElem /\ x.tid \in TidsOf(x.src) /\ tidSoMap[x.tid] # NoFd
    BY <1>6, <2>1 DEF RfElem, OwnElem
  <2> HIDE DEF x
  <2>3. Elems(rfQueue') = Elems(rfQueue) \union {x}
    BY <2>1, <2>2, ElemsAppend DEF TypeOK
  <2>4. OwnRadio' /\ OwnReplies'
    BY <1>1, <2>1, <2>2, <2>3 DEF OwnRadio, OwnReplies, GateInDone
  <2> QED
    BY <1>2, <1>5, <2>1, <2>4
<1>8. CASE GateInRefuse \/ GateInMatrix
  <2>1. PICK g \in Garbage :
          soQueue' = Append(soQueue,
            [tid |-> giElem.req.tid, uniall |-> g, src |-> giElem.src,
             n |-> giElem.req.n])
    BY <1>8, MatrixFacts DEF MatrixAnswer
  <2> DEFINE m == [tid |-> giElem.req.tid, uniall |-> g, src |-> giElem.src,
                   n |-> giElem.req.n]
  <2>2. giElem # Nil /\ GateInDone /\ rfQueue' = rfQueue
    BY <1>8, MatrixFacts
  <2>3. m \in Message
    BY <1>6, <2>2, RoutingAssumption DEF Message
  <2>4. m.src \in Clients /\ m.tid \in TidsOf(m.src) /\ tidSoMap[m.tid] # NoFd
    BY <1>6, <2>2 DEF OwnElem
  <2>5. Elems(soQueue') = Elems(soQueue) \union {m}
    BY <2>1, <2>3, ElemsAppend DEF TypeOK
  <2> HIDE DEF m
  <2>6. OwnRadio' /\ OwnReplies'
    BY <1>1, <2>2, <2>4, <2>5 DEF OwnRadio, OwnReplies, GateInDone
  <2> QED
    BY <1>2, <1>5, <2>2, <2>6
<1>9. CASE GateInOther
  <2>1. giElem # Nil /\ GateInDone /\ UNCHANGED <<rfQueue, soQueue>>
    BY <1>9 DEF GateInOther
  <2>2. OwnRadio' /\ OwnReplies'
    BY <1>1, <2>1 DEF OwnRadio, OwnReplies, GateInDone
  <2> QED
    BY <1>2, <1>5, <2>1, <2>2
<1>10. CASE GateInAccept
  <2>1. UNCHANGED <<gateInQueue, giElem, tidSoMap, rfQueue, soQueue>>
    BY <1>10 DEF GateInAccept
  <2> QED
    BY <1>1, <1>2, <1>3, <2>1, ElemTypes DEF TypeOK, OwnGate, OwnMap, OwnRadio, OwnReplies
<1> QED
  BY <1>4, <1>7, <1>8, <1>9, <1>10 DEF GateIn

\* An answer about a transaction of c that GateIn has stored.
LEMMA AnswerOwn ==
  ASSUME TypeOK, OwnReplies, NEW c \in Clients, NEW t \in Tid, Answer(t, c),
         t \in TidsOf(c), tidSoMap[t] # NoFd, UNCHANGED tidSoMap
  PROVE  OwnReplies'
<1>1. PICK g \in Garbage :
        soQueue' = Append(soQueue, [tid |-> t, uniall |-> g, src |-> c, n |-> 0])
  BY DEF Answer
<1> DEFINE m == [tid |-> t, uniall |-> g, src |-> c, n |-> 0]
<1>2. m \in Message
  BY RoutingAssumption DEF Message
<1>3. Elems(soQueue') = Elems(soQueue) \union {m}
  BY <1>1, <1>2, ElemsAppend DEF TypeOK
<1> QED
  BY <1>3 DEF OwnReplies

LEMMA RfTransmitterOwn ==
  ASSUME Disciplined, TypeOK, OwnTransactions, RfTransmitter \/ ChipHangs
  PROVE  OwnTransactions'
<1> USE DEF OwnTransactions
<1>1. UNCHANGED <<toDriver, rx, sock, giVars, stVars>>
  BY DEF RfTransmitter, RfReject, RfFragment, RfSend, RfAcked, RfUnreachable, ChipHangs
<1>2. OwnSent' /\ OwnGate' /\ OwnMap' /\ OwnWrite'
  BY <1>1 DEF OwnSent, OwnGate, OwnElem, OwnMap, OwnWrite
<1>3. ASSUME rfQueue # <<>>
      PROVE  /\ Head(rfQueue) \in Elems(rfQueue) /\ Head(rfQueue) \in RfElem
             /\ Elems(Tail(rfQueue)) \subseteq Elems(rfQueue)
  BY <1>3, ElemsTail, ElemTypes DEF TypeOK
<1>4. CASE RfReject
  <2>1. /\ rfQueue # <<>> /\ rfQueue' = Tail(rfQueue)
        /\ UNCHANGED <<left, sending, remote>>
        /\ Answer(Head(rfQueue).tid, Head(rfQueue).src)
    BY <1>4 DEF RfReject
  <2>2. /\ Head(rfQueue).src \in Clients /\ Head(rfQueue).tid \in Tid
        /\ Head(rfQueue).tid \in TidsOf(Head(rfQueue).src)
        /\ tidSoMap[Head(rfQueue).tid] # NoFd
    BY <1>3, <2>1 DEF OwnRadio, RfElem
  <2>3. OwnReplies'
    BY <1>1, <2>1, <2>2, AnswerOwn
  <2>4. OwnRadio'
    BY <1>1, <1>3, <2>1 DEF OwnRadio
  <2> QED
    BY <1>2, <2>3, <2>4
<1>5. CASE RfFragment
  <2>1. /\ rfQueue # <<>> /\ rfQueue' = Tail(rfQueue) /\ UNCHANGED <<remote, soQueue>>
        /\ left' > 0 => sending' = Head(rfQueue)
    BY <1>5, RoutingAssumption DEF RfFragment
  <2>2. OwnRadio'
    BY <1>1, <1>3, <2>1 DEF OwnRadio
  <2> QED
    BY <1>1, <1>2, <2>1, <2>2 DEF OwnReplies
<1>6. ASSUME left > 0, FragmentGone PROVE left' > 0 => sending' = sending
  BY <1>6 DEF FragmentGone, TypeOK
<1>7. CASE RfAcked
  <2>1. /\ left > 0 /\ FragmentGone /\ UNCHANGED <<rfQueue, soQueue>>
        /\ remote' \subseteq remote \union {sending}
    BY <1>7, FragmentFacts DEF RfAcked
  <2>2. OwnRadio'
    BY <1>1, <1>6, <2>1 DEF OwnRadio
  <2> QED
    BY <1>1, <1>2, <2>1, <2>2 DEF OwnReplies
<1>8. CASE RfUnreachable
  <2>1. /\ left > 0 /\ FragmentGone /\ UNCHANGED <<rfQueue, remote>>
        /\ Answer(Tid16(sending.tid), sending.src)
    BY <1>8, FragmentFacts DEF RfUnreachable
  <2>2. /\ sending.src \in Clients /\ sending.tid \in TidsOf(sending.src)
        /\ tidSoMap[sending.tid] # NoFd
    BY <2>1 DEF OwnRadio, TypeOK, RfElem
  <2>3. sending.tid \in Tid /\ Tid16(sending.tid) = sending.tid
    BY <2>2, DisciplinedTid
  <2>4. OwnReplies'
    BY <1>1, <2>1, <2>2, <2>3, AnswerOwn
  <2>5. OwnRadio'
    BY <1>1, <1>6, <2>1 DEF OwnRadio
  <2> QED
    BY <1>2, <2>4, <2>5
<1>9. CASE RfSend \/ ChipHangs
  BY <1>1, <1>2, <1>9 DEF RfSend, ChipHangs, OwnRadio, OwnReplies
<1> QED
  BY <1>4, <1>5, <1>7, <1>8, <1>9 DEF RfTransmitter

LEMMA GateOutOwn ==
  ASSUME Disciplined, TypeOK, OwnTransactions, GateOut
  PROVE  OwnTransactions'
<1> USE DEF OwnTransactions
<1>1. UNCHANGED <<toDriver, rx, sock, giVars, rfVars, stVars>>
  BY DEF GateOut, GateOutReply, GateOutEvent
<1>2. OwnSent' /\ OwnGate' /\ OwnMap' /\ OwnWrite'
  BY <1>1 DEF OwnSent, OwnGate, OwnElem, OwnMap, OwnWrite
<1>3. ASSUME NEW r \in remote, GateOutReply(r) PROVE OwnReplies' /\ OwnRadio'
  <2>1. r.src \in Clients /\ r.tid \in TidsOf(r.src) /\ tidSoMap[r.tid] # NoFd
    BY DEF OwnRadio, TypeOK, RfElem
  <2>2. r.tid \in Tid /\ ParseTid(r.tid) = r.tid
    BY <2>1, DisciplinedTid
  <2>3. Answer(ParseTid(r.tid), r.src) /\ remote' \subseteq remote
    BY <1>3 DEF GateOutReply
  <2>4. OwnReplies'
    BY <1>1, <2>1, <2>2, <2>3, AnswerOwn
  <2> QED
    BY <1>1, <2>3, <2>4 DEF OwnRadio
<1>4. CASE GateOutEvent
  <2> DEFINE m == [tid |-> NoTid, uniall |-> TRUE, src |-> Nil, n |-> 0]
  <2>1. m \in Message
    BY NoTidType DEF Message
  <2>2. soQueue' = Append(soQueue, m) /\ remote' = remote
    BY <1>4 DEF GateOutEvent
  <2>3. soQueue \in Seq(Message) /\ m.uniall
    BY DEF TypeOK
  <2> HIDE DEF m
  <2>4. Elems(soQueue') = Elems(soQueue) \union {m}
    BY <2>1, <2>2, <2>3, ElemsAppend
  <2>5. OwnReplies' /\ OwnRadio'
    BY <1>1, <2>2, <2>3, <2>4 DEF OwnReplies, OwnRadio
  <2> QED
    BY <1>2, <2>5
<1> QED
  BY <1>2, <1>3, <1>4 DEF GateOut

LEMMA SoTransmitterOwn ==
  ASSUME Disciplined, TypeOK, OwnDescriptor, OwnTransactions, SoTransmitter
  PROVE  OwnTransactions'
<1> USE DEF OwnTransactions
<1>1. UNCHANGED <<toDriver, rx, sock, giVars, rfVars, remote>>
  BY DEF SoTransmitter, StTakeBroadcast, StTakeDirected, StWrite, StLock,
     StLockDangling, StWalk, StUnlock
<1>2. OwnSent' /\ OwnGate' /\ OwnRadio' /\ OwnMap'
  BY <1>1 DEF OwnSent, OwnGate, OwnElem, OwnRadio, OwnMap
<1>3. ASSUME soQueue # <<>>, soQueue' = Tail(soQueue)
      PROVE  Head(soQueue) \in Elems(soQueue) /\ OwnReplies'
  BY <1>1, <1>3, ElemsTail DEF OwnReplies, TypeOK
<1>4. CASE StTakeBroadcast
  <2>1. OwnReplies'
    BY <1>3, <1>4 DEF StTakeBroadcast
  <2>2. OwnWrite'
    BY <1>4 DEF StTakeBroadcast, OwnWrite
  <2> QED
    BY <1>2, <2>1, <2>2
<1>5. CASE StTakeDirected
  <2> DEFINE m == Head(soQueue)
  <2>1. /\ stPc = "idle" /\ soQueue # <<>> /\ ~m.uniall /\ soQueue' = Tail(soQueue)
        /\ \/ UNCHANGED stVars
           \/ /\ tidSoMap[m.tid] # NoFd /\ stFd' = tidSoMap[m.tid]
              /\ stMsg' = m /\ stPc' = "write"
    BY <1>5 DEF StTakeDirected
  <2>2. m \in Elems(soQueue) /\ OwnReplies'
    BY <1>3, <2>1
  <2>3. m.src \in Clients /\ m.tid \in TidsOf(m.src)
    BY <2>1, <2>2 DEF OwnReplies
  <2>4. tidSoMap[m.tid] \in {NoFd, sock[m.src]}
    BY <2>3 DEF OwnMap
  <2> HIDE DEF m
  <2>5. tidSoMap[m.tid] # NoFd => rx[m.src] # "none"
    BY <2>3, <2>4, AcceptedFd
  <2>6. OwnWrite'
    BY <1>1, <2>1, <2>3, <2>4, <2>5 DEF OwnWrite
  <2> QED
    BY <1>2, <2>2, <2>6
<1>6. CASE StWrite \/ StUnlock
  BY <1>1, <1>2, <1>6 DEF StWrite, StUnlock, OwnWrite, OwnReplies
<1>7. CASE StLock \/ StLockDangling \/ StWalk
  BY <1>1, <1>2, <1>7 DEF StLock, StLockDangling, StWalk, OwnWrite, OwnReplies
<1> QED
  BY <1>4, <1>5, <1>6, <1>7 DEF SoTransmitter

-----------------------------------------------------------------------------
LEMMA OwnInit == Init => OwnTransactions
<1> SUFFICES ASSUME Init PROVE OwnTransactions
  OBVIOUS
<1>1. Elems(<<>>) = {}
  BY DEF Elems
<1>2. OwnSent /\ OwnGate /\ OwnReplies
  BY <1>1 DEF Init, OwnSent, OwnGate, OwnReplies
<1>3. OwnRadio
  BY <1>1 DEF Init, OwnRadio
<1>4. OwnMap
  <2>1. \A c \in Clients : TidsOf(c) \subseteq Tid
    BY RoutingAssumption DEF TidsOf, Request
  <2> QED
    BY <2>1 DEF Init, OwnMap
<1>5. OwnWrite
  BY DEF Init, OwnWrite
<1> QED
  BY <1>2, <1>3, <1>4, <1>5 DEF OwnTransactions

LEMMA OwnNext ==
  ASSUME Disciplined, TypeOK, OwnDescriptor, OwnTransactions, [Next]_vars
  PROVE  OwnTransactions'
<1>0. DescriptorStays
  BY DescriptorKept
<1>1. CASE UNCHANGED vars
  BY <1>1 DEF vars, OwnTransactions, OwnSent, OwnGate, OwnElem, OwnRadio,
     OwnReplies, OwnMap, OwnWrite
<1>2. CASE Idle
  BY <1>1, <1>2 DEF Idle
<1> QED
  BY <1>0, <1>1, <1>2, ClientOwn, SoReceiverOwn, ServerOwn, GateInOwn,
     RfTransmitterOwn, GateOutOwn, SoTransmitterOwn DEF Next

\* With disciplined clients, what is in flight between the threads carries a
\* transaction that leads to the client it came from.
THEOREM TransactionsAreOwned ==
  ASSUME Disciplined PROVE Spec => []OwnTransactions
<1>1. TypeOK /\ OwnDescriptor /\ OwnTransactions /\ [Next]_vars => OwnTransactions'
  BY OwnNext
<1> QED
  BY <1>1, OwnInit, TypeCorrect, DescriptorsAreOwned, PTL DEF Spec

\* so_transmitter.c:52-58: with disciplined clients no reply is dropped because
\* its transaction is rotten.
THEOREM NoReplyIsRotten ==
  ASSUME Disciplined PROVE Spec => []NoRottenReply
<1>1. OwnTransactions => NoRottenReply
  BY DEF OwnTransactions, OwnReplies, NoRottenReply
<1> QED
  BY <1>1, TransactionsAreOwned, PTL

LEMMA WriteGoesTo ==
  ASSUME TypeOK, NEW f, NEW m, Write(f, m),
         NEW c \in Clients, Len(inbox'[c]) > Len(inbox[c])
  PROVE  c \in Holders(f)
<1>1. Len(inbox[c]) \in Nat
  BY LenProperties DEF TypeOK
<1>2. CASE UNCHANGED inbox
  BY <1>1, <1>2
<1>3. ASSUME NEW d \in Holders(f), inbox' = [inbox EXCEPT ![d] = Append(@, m)],
             d # c
      PROVE  FALSE
  BY <1>1, <1>3 DEF TypeOK
<1> QED
  BY <1>2, <1>3 DEF Write

LEMMA InboxGrows ==
  ASSUME TypeOK, [Next]_vars, NEW c \in Clients, Len(inbox'[c]) > Len(inbox[c])
  PROVE  StWrite \/ StWalk
<1>0. inbox[c] \in Seq(Message) /\ Len(inbox[c]) \in Nat
  BY LenProperties DEF TypeOK
<1>1. inbox' # inbox
  BY <1>0
<1>2. ASSUME NEW d \in Clients, Client(d) PROVE FALSE
  <2>1. CASE ClientRead(d)
    <3>1. inbox[d] # <<>> /\ inbox' = [inbox EXCEPT ![d] = Tail(@)]
      BY <2>1 DEF ClientRead
    <3>2. c = d /\ inbox'[c] = Tail(inbox[c])
      BY <3>1, <1>0 DEF TypeOK
    <3>3. Len(Tail(inbox[c])) = Len(inbox[c]) - 1
      BY <1>0, <3>1, <3>2, HeadTailProperties
    <3> QED
      BY <1>0, <3>2, <3>3
  <2>2. CASE HangUp(d)
    <3>1. inbox'[c] = inbox[c] \/ inbox'[c] = <<>>
      BY <2>2 DEF HangUp, TypeOK
    <3> QED
      BY <1>0, <3>1, EmptySeq
  <2> QED
    BY <1>1, <1>2, <2>1, <2>2 DEF Client, Connect, ClientSend
<1>3. ASSUME NEW d \in Clients, SoReceiver(d) PROVE FALSE
  BY <1>1, <1>3 DEF SoReceiver, Register, Receive, Unregister, Close
<1>4. ~Server /\ ~GateIn /\ ~RfTransmitter /\ ~ChipHangs /\ ~GateOut
  <2>1. ~Server
    BY <1>1 DEF Server, Accept, AcceptFails
  <2>2. ~GateIn
    BY <1>1 DEF GateIn, GateInStore, GateInTransmit, GateInOther, GateInRefuse,
         GateInAccept, GateInMatrix
  <2>3. ~RfTransmitter /\ ~ChipHangs
    BY <1>1 DEF RfTransmitter, RfReject, RfFragment, RfSend, RfAcked, RfUnreachable, ChipHangs
  <2>4. ~GateOut
    BY <1>1 DEF GateOut, GateOutReply, GateOutEvent
  <2> QED
    BY <2>1, <2>2, <2>3, <2>4
<1>5. ~(UNCHANGED vars) /\ ~Idle
  BY <1>1 DEF vars, Idle
<1>6. SoTransmitter => StWrite \/ StWalk
  BY <1>1 DEF SoTransmitter, StTakeBroadcast, StTakeDirected, StLock,
     StLockDangling, StUnlock
<1> QED
  BY <1>2, <1>3, <1>4, <1>5, <1>6 DEF Next

\* The descriptor a reply is written to is the requester's, and while the
\* requester is connected nobody else holds it.
LEMMA ReplyStep ==
  ASSUME TypeOK, OwnDescriptor, OwnTransactions, [Next]_vars,
         NEW c \in Clients, Len(inbox'[c]) > Len(inbox[c]), ~stMsg.uniall,
         rx[stMsg.src] = "reading"
  PROVE  c = stMsg.src
<1>1. StWrite \/ StWalk
  BY InboxGrows
<1>2. ~StWalk
  BY DEF StWalk, OwnTransactions, OwnWrite
<1>3. stPc = "write" /\ Write(stFd, stMsg)
  BY <1>1, <1>2 DEF StWrite
<1>4. c \in Holders(stFd)
  BY <1>3, WriteGoesTo
<1>5. stMsg.src \in Clients /\ stFd = sock[stMsg.src]
  BY <1>3 DEF OwnTransactions, OwnWrite
<1> QED
  BY <1>4, <1>5 DEF Holders, Alive, OwnDescriptor

\* gate_in.c:59-66, so_transmitter.c:39-51: with disciplined clients a reply is
\* written to its requester and to nobody else as long as this is connected.
THEOREM RepliesReachRequester ==
  ASSUME Disciplined PROVE Spec => RepliesToRequester
<1> DEFINE A == \A c \in Clients :
                  /\ Len(inbox'[c]) > Len(inbox[c]) /\ ~stMsg.uniall
                  /\ rx[stMsg.src] = "reading"
                  => c = stMsg.src
<1>1. TypeOK /\ OwnDescriptor /\ OwnTransactions /\ [Next]_vars => A
  BY ReplyStep
<1>2. Spec => [][A]_vars
  BY <1>1, TypeCorrect, DescriptorsAreOwned, TransactionsAreOwned, PTL DEF Spec
<1> QED
  BY <1>2 DEF RepliesToRequester

-----------------------------------------------------------------------------
(* The order of answers: the matrix commands of a client that are not      *)
(* answered yet stand in one line from its socket to SoTransmitter.        *)

\* The number of the matrix command an element is about, 0 when it is none of
\* client c.
RequestNo    == [r \in Sent |-> IF r.kind = "matrix" THEN r.n ELSE 0]
CommandNo(c) == [e \in GateElem |->
                   IF e.src = c /\ e.req.kind = "matrix" THEN e.req.n ELSE 0]
AnswerNo(c)  == [m \in Message |-> IF m.src = c THEN m.n ELSE 0]
Numbers(f, s) == [i \in 1 .. Len(s) |-> f[s[i]]]

Requests(c) == Numbers(RequestNo, toDriver[c])
Commands(c) == Numbers(CommandNo(c), gateInQueue)
InHand(c)   == IF giElem = Nil THEN 0 ELSE CommandNo(c)[giElem]
Replies(c)  == Numbers(AnswerNo(c), soQueue)
Writing(c)  == IF stPc = "write" THEN AnswerNo(c)[stMsg] ELSE 0

Between(x, lo, hi) == x = 0 \/ (lo <= x /\ x <= hi)
Sorted(s, lo, hi) ==
  /\ \A i \in 1 .. Len(s) : Between(s[i], lo, hi)
  /\ \A i, j \in 1 .. Len(s) : i < j /\ s[i] # 0 => Between(s[j], s[i], hi)

\* A number w, the numbers A, a number g and the numbers B and D do not
\* decrease, and none is above top.
Line(w, A, g, B, D, top) ==
  \E p, q, r, s \in Nat :
    /\ p <= q /\ q <= r /\ r <= s /\ s <= top
    /\ Between(w, 0, p) /\ Sorted(A, p, q) /\ Between(g, q, r)
    /\ Sorted(B, r, s) /\ Sorted(D, s, top)
InLine(w, A, g, B, D) == Elems(A) \union Elems(B) \union Elems(D) \union {w, g}

LEMMA NumbersType ==
  ASSUME NEW S, NEW s \in Seq(S), NEW f \in [S -> Nat]
  PROVE  Numbers(f, s) \in Seq(Nat) /\ Len(Numbers(f, s)) = Len(s)
<1>1. Len(s) \in Nat /\ \A i \in 1 .. Len(s) : s[i] \in S
  BY LenProperties, ElementOfSeq
<1>2. \A i \in 1 .. Len(s) : f[s[i]] \in Nat
  BY <1>1
<1>3. Numbers(f, s) \in [1 .. Len(s) -> Nat]
  BY <1>2 DEF Numbers
<1> QED
  BY <1>1, <1>3

LEMMA NumbersAppend ==
  ASSUME NEW S, NEW s \in Seq(S), NEW f \in [S -> Nat], NEW x \in S
  PROVE  Numbers(f, Append(s, x)) = Append(Numbers(f, s), f[x])
<1> DEFINE z == Append(s, x)
           u == Numbers(f, s)
           v == Numbers(f, z)
<1>1. /\ z \in Seq(S) /\ Len(z) = Len(s) + 1 /\ z[Len(s) + 1] = x
      /\ \A i \in 1 .. Len(s) : z[i] = s[i]
  BY AppendProperties
<1>2. /\ u \in Seq(Nat) /\ Len(u) = Len(s) /\ v \in Seq(Nat) /\ Len(v) = Len(z)
      /\ Len(s) \in Nat
  BY <1>1, NumbersType, LenProperties
<1>3. /\ \A i \in 1 .. Len(s) : u[i] = f[s[i]]
      /\ \A i \in 1 .. Len(z) : v[i] = f[z[i]]
  BY DEF Numbers
<1> DEFINE b == f[x]
<1>4. b \in Nat
  OBVIOUS
<1> HIDE DEF z, u, v, b
<1>5. /\ Append(u, b) \in Seq(Nat) /\ Len(Append(u, b)) = Len(s) + 1
      /\ Append(u, b)[Len(s) + 1] = b
      /\ \A i \in 1 .. Len(s) : Append(u, b)[i] = u[i]
  BY <1>2, <1>4, AppendProperties
<1>6. ASSUME NEW i \in 1 .. Len(v) PROVE v[i] = Append(u, b)[i]
  <2>1. i = Len(s) + 1 \/ i \in 1 .. Len(s)
    BY <1>1, <1>2
  <2> QED
    BY <1>1, <1>2, <1>3, <1>5, <2>1 DEF b
<1>7. v = Append(u, b)
  BY <1>1, <1>2, <1>5, <1>6, SeqEqual
<1> QED
  BY <1>7 DEF z, u, v, b

LEMMA NumbersTail ==
  ASSUME NEW S, NEW s \in Seq(S), s # <<>>, NEW f \in [S -> Nat]
  PROVE  /\ Numbers(f, s) # <<>> /\ Head(Numbers(f, s)) = f[Head(s)]
         /\ Numbers(f, Tail(s)) = Tail(Numbers(f, s))
<1> DEFINE z == Tail(s)
           u == Numbers(f, s)
           v == Numbers(f, z)
<1>1. /\ z \in Seq(S) /\ Len(z) = Len(s) - 1 /\ Head(s) = s[1]
      /\ \A i \in 1 .. Len(s) - 1 : z[i] = s[i + 1]
  BY HeadTailProperties
<1>2. /\ u \in Seq(Nat) /\ Len(u) = Len(s) /\ v \in Seq(Nat) /\ Len(v) = Len(z)
      /\ Len(s) \in Nat /\ Len(s) > 0
  <2>1. u \in Seq(Nat) /\ Len(u) = Len(s)
    BY NumbersType
  <2>2. v \in Seq(Nat) /\ Len(v) = Len(z)
    BY <1>1, NumbersType
  <2>3. Len(s) \in Nat /\ Len(s) # 0
    BY LenProperties, EmptySeq
  <2> HIDE DEF u, v, z
  <2> QED
    BY <2>1, <2>2, <2>3
<1>3. /\ \A i \in 1 .. Len(s) : u[i] = f[s[i]]
      /\ \A i \in 1 .. Len(z) : v[i] = f[z[i]]
  BY DEF Numbers
<1> HIDE DEF z, u, v
<1>4. u # <<>>
  BY <1>2, EmptySeq
<1>5. /\ Tail(u) \in Seq(Nat) /\ Len(Tail(u)) = Len(s) - 1 /\ Head(u) = u[1]
      /\ \A i \in 1 .. Len(s) - 1 : Tail(u)[i] = u[i + 1]
  BY <1>2, <1>4, HeadTailProperties
<1>6. ASSUME NEW i \in 1 .. Len(v) PROVE v[i] = Tail(u)[i]
  <2>1. i \in 1 .. Len(s) - 1 /\ i + 1 \in 1 .. Len(s)
    BY <1>1, <1>2
  <2> QED
    BY <1>1, <1>2, <1>3, <1>5, <2>1
<1>7. v = Tail(u)
  BY <1>1, <1>2, <1>5, <1>6, SeqEqual
<1>8. Head(u) = f[Head(s)]
  BY <1>1, <1>2, <1>3, <1>5
<1> QED
  BY <1>4, <1>7, <1>8 DEF z, u, v

-----------------------------------------------------------------------------
LEMMA SortedAppend ==
  ASSUME NEW s \in Seq(Nat), NEW x \in Nat, NEW lo \in Nat, NEW hi \in Nat,
         NEW top \in Nat, Sorted(s, lo, hi), lo <= hi, hi <= top, Between(x, hi, top)
  PROVE  Sorted(Append(s, x), lo, top)
<1> DEFINE z == Append(s, x)
           n == Len(s)
<1>1. /\ n \in Nat /\ Len(z) = n + 1 /\ z[n + 1] = x
      /\ \A i \in 1 .. n : z[i] = s[i] /\ s[i] \in Nat
  BY AppendProperties, LenProperties, ElementOfSeq
<1> HIDE DEF z, n
<1>2. ASSUME NEW i \in 1 .. n + 1 PROVE Between(z[i], lo, top)
  <2>1. CASE i = n + 1
    BY <1>1, <2>1 DEF Between
  <2>2. CASE i \in 1 .. n
    <3>1. Between(s[i], lo, hi) /\ s[i] \in Nat
      BY <1>1, <2>2 DEF Sorted, n
    <3> QED
      BY <1>1, <2>2, <3>1 DEF Between
  <2> QED
    BY <1>1, <2>1, <2>2
<1>3. ASSUME NEW i \in 1 .. n + 1, NEW j \in 1 .. n + 1, i < j, z[i] # 0
      PROVE  Between(z[j], z[i], top)
  <2>1. i \in 1 .. n /\ (j = n + 1 \/ j \in 1 .. n)
    BY <1>1, <1>3
  <2>2. z[i] = s[i] /\ s[i] \in Nat /\ s[i] <= hi
    BY <1>1, <1>3, <2>1 DEF Sorted, n, Between
  <2>3. CASE j = n + 1
    BY <1>1, <2>2, <2>3 DEF Between
  <2>4. CASE j \in 1 .. n
    <3>1. Between(s[j], s[i], hi) /\ s[j] \in Nat
      BY <1>1, <1>3, <2>1, <2>2, <2>4 DEF Sorted, n
    <3> QED
      BY <1>1, <2>2, <2>4, <3>1 DEF Between
  <2> QED
    BY <2>1, <2>3, <2>4
<1>4. Sorted(z, lo, top)
  BY <1>1, <1>2, <1>3 DEF Sorted
<1> QED
  BY <1>4 DEF z

LEMMA SortedTail ==
  ASSUME NEW s \in Seq(Nat), s # <<>>, NEW lo \in Nat, NEW hi \in Nat,
         Sorted(s, lo, hi), lo <= hi
  PROVE  /\ Head(s) \in Nat /\ Between(Head(s), lo, hi) /\ Tail(s) \in Seq(Nat)
         /\ \E k \in Nat : /\ lo <= k /\ k <= hi /\ Between(Head(s), lo, k)
                           /\ Sorted(Tail(s), k, hi)
<1> DEFINE z == Tail(s)
           n == Len(s)
           h == Head(s)
<1>1. /\ z \in Seq(Nat) /\ Len(z) = n - 1 /\ h = s[1] /\ n \in Nat /\ n > 0
      /\ \A i \in 1 .. n - 1 : z[i] = s[i + 1]
      /\ \A i \in 1 .. n : s[i] \in Nat
  BY HeadTailProperties, LenProperties, ElementOfSeq, EmptySeq
<1> HIDE DEF z, n, h
<1>2. h \in Nat /\ Between(h, lo, hi)
  BY <1>1 DEF Sorted, n
<1>3. ASSUME NEW k \in Nat, k = lo \/ (k = h /\ h # 0)
      PROVE  Sorted(z, k, hi)
  <2>1. ASSUME NEW i \in 1 .. n - 1 PROVE Between(z[i], k, hi)
    <3>1. i + 1 \in 1 .. n /\ 1 \in 1 .. n /\ 1 < i + 1
      BY <1>1
    <3>2. Between(s[i + 1], lo, hi) /\ (s[1] # 0 => Between(s[i + 1], s[1], hi))
      BY <3>1 DEF Sorted, n
    <3> QED
      BY <1>1, <1>3, <3>2
  <2>2. ASSUME NEW i \in 1 .. n - 1, NEW j \in 1 .. n - 1, i < j, z[i] # 0
        PROVE  Between(z[j], z[i], hi)
    <3>1. i + 1 \in 1 .. n /\ j + 1 \in 1 .. n /\ i + 1 < j + 1
      BY <1>1, <2>2
    <3>2. s[i + 1] # 0 => Between(s[j + 1], s[i + 1], hi)
      BY <3>1 DEF Sorted, n
    <3> QED
      BY <1>1, <2>2, <3>2
  <2> QED
    BY <1>1, <2>1, <2>2 DEF Sorted
<1> DEFINE Q == \E k \in Nat : /\ lo <= k /\ k <= hi /\ Between(h, lo, k)
                             /\ Sorted(z, k, hi)
<1>4. ASSUME h = 0 PROVE Q
  <2>1. Between(h, lo, lo)
    BY <1>4 DEF Between
  <2>2. Sorted(z, lo, hi) /\ lo <= lo
    BY <1>3
  <2> QED
    BY <2>1, <2>2
<1>5. ASSUME h # 0 PROVE Q
  <2>1. lo <= h /\ h <= hi /\ Between(h, lo, h) /\ Sorted(z, h, hi)
    BY <1>2, <1>3, <1>5 DEF Between
  <2> QED
    BY <1>2, <2>1
<1> QED
  BY <1>1, <1>2, <1>4, <1>5 DEF z, h

LEMMA ElemsHead ==
  ASSUME NEW S, NEW s \in Seq(S), s # <<>>
  PROVE  Elems(s) = {Head(s)} \union Elems(Tail(s))
<1> DEFINE z == Tail(s)
           n == Len(s)
<1>1. /\ z \in Seq(S) /\ Len(z) = n - 1 /\ Head(s) = s[1] /\ n \in Nat /\ n > 0
      /\ \A i \in 1 .. n - 1 : z[i] = s[i + 1]
      /\ DOMAIN s = 1 .. n /\ DOMAIN z = 1 .. n - 1
  BY HeadTailProperties, LenProperties, EmptySeq
<1>2. ASSUME NEW x \in Elems(s) PROVE x \in {Head(s)} \union Elems(z)
  <2>1. PICK i \in 1 .. n : x = s[i]
    BY <1>1 DEF Elems
  <2>2. CASE i = 1
    BY <1>1, <2>1, <2>2
  <2>3. CASE i # 1
    <3>1. i - 1 \in 1 .. n - 1 /\ (i - 1) + 1 = i
      BY <1>1, <2>3
    <3>2. z[i - 1] = x
      BY <1>1, <2>1, <3>1
    <3> QED
      BY <1>1, <3>1, <3>2 DEF Elems
  <2> QED
    BY <2>2, <2>3
<1>3. Head(s) \in Elems(s) /\ Elems(z) \subseteq Elems(s)
  BY ElemsTail
<1> QED
  BY <1>2, <1>3


\* Elements of two sequences that matter: zero stands for no command.
LEMMA AppendElems ==
  ASSUME NEW s \in Seq(Nat), NEW x \in Nat
  PROVE  Append(s, x) \in Seq(Nat) /\ Elems(Append(s, x)) = Elems(s) \union {x}
BY ElemsAppend, AppendProperties

-----------------------------------------------------------------------------
(* The moves of the line.                                                  *)

LEMMA LineSend ==
  ASSUME NEW w \in Nat, NEW A \in Seq(Nat), NEW g \in Nat, NEW B \in Seq(Nat),
         NEW D \in Seq(Nat), NEW top \in Nat, Line(w, A, g, B, D, top),
         NEW x \in Nat, x = 0 \/ x = top + 1
  PROVE  /\ Line(w, A, g, B, Append(D, x), top + 1)
         /\ InLine(w, A, g, B, Append(D, x)) = InLine(w, A, g, B, D) \union {x}
<1>1. PICK p \in Nat, q \in Nat, r \in Nat, s \in Nat :
        /\ p <= q /\ q <= r /\ r <= s /\ s <= top
        /\ Between(w, 0, p) /\ Sorted(A, p, q) /\ Between(g, q, r)
        /\ Sorted(B, r, s) /\ Sorted(D, s, top)
  BY DEF Line
<1>2. Between(x, top, top + 1)
  BY DEF Between
<1>3. Sorted(Append(D, x), s, top + 1)
  BY <1>1, <1>2, SortedAppend
<1>4. s <= top + 1
  BY <1>1
<1>5. Line(w, A, g, B, Append(D, x), top + 1)
  BY <1>1, <1>3, <1>4 DEF Line
<1>6. Elems(Append(D, x)) = Elems(D) \union {x}
  BY AppendElems
<1> QED
  BY <1>5, <1>6 DEF InLine

LEMMA LineReceive ==
  ASSUME NEW w \in Nat, NEW A \in Seq(Nat), NEW g \in Nat, NEW B \in Seq(Nat),
         NEW D \in Seq(Nat), NEW top \in Nat, Line(w, A, g, B, D, top), D # <<>>
  PROVE  /\ Line(w, A, g, Append(B, Head(D)), Tail(D), top)
         /\ InLine(w, A, g, Append(B, Head(D)), Tail(D)) = InLine(w, A, g, B, D)
<1>1. PICK p \in Nat, q \in Nat, r \in Nat, s \in Nat :
        /\ p <= q /\ q <= r /\ r <= s /\ s <= top
        /\ Between(w, 0, p) /\ Sorted(A, p, q) /\ Between(g, q, r)
        /\ Sorted(B, r, s) /\ Sorted(D, s, top)
  BY DEF Line
<1>2. PICK k \in Nat : /\ s <= k /\ k <= top /\ Between(Head(D), s, k)
                       /\ Sorted(Tail(D), k, top)
  BY <1>1, SortedTail
<1>3. Head(D) \in Nat
  BY <1>1, SortedTail
<1>4. Sorted(Append(B, Head(D)), r, k)
  BY <1>1, <1>2, <1>3, SortedAppend
<1>5. r <= k
  BY <1>1, <1>2
<1>6. Line(w, A, g, Append(B, Head(D)), Tail(D), top)
  BY <1>1, <1>2, <1>4, <1>5 DEF Line
<1>7. Elems(Append(B, Head(D))) = Elems(B) \union {Head(D)}
  BY <1>3, AppendElems
<1>8. Elems(D) = {Head(D)} \union Elems(Tail(D))
  BY ElemsHead
<1> QED
  BY <1>6, <1>7, <1>8 DEF InLine

LEMMA LineStore ==
  ASSUME NEW w \in Nat, NEW A \in Seq(Nat), NEW B \in Seq(Nat),
         NEW D \in Seq(Nat), NEW top \in Nat, Line(w, A, 0, B, D, top), B # <<>>
  PROVE  /\ Line(w, A, Head(B), Tail(B), D, top)
         /\ InLine(w, A, 0, B, D) \subseteq InLine(w, A, Head(B), Tail(B), D) \union {0}
<1>1. PICK p \in Nat, q \in Nat, r \in Nat, s \in Nat :
        /\ p <= q /\ q <= r /\ r <= s /\ s <= top
        /\ Between(w, 0, p) /\ Sorted(A, p, q)
        /\ Sorted(B, r, s) /\ Sorted(D, s, top)
  BY DEF Line
<1>2. PICK k \in Nat : /\ r <= k /\ k <= s /\ Between(Head(B), r, k)
                       /\ Sorted(Tail(B), k, s)
  BY <1>1, SortedTail
<1>3. Head(B) \in Nat
  BY <1>1, SortedTail
<1>4. Between(Head(B), q, k) /\ q <= k
  BY <1>1, <1>2, <1>3 DEF Between
<1>5. Line(w, A, Head(B), Tail(B), D, top)
  BY <1>1, <1>2, <1>4 DEF Line
<1>6. Elems(B) = {Head(B)} \union Elems(Tail(B))
  BY ElemsHead
<1> QED
  BY <1>5, <1>6 DEF InLine

LEMMA LineAnswer ==
  ASSUME NEW w \in Nat, NEW A \in Seq(Nat), NEW g \in Nat, NEW B \in Seq(Nat),
         NEW D \in Seq(Nat), NEW top \in Nat, Line(w, A, g, B, D, top)
  PROVE  /\ Line(w, Append(A, g), 0, B, D, top)
         /\ InLine(w, A, g, B, D) \subseteq InLine(w, Append(A, g), 0, B, D)
<1>1. PICK p \in Nat, q \in Nat, r \in Nat, s \in Nat :
        /\ p <= q /\ q <= r /\ r <= s /\ s <= top
        /\ Between(w, 0, p) /\ Sorted(A, p, q) /\ Between(g, q, r)
        /\ Sorted(B, r, s) /\ Sorted(D, s, top)
  BY DEF Line
<1>2. Sorted(Append(A, g), p, r)
  BY <1>1, SortedAppend
<1>3. Between(0, r, r) /\ p <= r /\ r <= r
  BY <1>1 DEF Between
<1>4. Line(w, Append(A, g), 0, B, D, top)
  BY <1>1, <1>2, <1>3 DEF Line
<1>5. Elems(Append(A, g)) = Elems(A) \union {g}
  BY AppendElems
<1> QED
  BY <1>4, <1>5 DEF InLine

LEMMA LineOther ==
  ASSUME NEW w \in Nat, NEW A \in Seq(Nat), NEW g \in Nat, NEW B \in Seq(Nat),
         NEW D \in Seq(Nat), NEW top \in Nat, Line(w, A, g, B, D, top)
  PROVE  /\ Line(w, Append(A, 0), g, B, D, top)
         /\ InLine(w, A, g, B, D) \subseteq InLine(w, Append(A, 0), g, B, D)
<1>1. PICK p \in Nat, q \in Nat, r \in Nat, s \in Nat :
        /\ p <= q /\ q <= r /\ r <= s /\ s <= top
        /\ Between(w, 0, p) /\ Sorted(A, p, q) /\ Between(g, q, r)
        /\ Sorted(B, r, s) /\ Sorted(D, s, top)
  BY DEF Line
<1>2. Between(0, q, q) /\ q <= q
  BY DEF Between
<1>3. Sorted(Append(A, 0), p, q)
  BY <1>1, <1>2, SortedAppend
<1>4. Line(w, Append(A, 0), g, B, D, top)
  BY <1>1, <1>3 DEF Line
<1>5. Elems(Append(A, 0)) = Elems(A) \union {0}
  BY AppendElems
<1> QED
  BY <1>4, <1>5 DEF InLine

LEMMA LineNothing ==
  ASSUME NEW w \in Nat, NEW A \in Seq(Nat), NEW g \in Nat, NEW B \in Seq(Nat),
         NEW D \in Seq(Nat), NEW top \in Nat, Line(w, A, g, B, D, top)
  PROVE  /\ Line(w, A, g, Append(B, 0), D, top)
         /\ InLine(w, A, g, B, D) \subseteq InLine(w, A, g, Append(B, 0), D)
<1>1. PICK p \in Nat, q \in Nat, r \in Nat, s \in Nat :
        /\ p <= q /\ q <= r /\ r <= s /\ s <= top
        /\ Between(w, 0, p) /\ Sorted(A, p, q) /\ Between(g, q, r)
        /\ Sorted(B, r, s) /\ Sorted(D, s, top)
  BY DEF Line
<1>2. Between(0, s, s) /\ s <= s
  BY DEF Between
<1>3. Sorted(Append(B, 0), r, s)
  BY <1>1, <1>2, SortedAppend
<1>4. Line(w, A, g, Append(B, 0), D, top)
  BY <1>1, <1>3 DEF Line
<1>5. Elems(Append(B, 0)) = Elems(B) \union {0}
  BY AppendElems
<1> QED
  BY <1>4, <1>5 DEF InLine

LEMMA LineTake ==
  ASSUME NEW A \in Seq(Nat), NEW g \in Nat, NEW B \in Seq(Nat),
         NEW D \in Seq(Nat), NEW top \in Nat, Line(0, A, g, B, D, top), A # <<>>
  PROVE  /\ Line(Head(A), Tail(A), g, B, D, top)
         /\ Line(0, Tail(A), g, B, D, top)
         /\ InLine(0, A, g, B, D) \subseteq InLine(Head(A), Tail(A), g, B, D) \union {0}
<1>1. PICK p \in Nat, q \in Nat, r \in Nat, s \in Nat :
        /\ p <= q /\ q <= r /\ r <= s /\ s <= top
        /\ Sorted(A, p, q) /\ Between(g, q, r)
        /\ Sorted(B, r, s) /\ Sorted(D, s, top)
  BY DEF Line
<1>2. PICK k \in Nat : /\ p <= k /\ k <= q /\ Between(Head(A), p, k)
                       /\ Sorted(Tail(A), k, q)
  BY <1>1, SortedTail
<1>3. Head(A) \in Nat
  BY <1>1, SortedTail
<1>4. Between(Head(A), 0, k) /\ Between(0, 0, k)
  BY <1>2, <1>3 DEF Between
<1>5. Line(Head(A), Tail(A), g, B, D, top) /\ Line(0, Tail(A), g, B, D, top)
  BY <1>1, <1>2, <1>4 DEF Line
<1>6. Elems(A) = {Head(A)} \union Elems(Tail(A))
  BY ElemsHead
<1> QED
  BY <1>5, <1>6 DEF InLine

LEMMA LineWritten ==
  ASSUME NEW w \in Nat, NEW A \in Seq(Nat), NEW g \in Nat, NEW B \in Seq(Nat),
         NEW D \in Seq(Nat), NEW top \in Nat, Line(w, A, g, B, D, top)
  PROVE  /\ Line(0, A, g, B, D, top)
         /\ InLine(w, A, g, B, D) \subseteq InLine(0, A, g, B, D) \union {w}
<1>1. \A p \in Nat : Between(0, 0, p)
  BY DEF Between
<1>2. Line(0, A, g, B, D, top)
  BY <1>1 DEF Line
<1> QED
  BY <1>2 DEF InLine

\* What is written comes before all the others.
LEMMA FirstInLine ==
  ASSUME NEW w \in Nat, NEW A \in Seq(Nat), NEW g \in Nat, NEW B \in Seq(Nat),
         NEW D \in Seq(Nat), NEW top \in Nat, Line(w, A, g, B, D, top),
         NEW x \in InLine(w, A, g, B, D), x # 0
  PROVE  w <= x
<1>1. PICK p \in Nat, q \in Nat, r \in Nat, s \in Nat :
        /\ p <= q /\ q <= r /\ r <= s /\ s <= top
        /\ Between(w, 0, p) /\ Sorted(A, p, q) /\ Between(g, q, r)
        /\ Sorted(B, r, s) /\ Sorted(D, s, top)
  BY DEF Line
<1>2. w <= p
  BY <1>1 DEF Between
<1>3. ASSUME NEW z \in Seq(Nat), NEW lo \in Nat, NEW hi \in Nat, Sorted(z, lo, hi),
             p <= lo, x \in Elems(z)
      PROVE  w <= x
  <2>1. PICK i \in 1 .. Len(z) : x = z[i]
    BY <1>3, LenProperties DEF Elems
  <2>2. x \in Nat /\ Between(x, lo, hi)
    BY <1>3, <2>1, ElementOfSeq DEF Sorted
  <2>3. lo <= x
    BY <2>2 DEF Between
  <2> QED
    BY <1>2, <1>3, <2>2, <2>3
<1>4. CASE x \in Elems(A)
  BY <1>1, <1>3, <1>4
<1>5. CASE x \in Elems(B)
  BY <1>1, <1>3, <1>5
<1>6. CASE x \in Elems(D)
  BY <1>1, <1>3, <1>6
<1>7. CASE x = w
  BY <1>7
<1>8. CASE x = g
  BY <1>1, <1>2, <1>8 DEF Between
<1> QED
  BY <1>4, <1>5, <1>6, <1>7, <1>8 DEF InLine


-----------------------------------------------------------------------------
\* The numbers of client c that are on their way, and what holds of them.
OnItsWay(c) ==
  InLine(Writing(c), Replies(c), InHand(c), Commands(c), Requests(c))
OrderOf(c) ==
  /\ Line(Writing(c), Replies(c), InHand(c), Commands(c), Requests(c), sent[c])
  /\ 0 \notin owed[c]
  /\ link[c] # "hungup" =>
       owed[c] \subseteq OnItsWay(c) /\ rx[c] \in {"none", "start", "reading"}
\* Only an event is written to all.
NoAnswerToAll ==
  /\ \A m \in Elems(soQueue) : m.uniall => m.src = Nil
  /\ stPc \in {"iter", "walk"} => stMsg.src = Nil
InOrder == NoAnswerToAll /\ \A c \in Clients : OrderOf(c)

\* A client that has hung up does not come back, and its receiver stays until
\* then.
StaysOpen(c) ==
  link'[c] # "hungup" =>
    link[c] # "hungup" /\ rx'[c] \in {"none", "start", "reading"}

LEMMA LinkStep ==
  ASSUME TypeOK, [Next]_vars, NEW c \in Clients, OrderOf(c)
  PROVE  StaysOpen(c)
<1>1. UNCHANGED link \/ \E d \in Clients : Connect(d) \/ HangUp(d)
  <2>1. CASE UNCHANGED vars
    BY <2>1 DEF vars, clientVars
  <2>2. CASE Server
    BY <2>2 DEF Server, Accept, AcceptFails, clientVars
  <2>3. CASE GateIn
    BY <2>3 DEF GateIn, GateInStore, GateInTransmit, GateInOther, GateInRefuse,
         GateInAccept, GateInMatrix, clientVars
  <2>4. CASE RfTransmitter \/ ChipHangs
    BY <2>4 DEF RfTransmitter, RfReject, RfFragment, RfSend, RfAcked, RfUnreachable, ChipHangs, clientVars
  <2>5. CASE GateOut
    BY <2>5 DEF GateOut, GateOutReply, GateOutEvent, clientVars
  <2>6. CASE SoTransmitter
    BY <2>6 DEF SoTransmitter, StTakeBroadcast, StTakeDirected, StWrite, StLock,
         StLockDangling, StWalk, StUnlock, clientVars
  <2>7. ASSUME NEW d \in Clients, SoReceiver(d) PROVE UNCHANGED link
    BY <2>7 DEF SoReceiver, Register, Receive, Unregister, Close, clientVars
  <2>8. ASSUME NEW d \in Clients, Client(d)
        PROVE  UNCHANGED link \/ Connect(d) \/ HangUp(d)
    BY <2>8 DEF Client, ClientSend, ClientRead, clientVars
  <2> QED
    BY <2>1, <2>2, <2>3, <2>4, <2>5, <2>6, <2>7, <2>8 DEF Next, Idle
<1>2. link'[c] # "hungup" => link[c] # "hungup"
  BY <1>1 DEF Connect, HangUp, TypeOK
<1>3. ASSUME link'[c] # "hungup" PROVE rx'[c] \in {"none", "start", "reading"}
  <2>1. link[c] # "hungup" /\ rx[c] \in {"none", "start", "reading"}
    BY <1>2, <1>3 DEF OrderOf
  <2>2. ASSUME NEW d \in Clients, Accept(d) \/ Register(d)
        PROVE  rx'[c] \in {"none", "start", "reading"}
    BY <2>1, <2>2 DEF Accept, Register, TypeOK
  <2>3. ASSUME NEW d \in Clients, Unregister(d) \/ Close(d)
        PROVE  rx'[c] \in {"none", "start", "reading"}
    <3>1. rx' = [rx EXCEPT ![d] = rx'[d]] /\ (link[d] = "hungup" \/ rx[d] = "unreg")
      BY <2>3 DEF Unregister, Close, TypeOK
    <3>2. c # d
      BY <2>1, <3>1
    <3> QED
      BY <2>1, <3>1, <3>2 DEF TypeOK
  <2> QED
    BY <2>1, <2>2, <2>3, RegistryFrame
<1> QED
  BY <1>2, <1>3 DEF StaysOpen

LEMMA NumberTypes ==
  ASSUME NEW c \in Clients
  PROVE  /\ RequestNo \in [Sent -> Nat]
         /\ CommandNo(c) \in [GateElem -> Nat]
         /\ AnswerNo(c) \in [Message -> Nat]
BY DEF RequestNo, CommandNo, AnswerNo, Sent, GateElem, Message

LEMMA LineTypes ==
  ASSUME TypeOK, NEW c \in Clients
  PROVE  /\ Writing(c) \in Nat /\ Replies(c) \in Seq(Nat) /\ InHand(c) \in Nat
         /\ Commands(c) \in Seq(Nat) /\ Requests(c) \in Seq(Nat)
         /\ sent[c] \in Nat /\ owed[c] \in SUBSET Nat
         /\ toDriver[c] \in Seq(Sent) /\ gateInQueue \in Seq(GateElem)
         /\ soQueue \in Seq(Message)
<1>1. /\ toDriver[c] \in Seq(Sent) /\ gateInQueue \in Seq(GateElem)
      /\ soQueue \in Seq(Message) /\ sent[c] \in Nat /\ owed[c] \in SUBSET Nat
  BY DEF TypeOK
<1>2. Replies(c) \in Seq(Nat) /\ Commands(c) \in Seq(Nat) /\ Requests(c) \in Seq(Nat)
  BY <1>1, NumberTypes, NumbersType DEF Replies, Commands, Requests
<1>3. InHand(c) \in Nat
  BY NumberTypes DEF InHand, TypeOK
<1>4. Writing(c) \in Nat
  BY NumberTypes DEF Writing, TypeOK
<1> QED
  BY <1>1, <1>2, <1>3, <1>4

LEMMA OrderFrom ==
  ASSUME NEW c \in Clients, OrderOf(c), StaysOpen(c), owed'[c] = owed[c],
         Line(Writing(c)', Replies(c)', InHand(c)', Commands(c)', Requests(c)', sent'[c]),
         OnItsWay(c) \subseteq
           InLine(Writing(c)', Replies(c)', InHand(c)', Commands(c)', Requests(c)') \union {0}
  PROVE  OrderOf(c)'
BY DEF OrderOf, StaysOpen, OnItsWay

\* Nothing moves.
LEMMA OrderFrame ==
  ASSUME NEW c \in Clients, OrderOf(c), StaysOpen(c), owed'[c] = owed[c],
         Writing(c)' = Writing(c), Replies(c)' = Replies(c), InHand(c)' = InHand(c),
         Commands(c)' = Commands(c), Requests(c)' = Requests(c), sent'[c] = sent[c]
  PROVE  OrderOf(c)'
BY OrderFrom DEF OrderOf, OnItsWay


-----------------------------------------------------------------------------
LEMMA ClientOrder ==
  ASSUME TypeOK, NEW c \in Clients, OrderOf(c), StaysOpen(c),
         NEW d \in Clients, Client(d)
  PROVE  OrderOf(c)'
<1>1. UNCHANGED <<gateInQueue, giElem, soQueue, stPc, stMsg>>
  BY DEF Client, Connect, ClientSend, ClientRead, HangUp, giVars, stVars
<1>2. /\ Writing(c)' = Writing(c) /\ Replies(c)' = Replies(c)
      /\ InHand(c)' = InHand(c) /\ Commands(c)' = Commands(c)
  BY <1>1 DEF Writing, Replies, InHand, Commands
<1>3. CASE UNCHANGED <<sent, toDriver, owed>>
  BY <1>2, <1>3, OrderFrame DEF Requests
<1>4. CASE ClientSend(d)
  <2> DEFINE n == sent[d] + 1
             m(r) == [kind |-> r.kind, tid |-> r.tid, exb |-> r.exb, n |-> n]
  <2>1. PICK r \in RequestsOf[d] :
          /\ toDriver' = [toDriver EXCEPT ![d] = Append(@, m(r))]
          /\ owed' = IF r.kind = "matrix"
                     THEN [owed EXCEPT ![d] = @ \union {n}] ELSE owed
          /\ sent' = [sent EXCEPT ![d] = n]
    BY <1>4, Zenon DEF ClientSend
  <2>2. r \in Request /\ n \in Nat /\ n # 0
    <3>1. r \in Request
      BY RoutingAssumption
    <3>2. sent[d] \in Nat
      BY LineTypes
    <3> QED
      BY <3>1, <3>2
  <2>3. m(r) \in Sent /\ m(r).kind = r.kind /\ m(r).n = n
    BY <2>2 DEF Request, Sent
  <2> DEFINE x == RequestNo[m(r)]
  <2>4. x = IF r.kind = "matrix" THEN n ELSE 0
    BY <2>3 DEF RequestNo
  <2> HIDE DEF m, x
  <2>5. CASE c # d
    <3>1. toDriver'[c] = toDriver[c] /\ owed'[c] = owed[c] /\ sent'[c] = sent[c]
      BY <2>1, <2>5 DEF TypeOK
    <3> QED
      BY <1>2, <3>1, OrderFrame DEF Requests
  <2>6. CASE c = d
    <3>1. /\ toDriver'[c] = Append(toDriver[c], m(r)) /\ sent'[c] = n
          /\ owed'[c] = IF r.kind = "matrix" THEN owed[c] \union {n} ELSE owed[c]
      BY <2>1, <2>6 DEF TypeOK
    <3>2. Requests(c)' = Append(Requests(c), x)
      <4>1. Numbers(RequestNo, Append(toDriver[c], m(r))) = Append(Requests(c), x)
        <5>1. toDriver[c] \in Seq(Sent) /\ RequestNo \in [Sent -> Nat]
          BY LineTypes, NumberTypes
        <5> QED
          BY <2>3, <5>1, NumbersAppend DEF Requests, x
      <4> QED
        BY <3>1, <4>1 DEF Requests
    <3>3. x \in Nat /\ (x = 0 \/ x = sent[c] + 1) /\ sent'[c] = sent[c] + 1
      BY <2>2, <2>4, <2>6, <3>1
    <3>4. Line(Writing(c), Replies(c), InHand(c), Commands(c), Requests(c), sent[c])
      BY DEF OrderOf
    <3>5. /\ Line(Writing(c), Replies(c), InHand(c), Commands(c), Requests(c)', sent'[c])
          /\ InLine(Writing(c), Replies(c), InHand(c), Commands(c), Requests(c)')
               = OnItsWay(c) \union {x}
      <4> DEFINE w == Writing(c)
                 A == Replies(c)
                 g == InHand(c)
                 B == Commands(c)
                 D == Requests(c)
                 top == sent[c]
      <4>1. /\ w \in Nat /\ A \in Seq(Nat) /\ g \in Nat /\ B \in Seq(Nat)
            /\ D \in Seq(Nat) /\ top \in Nat
        BY LineTypes
      <4>2. x \in Nat /\ (x = 0 \/ x = top + 1) /\ Line(w, A, g, B, D, top)
        BY <3>3, <3>4
      <4>3. /\ Line(w, A, g, B, Append(D, x), top + 1)
            /\ InLine(w, A, g, B, Append(D, x)) = InLine(w, A, g, B, D) \union {x}
        <5> HIDE DEF w, A, g, B, D, top, n
        <5> QED
          BY <4>1, <4>2, LineSend
      <4> QED
        BY <3>2, <3>3, <4>3 DEF OnItsWay
    <3>6. OnItsWay(c)' = OnItsWay(c) \union {x}
      BY <1>2, <3>5 DEF OnItsWay
    <3>7. owed'[c] \subseteq owed[c] \union {x} /\ 0 \notin owed'[c]
      BY <2>2, <2>4, <3>1 DEF OrderOf
    <3> QED
      BY <1>2, <3>5, <3>6, <3>7 DEF OrderOf, StaysOpen
  <2> QED
    BY <2>5, <2>6
<1> QED
  BY <1>3, <1>4 DEF Client, Connect, ClientRead, HangUp

LEMMA SoReceiverOrder ==
  ASSUME TypeOK, NEW c \in Clients, OrderOf(c), StaysOpen(c),
         NEW d \in Clients, SoReceiver(d)
  PROVE  OrderOf(c)'
<1>1. UNCHANGED <<sent, giElem, soQueue, stPc, stMsg, owed>>
  BY DEF SoReceiver, Register, Receive, Unregister, Close, clientVars, giVars,
         stVars, outVars
<1>2. /\ Writing(c)' = Writing(c) /\ Replies(c)' = Replies(c) /\ InHand(c)' = InHand(c)
  BY <1>1 DEF Writing, Replies, InHand
<1>3. CASE UNCHANGED <<toDriver, gateInQueue>>
  BY <1>1, <1>2, <1>3, OrderFrame DEF Requests, Commands
<1>4. CASE Receive(d)
  <2> DEFINE h == Head(toDriver[d])
             e == [src |-> d, fd |-> sock[d], req |-> [h EXCEPT !.tid = ParseTid(@)]]
  <2>1. /\ toDriver[d] # <<>> /\ toDriver[d] \in Seq(Sent)
        /\ gateInQueue' = Append(gateInQueue, e)
        /\ toDriver' = [toDriver EXCEPT ![d] = Tail(@)]
    BY <1>4 DEF Receive, TypeOK
  <2>2. h \in Sent
    BY <2>1, ElemsTail, ElemTypes
  <2>3. e \in GateElem /\ e.src = d /\ e.req.kind = h.kind /\ e.req.n = h.n
    BY <2>2, ParseType DEF GateElem, Sent, TypeOK
  <2> DEFINE x == CommandNo(c)[e]
  <2>4. x = IF c = d THEN RequestNo[h] ELSE 0
    BY <2>2, <2>3 DEF CommandNo, RequestNo
  <2> HIDE DEF e, h, x
  <2>5. Commands(c)' = Append(Commands(c), x)
    <3>1. Numbers(CommandNo(c), Append(gateInQueue, e)) = Append(Commands(c), x)
      <4>1. gateInQueue \in Seq(GateElem) /\ CommandNo(c) \in [GateElem -> Nat]
        BY LineTypes, NumberTypes
      <4> QED
        BY <2>3, <4>1, NumbersAppend DEF Commands, x
    <3> QED
      BY <2>1, <3>1 DEF Commands
  <2>6. CASE c # d
    <3>1. Requests(c)' = Requests(c)
      BY <2>1, <2>6 DEF Requests, TypeOK
    <3>2. /\ Line(Writing(c), Replies(c), InHand(c), Commands(c), Requests(c), sent[c])
          /\ x = 0
      BY <2>4, <2>6 DEF OrderOf
    <3>3. /\ Line(Writing(c), Replies(c), InHand(c), Append(Commands(c), 0), Requests(c),
                  sent[c])
          /\ OnItsWay(c) \subseteq
               InLine(Writing(c), Replies(c), InHand(c), Append(Commands(c), 0), Requests(c))
      BY <3>2, LineTypes, LineNothing DEF OnItsWay
    <3> QED
      BY <1>1, <1>2, <2>5, <3>1, <3>2, <3>3, OrderFrom
  <2>7. CASE c = d
    <3>1. /\ Requests(c) # <<>> /\ Head(Requests(c)) = RequestNo[h]
          /\ Requests(c)' = Tail(Requests(c))
      <4>1. /\ Requests(c) # <<>> /\ Head(Requests(c)) = RequestNo[h]
            /\ Numbers(RequestNo, Tail(toDriver[c])) = Tail(Requests(c))
        BY <2>1, <2>7, NumberTypes, NumbersTail DEF Requests, h
      <4>2. toDriver'[c] = Tail(toDriver[c])
        BY <2>1, <2>7 DEF TypeOK
      <4> QED
        BY <4>1, <4>2 DEF Requests
    <3>2. /\ Line(Writing(c), Replies(c), InHand(c), Commands(c), Requests(c), sent[c])
          /\ x = Head(Requests(c))
      BY <2>4, <2>7, <3>1 DEF OrderOf
    <3>3. /\ Line(Writing(c), Replies(c), InHand(c), Append(Commands(c), x),
                  Tail(Requests(c)), sent[c])
          /\ OnItsWay(c) =
               InLine(Writing(c), Replies(c), InHand(c), Append(Commands(c), x),
                      Tail(Requests(c)))
      <4>1. /\ Writing(c) \in Nat /\ Replies(c) \in Seq(Nat) /\ InHand(c) \in Nat
            /\ Commands(c) \in Seq(Nat) /\ Requests(c) \in Seq(Nat) /\ sent[c] \in Nat
        BY LineTypes
      <4> QED
        BY <3>1, <3>2, <4>1, LineReceive DEF OnItsWay
    <3> QED
      BY <1>1, <1>2, <2>5, <3>1, <3>3, OrderFrom
  <2> QED
    BY <2>6, <2>7
<1> QED
  BY <1>3, <1>4 DEF SoReceiver, Register, Unregister, Close, clientVars, giVars

LEMMA ServerOrder ==
  ASSUME NEW c \in Clients, OrderOf(c), StaysOpen(c), Server
  PROVE  OrderOf(c)'
<1>1. UNCHANGED <<sent, toDriver, gateInQueue, giElem, soQueue, stPc, stMsg, owed>>
  BY DEF Server, Accept, AcceptFails, clientVars, giVars, stVars, outVars
<1> QED
  BY <1>1, OrderFrame DEF Writing, Replies, InHand, Commands, Requests


\* An element enters or leaves the queue of SoTransmitter.
LEMMA RepliesAppend ==
  ASSUME TypeOK, NEW c \in Clients, NEW m \in Message, soQueue' = Append(soQueue, m)
  PROVE  Replies(c)' = Append(Replies(c), AnswerNo(c)[m])
<1>1. soQueue \in Seq(Message) /\ AnswerNo(c) \in [Message -> Nat]
  BY LineTypes, NumberTypes
<1>2. Numbers(AnswerNo(c), Append(soQueue, m)) = Append(Replies(c), AnswerNo(c)[m])
  BY <1>1, NumbersAppend DEF Replies
<1> QED
  BY <1>2 DEF Replies

LEMMA RepliesTail ==
  ASSUME TypeOK, NEW c \in Clients, soQueue # <<>>, soQueue' = Tail(soQueue)
  PROVE  /\ Replies(c) # <<>> /\ Head(Replies(c)) = AnswerNo(c)[Head(soQueue)]
         /\ Replies(c)' = Tail(Replies(c))
         /\ Head(soQueue) \in Message
<1>1. soQueue \in Seq(Message) /\ AnswerNo(c) \in [Message -> Nat]
  BY LineTypes, NumberTypes
<1>2. /\ Replies(c) # <<>> /\ Head(Replies(c)) = AnswerNo(c)[Head(soQueue)]
      /\ Numbers(AnswerNo(c), Tail(soQueue)) = Tail(Replies(c))
  BY <1>1, NumbersTail DEF Replies
<1>3. Head(soQueue) \in Message
  BY <1>1, HeadTailProperties
<1> QED
  BY <1>2, <1>3 DEF Replies

LEMMA AnswerOrder ==
  ASSUME TypeOK, NEW c \in Clients, OrderOf(c), StaysOpen(c),
         NEW d \in Clients, NEW t \in Tid, Answer(t, d),
         UNCHANGED <<sent, toDriver, gateInQueue, giElem, stPc, stMsg, owed>>
  PROVE  OrderOf(c)'
<1>1. PICK g \in Garbage :
        soQueue' = Append(soQueue, [tid |-> t, uniall |-> g, src |-> d, n |-> 0])
  BY DEF Answer
<1> DEFINE m == [tid |-> t, uniall |-> g, src |-> d, n |-> 0]
<1>2. m \in Message /\ m.n = 0
  BY RoutingAssumption DEF Message
<1>3. AnswerNo(c)[m] = 0
  BY <1>2 DEF AnswerNo
<1>4. Replies(c)' = Append(Replies(c), 0)
  BY <1>1, <1>2, <1>3, RepliesAppend
<1>5. /\ Writing(c)' = Writing(c) /\ InHand(c)' = InHand(c)
      /\ Commands(c)' = Commands(c) /\ Requests(c)' = Requests(c)
  BY DEF Writing, InHand, Commands, Requests
<1>6. /\ Writing(c) \in Nat /\ Replies(c) \in Seq(Nat) /\ InHand(c) \in Nat
      /\ Commands(c) \in Seq(Nat) /\ Requests(c) \in Seq(Nat) /\ sent[c] \in Nat
  BY LineTypes
<1>7. Line(Writing(c), Replies(c), InHand(c), Commands(c), Requests(c), sent[c])
  BY DEF OrderOf
<1>8. /\ Line(Writing(c), Append(Replies(c), 0), InHand(c), Commands(c), Requests(c), sent[c])
      /\ OnItsWay(c) \subseteq
           InLine(Writing(c), Append(Replies(c), 0), InHand(c), Commands(c), Requests(c))
  BY <1>6, <1>7, LineOther DEF OnItsWay
<1> QED
  BY <1>4, <1>5, <1>8, OrderFrom

LEMMA GateInOrder ==
  ASSUME TypeOK, NEW c \in Clients, OrderOf(c), StaysOpen(c), GateIn
  PROVE  OrderOf(c)'
<1>1. UNCHANGED <<sent, toDriver, stPc, stMsg, owed>>
  BY DEF GateIn, GateInStore, GateInTransmit, GateInOther, GateInRefuse,
         GateInAccept, GateInMatrix, clientVars,
         stVars, outVars
<1>2. Writing(c)' = Writing(c) /\ Requests(c)' = Requests(c)
  BY <1>1 DEF Writing, Requests
<1>3. /\ Writing(c) \in Nat /\ Replies(c) \in Seq(Nat) /\ InHand(c) \in Nat
      /\ Commands(c) \in Seq(Nat) /\ Requests(c) \in Seq(Nat) /\ sent[c] \in Nat
  BY LineTypes
<1>4. Line(Writing(c), Replies(c), InHand(c), Commands(c), Requests(c), sent[c])
  BY DEF OrderOf
<1>5. CASE GateInStore
  <2> DEFINE e == Head(gateInQueue)
  <2>1. /\ giElem = Nil /\ gateInQueue # <<>> /\ gateInQueue \in Seq(GateElem)
        /\ giElem' = e /\ gateInQueue' = Tail(gateInQueue) /\ soQueue' = soQueue
    BY <1>5 DEF GateInStore, TypeOK
  <2>2. e \in GateElem /\ e # Nil
    BY <2>1, ElemsTail, ElemTypes, NoElementAssumption
  <2>3. /\ Commands(c) # <<>> /\ Head(Commands(c)) = CommandNo(c)[e]
        /\ Commands(c)' = Tail(Commands(c))
    <3>1. CommandNo(c) \in [GateElem -> Nat]
      BY NumberTypes
    <3>2. /\ Commands(c) # <<>> /\ Head(Commands(c)) = CommandNo(c)[e]
          /\ Numbers(CommandNo(c), Tail(gateInQueue)) = Tail(Commands(c))
      BY <2>1, <3>1, NumbersTail DEF Commands
    <3> QED
      BY <2>1, <3>2 DEF Commands
  <2>4. InHand(c) = 0 /\ InHand(c)' = Head(Commands(c))
    BY <2>1, <2>2, <2>3 DEF InHand
  <2>5. Replies(c)' = Replies(c)
    BY <2>1 DEF Replies
  <2>6. /\ Line(Writing(c), Replies(c), Head(Commands(c)), Tail(Commands(c)), Requests(c),
                sent[c])
        /\ OnItsWay(c) \subseteq
             InLine(Writing(c), Replies(c), Head(Commands(c)), Tail(Commands(c)), Requests(c))
               \union {0}
    BY <1>3, <1>4, <2>3, <2>4, LineStore DEF OnItsWay
  <2> QED
    BY <1>1, <1>2, <2>3, <2>4, <2>5, <2>6, OrderFrom
<1>6. CASE GateInTransmit \/ GateInOther
  <2>1. /\ giElem # Nil /\ giElem.req.kind # "matrix" /\ giElem' = Nil
        /\ UNCHANGED <<gateInQueue, soQueue>>
    BY <1>6 DEF GateInTransmit, GateInOther, GateInDone
  <2>2. InHand(c) = 0 /\ InHand(c)' = 0
    BY <2>1 DEF InHand, CommandNo, TypeOK
  <2> QED
    BY <1>1, <1>2, <2>1, <2>2, OrderFrame DEF Replies, Commands
<1>7. CASE GateInRefuse \/ GateInMatrix
  <2>1. PICK g \in Garbage :
          soQueue' = Append(soQueue, [tid |-> giElem.req.tid, uniall |-> g,
                                      src |-> giElem.src, n |-> giElem.req.n])
    BY <1>7, MatrixFacts DEF MatrixAnswer
  <2> DEFINE m == [tid |-> giElem.req.tid, uniall |-> g, src |-> giElem.src,
                   n |-> giElem.req.n]
  <2>2. /\ giElem # Nil /\ giElem \in GateElem /\ giElem.req.kind = "matrix"
        /\ giElem' = Nil /\ UNCHANGED gateInQueue
    BY <1>7, MatrixFacts DEF GateInDone
  <2>3. m \in Message /\ m.src = giElem.src /\ m.n = giElem.req.n
    BY <2>2, RoutingAssumption DEF Message, GateElem, Sent
  <2>4. AnswerNo(c)[m] = InHand(c)
    BY <2>2, <2>3 DEF AnswerNo, InHand, CommandNo
  <2>5. Replies(c)' = Append(Replies(c), InHand(c))
    BY <2>1, <2>3, <2>4, RepliesAppend
  <2>6. InHand(c)' = 0 /\ Commands(c)' = Commands(c)
    BY <2>2 DEF InHand, Commands
  <2>7. /\ Line(Writing(c), Append(Replies(c), InHand(c)), 0, Commands(c), Requests(c), sent[c])
        /\ OnItsWay(c) \subseteq
             InLine(Writing(c), Append(Replies(c), InHand(c)), 0, Commands(c), Requests(c))
    BY <1>3, <1>4, LineAnswer DEF OnItsWay
  <2> QED
    BY <1>1, <1>2, <2>5, <2>6, <2>7, OrderFrom
<1>8. CASE GateInAccept
  <2>1. UNCHANGED <<gateInQueue, giElem, soQueue>>
    BY <1>8 DEF GateInAccept
  <2> QED
    BY <1>1, <1>2, <2>1, OrderFrame DEF Replies, InHand, Commands
<1> QED
  BY <1>5, <1>6, <1>7, <1>8 DEF GateIn

LEMMA RfTransmitterOrder ==
  ASSUME TypeOK, NEW c \in Clients, OrderOf(c), StaysOpen(c), RfTransmitter \/ ChipHangs
  PROVE  OrderOf(c)'
<1>1. UNCHANGED <<sent, toDriver, gateInQueue, giElem, stPc, stMsg, owed>>
  BY DEF RfTransmitter, RfReject, RfFragment, RfSend, RfAcked, RfUnreachable, ChipHangs, clientVars,
         giVars, stVars, outVars
<1>2. CASE soQueue' = soQueue
  BY <1>1, <1>2, OrderFrame DEF Writing, Replies, InHand, Commands, Requests
<1>3. ASSUME NEW t \in Tid, NEW d \in Clients, Answer(t, d) PROVE OrderOf(c)'
  BY <1>1, <1>3, AnswerOrder
<1>4. CASE RfReject
  <2>1. rfQueue # <<>> /\ Answer(Head(rfQueue).tid, Head(rfQueue).src)
    BY <1>4 DEF RfReject
  <2>2. Head(rfQueue) \in RfElem
    BY <2>1, ElemsTail, ElemTypes DEF TypeOK
  <2> QED
    BY <1>3, <2>1, <2>2 DEF RfElem
<1>5. CASE RfUnreachable
  <2>1. left > 0 /\ Answer(Tid16(sending.tid), sending.src)
    BY <1>5, FragmentFacts DEF RfUnreachable
  <2>2. sending.tid \in Tid /\ sending.src \in Clients
    BY <2>1 DEF TypeOK, RfElem
  <2> QED
    BY <1>3, <2>1, <2>2, Tid16Type
<1> QED
  BY <1>2, <1>4, <1>5 DEF RfTransmitter, RfFragment, RfSend, RfAcked, ChipHangs

LEMMA GateOutOrder ==
  ASSUME TypeOK, NEW c \in Clients, OrderOf(c), StaysOpen(c), GateOut
  PROVE  OrderOf(c)'
<1>1. UNCHANGED <<sent, toDriver, gateInQueue, giElem, stPc, stMsg, owed>>
  BY DEF GateOut, GateOutReply, GateOutEvent, clientVars, giVars, stVars, outVars
<1>2. ASSUME NEW r \in remote, GateOutReply(r) PROVE OrderOf(c)'
  <2>1. r.src \in Clients /\ r.tid \in Tid
    BY DEF TypeOK, RfElem
  <2>2. Answer(ParseTid(r.tid), r.src)
    BY <1>2 DEF GateOutReply
  <2> QED
    BY <1>1, <2>1, <2>2, ParseType, AnswerOrder
<1>3. CASE GateOutEvent
  <2> DEFINE m == [tid |-> NoTid, uniall |-> TRUE, src |-> Nil, n |-> 0]
  <2>1. m \in Message /\ m.n = 0
    BY NoTidType DEF Message
  <2>2. soQueue' = Append(soQueue, m)
    BY <1>3 DEF GateOutEvent
  <2>3. AnswerNo(c)[m] = 0
    BY <2>1 DEF AnswerNo
  <2>4. Replies(c)' = Append(Replies(c), 0)
    BY <2>1, <2>2, <2>3, RepliesAppend
  <2>5. /\ Writing(c)' = Writing(c) /\ InHand(c)' = InHand(c)
        /\ Commands(c)' = Commands(c) /\ Requests(c)' = Requests(c)
    BY <1>1 DEF Writing, InHand, Commands, Requests
  <2>6. /\ Writing(c) \in Nat /\ Replies(c) \in Seq(Nat) /\ InHand(c) \in Nat
        /\ Commands(c) \in Seq(Nat) /\ Requests(c) \in Seq(Nat) /\ sent[c] \in Nat
    BY LineTypes
  <2>7. Line(Writing(c), Replies(c), InHand(c), Commands(c), Requests(c), sent[c])
    BY DEF OrderOf
  <2>8. /\ Line(Writing(c), Append(Replies(c), 0), InHand(c), Commands(c), Requests(c), sent[c])
        /\ OnItsWay(c) \subseteq
             InLine(Writing(c), Append(Replies(c), 0), InHand(c), Commands(c), Requests(c))
    BY <2>6, <2>7, LineOther DEF OnItsWay
  <2> QED
    BY <1>1, <2>4, <2>5, <2>8, OrderFrom
<1> QED
  BY <1>2, <1>3 DEF GateOut


\* What a write takes off the commands that are owed.
LEMMA WriteOwes ==
  ASSUME TypeOK, NEW f, NEW m, Write(f, m), NEW c \in Clients
  PROVE  /\ m.src # c => owed'[c] = owed[c]
         /\ \/ owed'[c] = owed[c]
            \/ /\ owed'[c] = owed[c] \ {m.n} /\ link[c] = "open" /\ m.src = c
         /\ (Holders(f) = {c} /\ link[c] # "hungup" /\ m.src = c)
              => owed'[c] = owed[c] \ {m.n}
<1>1. CASE Holders(f) = {} /\ UNCHANGED owed
  BY <1>1
<1>2. ASSUME NEW d \in Holders(f), link[d] = "hungup", UNCHANGED owed
      PROVE  /\ owed'[c] = owed[c]
             /\ ~(Holders(f) = {c} /\ link[c] # "hungup" /\ m.src = c)
  BY <1>2
<1>3. ASSUME NEW d \in Holders(f), link[d] = "open",
             owed' = IF m.src = d THEN [owed EXCEPT ![d] = @ \ {m.n}] ELSE owed
      PROVE  /\ m.src # c => owed'[c] = owed[c]
             /\ \/ owed'[c] = owed[c]
                \/ /\ owed'[c] = owed[c] \ {m.n} /\ link[c] = "open" /\ m.src = c
             /\ (Holders(f) = {c} /\ link[c] # "hungup" /\ m.src = c)
                  => owed'[c] = owed[c] \ {m.n}
  BY <1>3 DEF TypeOK, Holders
<1> QED
  BY <1>1, <1>2, <1>3 DEF Write

LEMMA WriteOrder ==
  ASSUME TypeOK, OwnDescriptor, OwnWrite, NEW c \in Clients, OrderOf(c), StaysOpen(c),
         StWrite
  PROVE  OrderOf(c)'
<1>1. /\ stPc = "write" /\ Write(stFd, stMsg) /\ stPc' = "idle" /\ stMsg' = Nil
      /\ UNCHANGED <<link, sent, toDriver, gateInQueue, giElem, soQueue, rx>>
  BY DEF StWrite, clientVars, giVars, rxVars
<1>2. /\ Replies(c)' = Replies(c) /\ InHand(c)' = InHand(c)
      /\ Commands(c)' = Commands(c) /\ Requests(c)' = Requests(c)
      /\ Writing(c)' = 0
  BY <1>1 DEF Writing, Replies, InHand, Commands, Requests
<1>3. /\ stMsg.src \in Clients /\ rx[stMsg.src] # "none" /\ stFd = sock[stMsg.src]
      /\ stMsg \in Message
  BY <1>1 DEF OwnWrite, TypeOK
<1>4. CASE c # stMsg.src
  <2>1. Writing(c) = 0
    BY <1>1, <1>3, <1>4 DEF Writing, AnswerNo
  <2>2. owed'[c] = owed[c]
    BY <1>1, <1>4, WriteOwes
  <2> QED
    BY <1>1, <1>2, <2>1, <2>2, OrderFrame
<1>5. CASE c = stMsg.src
  <2> DEFINE n == stMsg.n
  <2>1. Writing(c) = n
    BY <1>1, <1>3, <1>5 DEF Writing, AnswerNo
  <2>2. /\ Writing(c) \in Nat /\ Replies(c) \in Seq(Nat) /\ InHand(c) \in Nat
        /\ Commands(c) \in Seq(Nat) /\ Requests(c) \in Seq(Nat) /\ sent[c] \in Nat
    BY LineTypes
  <2>3. Line(Writing(c), Replies(c), InHand(c), Commands(c), Requests(c), sent[c])
    BY DEF OrderOf
  <2>4. /\ Line(0, Replies(c), InHand(c), Commands(c), Requests(c), sent[c])
        /\ OnItsWay(c) \subseteq
             InLine(0, Replies(c), InHand(c), Commands(c), Requests(c)) \union {n}
    BY <2>1, <2>2, <2>3, LineWritten DEF OnItsWay
  <2>5. /\ Line(Writing(c), Replies(c), InHand(c), Commands(c), Requests(c), sent[c])'
        /\ OnItsWay(c) \subseteq OnItsWay(c)' \union {n}
    BY <1>1, <1>2, <2>4 DEF OnItsWay
  <2>6. owed'[c] \subseteq owed[c]
    BY <1>1, WriteOwes
  <2>7. ASSUME link'[c] # "hungup"
        PROVE  /\ owed'[c] \subseteq OnItsWay(c)'
               /\ rx'[c] \in {"none", "start", "reading"}
    <3>1. /\ link[c] # "hungup" /\ rx'[c] \in {"none", "start", "reading"}
          /\ owed[c] \subseteq OnItsWay(c) /\ rx[c] \in {"none", "start", "reading"}
      BY <2>7 DEF StaysOpen, OrderOf
    <3>2. Holders(stFd) = {c}
      BY <1>3, <1>5, <3>1 DEF Holders, Alive, OwnDescriptor
    <3>3. owed'[c] = owed[c] \ {n}
      BY <1>1, <1>5, <3>1, <3>2, WriteOwes
    <3> QED
      BY <2>5, <3>1, <3>3
  <2> QED
    BY <2>5, <2>6, <2>7 DEF OrderOf
<1> QED
  BY <1>4, <1>5

LEMMA SoTransmitterOrder ==
  ASSUME TypeOK, OwnDescriptor, OwnTransactions, NoAnswerToAll, NEW c \in Clients,
         OrderOf(c), StaysOpen(c), SoTransmitter
  PROVE  OrderOf(c)'
<1>1. UNCHANGED <<sent, toDriver, gateInQueue, giElem>>
  BY DEF SoTransmitter, StTakeBroadcast, StTakeDirected, StWrite, StLock,
     StLockDangling, StWalk, StUnlock, clientVars, giVars
<1>2. InHand(c)' = InHand(c) /\ Commands(c)' = Commands(c) /\ Requests(c)' = Requests(c)
  BY <1>1 DEF InHand, Commands, Requests
<1>3. /\ Writing(c) \in Nat /\ Replies(c) \in Seq(Nat) /\ InHand(c) \in Nat
      /\ Commands(c) \in Seq(Nat) /\ Requests(c) \in Seq(Nat) /\ sent[c] \in Nat
  BY LineTypes
<1>4. Line(Writing(c), Replies(c), InHand(c), Commands(c), Requests(c), sent[c])
  BY DEF OrderOf
<1>5. ASSUME stPc = "idle", soQueue # <<>>, soQueue' = Tail(soQueue), UNCHANGED owed,
             Writing(c)' = AnswerNo(c)[Head(soQueue)]
      PROVE  OrderOf(c)'
  <2>1. /\ Replies(c) # <<>> /\ Head(Replies(c)) = AnswerNo(c)[Head(soQueue)]
        /\ Replies(c)' = Tail(Replies(c))
    BY <1>5, RepliesTail
  <2>2. Writing(c) = 0 /\ Writing(c)' = Head(Replies(c))
    BY <1>5, <2>1 DEF Writing
  <2>3. /\ Line(Head(Replies(c)), Tail(Replies(c)), InHand(c), Commands(c), Requests(c), sent[c])
        /\ OnItsWay(c) \subseteq
             InLine(Head(Replies(c)), Tail(Replies(c)), InHand(c), Commands(c), Requests(c))
               \union {0}
    BY <1>3, <1>4, <2>1, <2>2, LineTake DEF OnItsWay
  <2> QED
    BY <1>1, <1>2, <1>5, <2>1, <2>2, <2>3, OrderFrom
<1>6. CASE StTakeBroadcast
  <2>1. /\ stPc = "idle" /\ soQueue # <<>> /\ soQueue' = Tail(soQueue) /\ UNCHANGED owed
        /\ Head(soQueue).uniall /\ stPc' = "iter"
    BY <1>6 DEF StTakeBroadcast, outVars
  <2>2. Head(soQueue) \in Elems(soQueue) /\ Head(soQueue) \in Message
    BY <2>1, ElemsTail, ElemTypes DEF TypeOK
  <2>3. AnswerNo(c)[Head(soQueue)] = 0
    BY <2>1, <2>2, RoutingAssumption DEF NoAnswerToAll, AnswerNo
  <2>4. Writing(c)' = 0
    BY <2>1 DEF Writing
  <2> QED
    BY <1>5, <2>1, <2>3, <2>4
<1>7. CASE StTakeDirected
  <2>1. /\ stPc = "idle" /\ soQueue # <<>> /\ soQueue' = Tail(soQueue) /\ UNCHANGED owed
        /\ ~Head(soQueue).uniall
        /\ \/ tidSoMap[Head(soQueue).tid] = NoFd
           \/ stMsg' = Head(soQueue) /\ stPc' = "write"
    BY <1>7 DEF StTakeDirected, outVars
  <2>2. Head(soQueue) \in Elems(soQueue)
    BY <2>1, ElemsTail DEF TypeOK
  <2>3. stMsg' = Head(soQueue) /\ stPc' = "write"
    BY <2>1, <2>2 DEF OwnTransactions, OwnReplies
  <2>4. Writing(c)' = AnswerNo(c)[Head(soQueue)]
    BY <2>3 DEF Writing
  <2> QED
    BY <1>5, <2>1, <2>4
<1>8. CASE StWrite
  BY <1>8, WriteOrder DEF OwnTransactions
<1>9. CASE StLock \/ StLockDangling \/ StUnlock
  <2>1. stPc # "write" /\ stPc' # "write" /\ UNCHANGED <<soQueue, owed>>
    BY <1>9 DEF StLock, StLockDangling, StUnlock, outVars
  <2>2. Writing(c) = 0 /\ Writing(c)' = 0 /\ Replies(c)' = Replies(c)
    BY <2>1 DEF Writing, Replies
  <2> QED
    BY <1>1, <1>2, <2>1, <2>2, OrderFrame
<1>10. CASE StWalk
  <2>1. /\ stPc = "walk" /\ UNCHANGED <<stPc, stMsg, soQueue>>
        /\ Write(Head(stRest).fd, stMsg)
    BY <1>10 DEF StWalk
  <2>2. stMsg.src # c
    BY <2>1, RoutingAssumption DEF NoAnswerToAll
  <2>3. owed'[c] = owed[c]
    BY <2>1, <2>2, WriteOwes
  <2>4. Writing(c)' = Writing(c) /\ Replies(c)' = Replies(c)
    BY <2>1 DEF Writing, Replies
  <2> QED
    BY <1>1, <1>2, <2>3, <2>4, OrderFrame
<1> QED
  BY <1>6, <1>7, <1>8, <1>9, <1>10 DEF SoTransmitter


-----------------------------------------------------------------------------
LEMMA InOrderInit == Init => InOrder
<1> SUFFICES ASSUME Init PROVE InOrder
  OBVIOUS
<1>1. Elems(<<>>) = {}
  BY DEF Elems
<1>2. NoAnswerToAll
  BY <1>1 DEF Init, NoAnswerToAll
<1>3. ASSUME NEW c \in Clients PROVE OrderOf(c)
  <2>1. Len(<<>>) = 0 /\ \A f : Numbers(f, <<>>) = <<>>
    BY DEF Numbers
  <2>2. /\ Writing(c) = 0 /\ InHand(c) = 0 /\ Replies(c) = <<>> /\ Commands(c) = <<>>
        /\ Requests(c) = <<>> /\ sent[c] = 0
    BY <1>3, <2>1 DEF Init, Writing, InHand, Replies, Commands, Requests
  <2>3. Line(0, <<>>, 0, <<>>, <<>>, 0)
    <3>1. Between(0, 0, 0) /\ Sorted(<<>>, 0, 0)
      BY <2>1 DEF Between, Sorted
    <3> QED
      BY <3>1 DEF Line
  <2>4. owed[c] = {} /\ rx[c] = "none"
    BY <1>3 DEF Init
  <2> QED
    BY <2>2, <2>3, <2>4 DEF OrderOf
<1> QED
  BY <1>2, <1>3 DEF InOrder

\* While an uninitialised uniall reads as false, no answer is written to all.
LEMMA NoAnswerToAllNext ==
  ASSUME Garbage \subseteq {FALSE}, TypeOK, OwnTransactions, NoAnswerToAll, [Next]_vars
  PROVE  NoAnswerToAll'
<1> DEFINE Events == \A m \in Elems(soQueue) : m.uniall => m.src = Nil
<1>1. Events
  BY DEF NoAnswerToAll
<1>2. ASSUME NEW m \in Message, soQueue' = Append(soQueue, m), m.uniall => m.src = Nil
      PROVE  Events'
  <2>1. Elems(soQueue') = Elems(soQueue) \union {m}
    BY <1>2, ElemsAppend DEF TypeOK
  <2> QED
    BY <1>1, <1>2, <2>1
<1>3. ASSUME soQueue # <<>>, soQueue' = Tail(soQueue)
      PROVE  Events' /\ Head(soQueue) \in Elems(soQueue)
  BY <1>1, <1>3, ElemsTail DEF TypeOK
<1>4. ASSUME NEW t \in Tid, NEW d \in Clients, Answer(t, d) PROVE Events'
  <2>1. PICK g \in Garbage :
          soQueue' = Append(soQueue, [tid |-> t, uniall |-> g, src |-> d, n |-> 0])
    BY <1>4 DEF Answer
  <2>2. /\ [tid |-> t, uniall |-> g, src |-> d, n |-> 0] \in Message
        /\ ~[tid |-> t, uniall |-> g, src |-> d, n |-> 0].uniall
    BY DEF Message
  <2> QED
    BY <1>2, <2>1, <2>2
<1> DEFINE Walks == stPc \in {"iter", "walk"} => stMsg.src = Nil
<1>5. Walks
  BY DEF NoAnswerToAll
<1>6. CASE UNCHANGED <<soQueue, stPc, stMsg>>
  BY <1>1, <1>5, <1>6 DEF NoAnswerToAll
<1>7. CASE GateIn
  <2>1. UNCHANGED <<stPc, stMsg>>
    BY <1>7 DEF GateIn, GateInStore, GateInTransmit, GateInOther, GateInRefuse,
         GateInAccept, GateInMatrix, stVars
  <2>2. CASE GateInRefuse \/ GateInMatrix
    <3> DEFINE m(g) == [tid |-> giElem.req.tid, uniall |-> g, src |-> giElem.src,
                        n |-> giElem.req.n]
    <3>1. PICK g \in Garbage : soQueue' = Append(soQueue, m(g))
      BY <2>2, MatrixFacts DEF MatrixAnswer
    <3>2. giElem \in GateElem
      BY <2>2, MatrixFacts
    <3>3. m(g) \in Message /\ ~m(g).uniall
      BY <3>2 DEF Message, GateElem, Sent
    <3>4. Events'
      BY <1>2, <3>1, <3>3
    <3> QED
      BY <1>5, <2>1, <3>4 DEF NoAnswerToAll
  <2>3. CASE ~(GateInRefuse \/ GateInMatrix)
    BY <1>6, <1>7, <2>1, <2>3 DEF GateIn, GateInStore, GateInTransmit, GateInOther,
         GateInAccept
  <2> QED
    BY <2>2, <2>3
<1>8. CASE RfTransmitter \/ ChipHangs
  <2>1. UNCHANGED <<stPc, stMsg>>
    BY <1>8 DEF RfTransmitter, RfReject, RfFragment, RfSend, RfAcked, RfUnreachable, ChipHangs, stVars
  <2>2. CASE RfReject
    <3>1. rfQueue # <<>> /\ Answer(Head(rfQueue).tid, Head(rfQueue).src)
      BY <2>2 DEF RfReject
    <3>2. Head(rfQueue) \in RfElem
      BY <3>1, ElemsTail, ElemTypes DEF TypeOK
    <3>3. Events'
      BY <1>4, <3>1, <3>2 DEF RfElem
    <3> QED
      BY <1>5, <2>1, <3>3 DEF NoAnswerToAll
  <2>3. CASE RfUnreachable
    <3>1. left > 0 /\ Answer(Tid16(sending.tid), sending.src)
      BY <2>3, FragmentFacts DEF RfUnreachable
    <3>2. sending.tid \in Tid /\ sending.src \in Clients
      BY <3>1 DEF TypeOK, RfElem
    <3>3. Events'
      BY <1>4, <3>1, <3>2, Tid16Type
    <3> QED
      BY <1>5, <2>1, <3>3 DEF NoAnswerToAll
  <2>4. CASE RfFragment \/ RfSend \/ RfAcked \/ ChipHangs
    BY <1>6, <2>1, <2>4 DEF RfFragment, RfSend, RfAcked, ChipHangs
  <2> QED
    BY <1>8, <2>2, <2>3, <2>4 DEF RfTransmitter
<1>9. CASE GateOut
  <2>1. UNCHANGED <<stPc, stMsg>>
    BY <1>9 DEF GateOut, GateOutReply, GateOutEvent, stVars
  <2>2. ASSUME NEW r \in remote, GateOutReply(r) PROVE Events'
    <3>1. r.src \in Clients /\ r.tid \in Tid
      BY DEF TypeOK, RfElem
    <3>2. Answer(ParseTid(r.tid), r.src)
      BY <2>2 DEF GateOutReply
    <3> QED
      BY <1>4, <3>1, <3>2, ParseType
  <2>3. ASSUME GateOutEvent PROVE Events'
    <3> DEFINE m == [tid |-> NoTid, uniall |-> TRUE, src |-> Nil, n |-> 0]
    <3>1. m \in Message /\ m.src = Nil
      BY NoTidType DEF Message
    <3>2. soQueue' = Append(soQueue, m)
      BY <2>3 DEF GateOutEvent
    <3> HIDE DEF m
    <3> QED
      BY <1>2, <3>1, <3>2
  <2>4. Events'
    BY <1>9, <2>2, <2>3 DEF GateOut
  <2> QED
    BY <1>5, <2>1, <2>4 DEF NoAnswerToAll
<1>10. CASE SoTransmitter
  <2>1. CASE StTakeBroadcast
    <3>1. /\ soQueue # <<>> /\ soQueue' = Tail(soQueue) /\ Head(soQueue).uniall
          /\ stMsg' = Head(soQueue)
      BY <2>1 DEF StTakeBroadcast
    <3> QED
      BY <1>1, <1>3, <3>1 DEF NoAnswerToAll
  <2>2. CASE StTakeDirected
    <3>1. /\ stPc = "idle" /\ soQueue # <<>> /\ soQueue' = Tail(soQueue)
          /\ stPc' \in {"idle", "write"}
      BY <2>2 DEF StTakeDirected, stVars
    <3> QED
      BY <1>3, <3>1 DEF NoAnswerToAll
  <2>3. CASE StWrite \/ StUnlock
    <3>1. soQueue' = soQueue /\ stPc' = "idle"
      BY <2>3 DEF StWrite, StUnlock
    <3> QED
      BY <1>1, <3>1 DEF NoAnswerToAll
  <2>4. CASE StLock \/ StLockDangling \/ StWalk
    <3>1. /\ soQueue' = soQueue /\ stMsg' = stMsg /\ stPc \in {"iter", "walk"}
      BY <2>4 DEF StLock, StLockDangling, StWalk
    <3> QED
      BY <1>1, <1>5, <3>1 DEF NoAnswerToAll
  <2> QED
    BY <1>10, <2>1, <2>2, <2>3, <2>4 DEF SoTransmitter
<1>11. CASE Server
  BY <1>6, <1>11 DEF Server, Accept, AcceptFails, stVars
<1>12. ASSUME NEW d \in Clients, SoReceiver(d) \/ Client(d) PROVE NoAnswerToAll'
  <2>1. UNCHANGED <<soQueue, stPc, stMsg>>
    BY <1>12 DEF SoReceiver, Register, Receive, Unregister, Close, Client, Connect,
         ClientSend, ClientRead, HangUp, stVars
  <2> QED
    BY <1>6, <2>1
<1>13. CASE UNCHANGED vars
  BY <1>6, <1>13 DEF vars, stVars
<1> QED
  BY <1>7, <1>8, <1>9, <1>10, <1>11, <1>12, <1>13 DEF Next, Idle

LEMMA InOrderNext ==
  ASSUME Garbage \subseteq {FALSE}, TypeOK, OwnDescriptor, OwnTransactions, InOrder,
         [Next]_vars
  PROVE  InOrder'
<1>1. NoAnswerToAll'
  BY NoAnswerToAllNext DEF InOrder
<1>2. ASSUME NEW c \in Clients PROVE OrderOf(c)'
  <2>1. OrderOf(c) /\ StaysOpen(c) /\ NoAnswerToAll
    BY LinkStep DEF InOrder
  <2>2. CASE UNCHANGED vars
    <3>1. UNCHANGED <<sent, toDriver, gateInQueue, giElem, soQueue, stPc, stMsg, owed>>
      BY <2>2 DEF vars, clientVars, giVars, stVars, outVars
    <3> QED
      BY <2>1, <3>1, OrderFrame DEF Writing, Replies, InHand, Commands, Requests
  <2>3. CASE Idle
    BY <2>2, <2>3 DEF Idle
  <2> QED
    BY <2>1, <2>2, <2>3, ClientOrder, SoReceiverOrder, ServerOrder, GateInOrder,
       RfTransmitterOrder, GateOutOrder, SoTransmitterOrder DEF Next
<1> QED
  BY <1>1, <1>2 DEF InOrder

\* Only the client and the write of SoTransmitter change what is owed.
LEMMA OwedChanges ==
  ASSUME [Next]_vars, owed' # owed
  PROVE  StWrite \/ StWalk \/ \E d \in Clients : ClientSend(d)
<1>1. ~Server
  BY DEF Server, Accept, AcceptFails, outVars
<1>2. ~GateIn
  BY DEF GateIn, GateInStore, GateInTransmit, GateInOther, GateInRefuse,
         GateInAccept, GateInMatrix, outVars
<1>3. ~RfTransmitter /\ ~ChipHangs
  BY DEF RfTransmitter, RfReject, RfFragment, RfSend, RfAcked, RfUnreachable, ChipHangs, outVars
<1>4. ~GateOut
  BY DEF GateOut, GateOutReply, GateOutEvent, outVars
<1>5. SoTransmitter => StWrite \/ StWalk
  BY DEF SoTransmitter, StTakeBroadcast, StTakeDirected, StLock, StLockDangling,
     StUnlock, outVars
<1>6. \A d \in Clients : ~SoReceiver(d) /\ (Client(d) => ClientSend(d))
  BY DEF SoReceiver, Register, Receive, Unregister, Close, Client, Connect, ClientRead,
     HangUp, outVars
<1>7. ~(UNCHANGED vars)
  BY DEF vars, outVars
<1> QED
  BY <1>1, <1>2, <1>3, <1>4, <1>5, <1>6, <1>7 DEF Next, Idle

LEMMA AnswerStep ==
  ASSUME TypeOK, OwnTransactions, InOrder, [Next]_vars,
         NEW c \in Clients, owed'[c] # owed[c]
  PROVE  \/ owed'[c] = owed[c] \union {sent'[c]}
         \/ \E n \in owed[c] : owed'[c] = owed[c] \ {n} /\ \A k \in owed[c] : n <= k
<1>1. ASSUME NEW d \in Clients, ClientSend(d)
      PROVE  owed'[c] = owed[c] \union {sent'[c]}
  <2>1. PICK r \in RequestsOf[d] :
          /\ owed' = IF r.kind = "matrix"
                     THEN [owed EXCEPT ![d] = @ \union {sent[d] + 1}] ELSE owed
          /\ sent' = [sent EXCEPT ![d] = sent[d] + 1]
    BY <1>1, Zenon DEF ClientSend
  <2>2. c = d /\ r.kind = "matrix"
    BY <2>1 DEF TypeOK
  <2> QED
    BY <2>1, <2>2 DEF TypeOK
<1>2. CASE StWalk
  <2>1. Write(Head(stRest).fd, stMsg) /\ stMsg.src # c
    BY <1>2, RoutingAssumption DEF StWalk, InOrder, NoAnswerToAll
  <2> QED
    BY <2>1, WriteOwes
<1>3. CASE StWrite
  <2> DEFINE n == stMsg.n
  <2>1. stPc = "write" /\ Write(stFd, stMsg) /\ stMsg \in Message
    BY <1>3 DEF StWrite, TypeOK
  <2>2. owed'[c] = owed[c] \ {n} /\ link[c] = "open" /\ stMsg.src = c
    BY <2>1, WriteOwes
  <2>3. n \in owed[c]
    BY <2>2
  <2>4. Writing(c) = n
    BY <2>1, <2>2 DEF Writing, AnswerNo
  <2>5. ASSUME NEW k \in owed[c] PROVE n <= k
    <3>1. k \in OnItsWay(c) /\ k # 0
      BY <2>2 DEF InOrder, OrderOf
    <3>2. /\ Writing(c) \in Nat /\ Replies(c) \in Seq(Nat) /\ InHand(c) \in Nat
          /\ Commands(c) \in Seq(Nat) /\ Requests(c) \in Seq(Nat) /\ sent[c] \in Nat
      BY LineTypes
    <3>3. Line(Writing(c), Replies(c), InHand(c), Commands(c), Requests(c), sent[c])
      BY DEF InOrder, OrderOf
    <3> QED
      BY <2>4, <3>1, <3>2, <3>3, FirstInLine DEF OnItsWay
  <2> QED
    BY <2>2, <2>3, <2>5
<1>4. owed' # owed
  OBVIOUS
<1> QED
  BY <1>1, <1>2, <1>3, <1>4, OwedChanges

\* gate_in.c:111-112, so_transmitter.c:47-51: a client with disciplined
\* transactions gets the answers to its matrix commands in the order of the
\* commands, and misses none of them while it is connected, as long as the
\* uninitialised uniall reads as false.
THEOREM AnswersAreInOrder ==
  ASSUME Disciplined, Garbage \subseteq {FALSE} PROVE Spec => AnswersInOrder
<1> DEFINE A == \A c \in Clients : owed'[c] # owed[c] =>
                  \/ owed'[c] = owed[c] \union {sent'[c]}
                  \/ \E n \in owed[c] :
                       owed'[c] = owed[c] \ {n} /\ \A k \in owed[c] : n <= k
<1>1. TypeOK /\ OwnDescriptor /\ OwnTransactions /\ InOrder /\ [Next]_vars => InOrder'
  BY InOrderNext
<1>2. TypeOK /\ OwnTransactions /\ InOrder /\ [Next]_vars => A
  BY AnswerStep
<1>3. Spec => [][A]_vars
  BY <1>1, <1>2, InOrderInit, TypeCorrect, DescriptorsAreOwned, TransactionsAreOwned,
     PTL DEF Spec
<1> QED
  BY <1>3 DEF AnswersInOrder
=============================================================================
