---------------------------- MODULE RadioProofs ----------------------------
(***************************************************************************)
(* For every number of pipes, all matrices and every order of the three    *)
(* threads, the chip and the devices: an accepted matrix is heard, until a *)
(* second matrix is set packets and fragments are not confused, and the    *)
(* outcome of a fragment is its own while nothing is received.             *)
(***************************************************************************)
EXTENDS Radio, SequenceTheorems, TLAPS

LEMMA NextIndex == ASSUME NEW n \in Nat, NEW k \in 1..n, k # n PROVE k + 1 \in 1..n
  OBVIOUS

USE RadioAssumption

LEMMA NextPipe == ASSUME NEW k \in Pipes, k < NPipes PROVE k + 1 \in Pipes
  BY DEF Pipes

(***************************************************************************)
(* Global k belongs to pipe (k + 1) \div 2, and is a targ if k is odd.     *)
(***************************************************************************)
LEMMA PipeOfGlobal ==
    ASSUME NEW k \in 1..(2 * NPipes) PROVE (k + 1) \div 2 \in Pipes
  BY DEF Pipes

LEMMA EvenIsNoTarg ==
    ASSUME NEW k \in Nat, NEW p \in Nat, 2 * p - 1 < k + 1, k % 2 # 1
    PROVE  2 * p - 1 < k
  <1>1. k % 2 = 0 /\ k = 2 * (k \div 2) + (k % 2) /\ k \div 2 \in Nat
    OBVIOUS
  <1> QED BY <1>1

LEMMA AppendIndex ==
    ASSUME NEW S, NEW s \in Seq(S), NEW e \in S
    PROVE  \A i \in 1..Len(Append(s, e)) :
              \/ i = Len(s) + 1 /\ Append(s, e)[i] = e
              \/ i \in 1..Len(s) /\ Append(s, e)[i] = s[i]
  OBVIOUS

LEMMA FirstPipe == 1 \in Pipes /\ 1 \in 1..(2 * NPipes) /\ Nobody \in Addresses
  BY DEF Pipes, Addresses

Holding == {"air", "leave"}
Sending == {"queued", "air", "leave"}

(***************************************************************************)
(* The transmitter holds the mutex while it waits for the chip; in a send  *)
(* there is a fragment left; a request is for a device.                    *)
(***************************************************************************)
TxInv ==
    /\ rf_mutex = "tx" <=> tx.pc \in Holding
    /\ tx.pc \in Sending => tx.left # 0
    /\ tx.pc # "idle" => tx.addr \in Exbs

TypeInv == TypeOK /\ TxInv

LEMMA IdleType ==
    /\ Idle \in TxStates
    /\ Idle.pc = "idle" /\ Idle.addr = Nobody /\ Idle.told = "none" /\ Idle.acked = "no"
  BY FirstPipe DEF Idle, TxStates

LEMMA InitType == Init => TypeInv
  <1> SUFFICES ASSUME Init PROVE TypeInv
    OBVIOUS
  <1>2. Blank \in [Pipes -> Addresses]
    BY FirstPipe DEF Blank
  <1>3. chip \in Registers
    <2>1. Lsb[Nobody] \in Nat
      BY FirstPipe
    <2>2. [p \in LowPipes |-> Lsb[Nobody]] \in [LowPipes -> Nat]
      BY <2>1
    <2>3. <<>> \in Seq([from : Exbs, pipe : Pipes])
      OBVIOUS
    <2> QED BY <2>2, <2>3, FirstPipe DEF Init, Registers
  <1>4. gate \in GateStates
    BY <1>2, FirstPipe DEF Init, GateStates
  <1>5. tx \in TxStates
    BY IdleType DEF Init
  <1>6. upQueue \in Seq([from : Exbs, addr : Addresses])
    BY DEF Init
  <1>7. TxInv
    BY IdleType DEF Init, TxInv, Holding, Sending
  <1> QED BY <1>2, <1>3, <1>4, <1>5, <1>6, <1>7 DEF Init, TypeInv, TypeOK

(***************************************************************************)
(* The registers after NRF24_RX_Mode, after a step that a hung chip does   *)
(* not take, and the transmitter after a fragment.                         *)
(***************************************************************************)
LEMMA RxModeType ==
    ASSUME TypeOK
    PROVE  /\ RxMode(chip) \in Registers
           /\ RxMode(chip).rx1 = targ[1] /\ RxMode(chip).rxlow = chip.rxlow
           /\ RxMode(chip).fifo = <<>> /\ RxMode(chip).sending = {}
           /\ RxMode(chip).status = chip.status /\ RxMode(chip).arc = chip.arc
  <1>1. targ[1] \in Addresses
    BY FirstPipe DEF TypeOK
  <1>2. chip \in Registers
    BY DEF TypeOK
  <1>3. <<>> \in Seq([from : Exbs, pipe : Pipes])
    OBVIOUS
  <1> QED BY <1>1, <1>2, <1>3 DEF RxMode, Registers

LEMMA NextFragmentType ==
    ASSUME TypeInv, tx.pc = "leave"
    PROVE  /\ NextFragment \in TxStates
           /\ NextFragment.pc \in {"idle", "queued"}
           /\ NextFragment.pc = "queued" =>
                 /\ NextFragment.left # 0
                 /\ NextFragment.addr = tx.addr /\ NextFragment.k = tx.k
           /\ NextFragment.told = "none" /\ NextFragment.acked = "no"
  <1>1. tx \in TxStates /\ tx.left \in Nat /\ tx.left # 0
    BY DEF TypeInv, TypeOK, TxInv, TxStates, Sending
  <1>2. CASE tx.left = 1
    BY <1>2, IdleType DEF NextFragment
  <1>3. CASE tx.left # 1
    <2>1. tx.left - 1 \in Nat /\ tx.left - 1 # 0
      BY <1>1, <1>3
    <2> QED BY <1>1, <1>3, <2>1 DEF NextFragment, TxStates
  <1> QED BY <1>2, <1>3

LEMMA WrittenType ==
    ASSUME TypeOK, NEW taken \in SUBSET Pipes
    PROVE  /\ Written(taken) \in Registers
           /\ Written(taken).fifo = chip.fifo /\ Written(taken).status = chip.status
           /\ Written(taken).sending = chip.sending /\ Written(taken).arc = chip.arc
           /\ Written(taken).rx1 = IF 1 \in taken THEN targ[1] ELSE chip.rx1
           /\ \A p \in LowPipes : Written(taken).rxlow[p] =
                                  IF p \in taken THEN Lsb[targ[p]] ELSE chip.rxlow[p]
  <1> DEFINE low == [p \in LowPipes |-> IF p \in taken THEN Lsb[targ[p]] ELSE chip.rxlow[p]]
             one == IF 1 \in taken THEN targ[1] ELSE chip.rx1
  <1>1. chip \in Registers
    BY DEF TypeOK
  <1>2. low \in [LowPipes -> Nat]
    <2> SUFFICES ASSUME NEW p \in LowPipes PROVE low[p] \in Nat
      OBVIOUS
    <2>1. p \in Pipes /\ targ[p] \in Addresses
      BY DEF LowPipes, TypeOK
    <2>2. Lsb[targ[p]] \in Nat /\ chip.rxlow[p] \in Nat
      BY <1>1, <2>1 DEF Registers
    <2> QED BY <2>2
  <1>3. one \in Addresses
    BY <1>1, FirstPipe DEF TypeOK, Registers
  <1>4. Written(taken) = [chip EXCEPT !.rx1 = one, !.rxlow = low]
    BY <1>1 DEF Written, Registers
  <1>5. \A p \in LowPipes : low[p] = IF p \in taken THEN Lsb[targ[p]] ELSE chip.rxlow[p]
    OBVIOUS
  <1> HIDE DEF low
  <1>6. Written(taken) \in Registers /\ Written(taken).rxlow = low /\ Written(taken).rx1 = one
    BY <1>1, <1>2, <1>3, <1>4 DEF Registers
  <1>7. /\ Written(taken).fifo = chip.fifo /\ Written(taken).status = chip.status
        /\ Written(taken).sending = chip.sending /\ Written(taken).arc = chip.arc
    BY <1>1, <1>4 DEF Registers
  <1> QED BY <1>5, <1>6, <1>7

(***************************************************************************)
(* Every step keeps the shape of the state.                                *)
(***************************************************************************)
LEMMA TypeStep == ASSUME TypeInv, [Next]_vars PROVE TypeInv'
  <1> USE DEF TypeInv, TypeOK, matrix, asked
  <1>0. chip \in Registers /\ gate \in GateStates /\ tx \in TxStates
    OBVIOUS
  <1>1. ASSUME NEW m \in Matrices, SetPipesMatrix(m) PROVE TypeInv'
    <2>1. m # Short => m \in [Pipes -> Addresses]
      BY DEF Addresses
    <2>3. gate' \in GateStates
      BY <1>1, <2>1, FirstPipe DEF SetPipesMatrix, GateStates
    <2> QED BY <1>1, <2>3 DEF SetPipesMatrix, TxInv
  <1>2. CASE WriteGlobal
    <2>1. gate.want \in [Pipes -> Addresses] /\ gate.k \in 1..(2 * NPipes)
      BY DEF GateStates
    <2>2. (gate.k + 1) \div 2 \in Pipes
      BY <2>1 DEF Pipes
    <2>3. gate.k # LastGlobal => gate.k + 1 \in 1..(2 * NPipes)
      <3>1. 2 * NPipes \in Nat
        OBVIOUS
      <3> QED BY <2>1, <3>1, NextIndex DEF LastGlobal
    <2>4. /\ targ' \in [Pipes -> Addresses]
          /\ self' \in [Pipes -> Addresses]
      BY <1>2, <2>1, <2>2 DEF WriteGlobal
    <2>5. gate' \in GateStates
      BY <1>2, <2>3 DEF WriteGlobal, GateStates
    <2> QED BY <1>2, <2>4, <2>5 DEF WriteGlobal, TxInv
  <1>3. ASSUME NEW taken \in SUBSET Pipes, Program(taken) PROVE TypeInv'
    <2>1. gate' \in GateStates
      BY <1>3 DEF Program, GateStates
    <2>2. chip' \in Registers
      BY <1>3, WrittenType DEF Program
    <2> QED BY <1>3, <2>1, <2>2 DEF Program, TxInv
  <1>4. ASSUME NEW d \in Exbs, NEW n \in Sizes, TakeRequest(d, n) PROVE TypeInv'
    <2>1. d \in Addresses /\ n \in Nat
      BY DEF Addresses
    <2>2. /\ tx' \in TxStates /\ tx'.pc = "lookup" /\ tx'.addr = d
      BY <1>4, <2>1, IdleType DEF TakeRequest, TxStates
    <2>3. TxInv'
      BY <1>4, <2>2 DEF TakeRequest, TxInv, Holding, Sending
    <2> QED BY <1>4, <2>2, <2>3 DEF TakeRequest
  <1>5. CASE GetPipeByAddress
    <2>1. tx.k < NPipes => tx.k + 1 \in Pipes
      <3>1. tx.k \in Pipes
        BY DEF TxStates
      <3> QED BY <3>1, NextPipe
    <2>4. [Idle EXCEPT !.told = "not_defined"] \in TxStates
          /\ [Idle EXCEPT !.told = "not_defined"].pc = "idle"
      BY IdleType DEF TxStates
    <2>2. tx' \in TxStates
      BY <1>5, <2>1, <2>4, IdleType DEF GetPipeByAddress, TxStates
    <2>3. TxInv'
      BY <1>5, <2>4, IdleType DEF GetPipeByAddress, TxStates, TxInv, Holding, Sending
    <2> QED BY <1>5, <2>2, <2>3 DEF GetPipeByAddress
  <1>6. CASE Send
    <2>1. Self(tx.k) \in Addresses
      BY DEF Self, TxStates
    <2>4. <<>> \in Seq([from : Exbs, pipe : Pipes])
      OBVIOUS
    <2>5. (IF MaxRt THEN {} ELSE {Self(tx.k)}) \subseteq Addresses
          /\ (IF MaxRt THEN chip.arc ELSE "few") \in {"few", "max"}
      BY <2>1 DEF Registers
    <2>2. chip' \in Registers
      BY <1>0, <1>6, <2>4, <2>5 DEF Send, Takes, Registers
    <2>3. tx' \in TxStates /\ TxInv'
      BY <1>6 DEF Send, TxStates, TxInv, Holding, Sending
    <2> QED BY <1>6, <2>2, <2>3 DEF Send
  <1>7. CASE ReadStatus
    <2>1. Cleared(chip.status) \subseteq {"RX_DR", "TX_DS", "MAX_RT"}
          /\ (IF Flushes(chip.status) THEN {} ELSE chip.sending) \subseteq Addresses
      BY DEF Cleared, Registers
    <2>2. chip' \in Registers
      BY <1>0, <1>7, <2>1 DEF ReadStatus, Takes, Registers
    <2>3. Outcome \in {"none", "not_defined", "transmitted", "unreachable", "garbled"}
      BY DEF Outcome
    <2>4. tx' \in TxStates /\ TxInv'
      BY <1>7, <2>3 DEF ReadStatus, TxStates, TxInv, Holding, Sending
    <2> QED BY <1>7, <2>2, <2>4 DEF ReadStatus
  <1>8. CASE Sent
    <2>1. chip' \in Registers
      BY <1>0, <1>8, RxModeType DEF Sent, Takes
    <2>2. tx' \in TxStates /\ TxInv'
      BY <1>8, NextFragmentType DEF Sent, TxInv, Holding, Sending
    <2> QED BY <1>8, <2>1, <2>2 DEF Sent
  <1>9. CASE Receive
    <2>1. chip.fifo \in Seq([from : Exbs, pipe : Pipes]) /\ chip.fifo # <<>>
      BY <1>9 DEF Receive, Registers
    <2>2. /\ Head(chip.fifo) \in [from : Exbs, pipe : Pipes]
          /\ Tail(chip.fifo) \in Seq([from : Exbs, pipe : Pipes])
      BY <2>1, HeadTailProperties
    <2>3. [from |-> Head(chip.fifo).from, addr |-> GetAddrByPipe(Head(chip.fifo).pipe)]
             \in [from : Exbs, addr : Addresses]
      BY <2>2 DEF GetAddrByPipe
    <2>4. chip' \in Registers
      BY <1>0, <1>9, <2>2 DEF Receive, Registers
    <2>5. upQueue' \in Seq([from : Exbs, addr : Addresses])
      BY <1>9, <2>3 DEF Receive
    <2> QED BY <1>9, <2>4, <2>5 DEF Receive, TxInv
  <1>10. CASE HangReset
    <2>1. chip' \in Registers
      BY <1>10, RxModeType DEF HangReset, Registers
    <2> QED BY <1>10, <2>1 DEF HangReset, TxInv
  <1>11. ASSUME NEW d \in Exbs, NEW p \in Pipes, ChipReceives(d, p) PROVE TypeInv'
    <2>1. Append(chip.fifo, [from |-> d, pipe |-> p]) \in Seq([from : Exbs, pipe : Pipes])
      BY DEF Registers
    <2>2. chip' \in Registers
      BY <1>0, <1>11, <2>1 DEF ChipReceives, Registers
    <2> QED BY <1>11, <2>2 DEF ChipReceives, TxInv
  <1>12. CASE ChipRetransmits
    <2>1. chip' \in Registers
      BY <1>0, <1>12 DEF ChipRetransmits, Registers
    <2> QED BY <1>12, <2>1 DEF ChipRetransmits, TxInv
  <1>13. CASE ChipAcknowledged
    <2>1. chip' \in Registers
      BY <1>0, <1>13 DEF ChipAcknowledged, Registers
    <2>2. heard' \subseteq [addr : Addresses, by : Exbs]
      BY <1>13 DEF ChipAcknowledged, Hear, TxStates
    <2>3. tx' \in TxStates /\ TxInv'
      BY <1>13 DEF ChipAcknowledged, TxStates, TxInv
    <2> QED BY <1>13, <2>1, <2>2, <2>3 DEF ChipAcknowledged
  <1>14. CASE ChipGivesUp
    <2>1. chip' \in Registers
      BY <1>0, <1>14 DEF ChipGivesUp, Registers
    <2>2. heard' \subseteq [addr : Addresses, by : Exbs]
      BY <1>14 DEF ChipGivesUp, Hear, TxStates
    <2> QED BY <1>14, <2>1, <2>2 DEF ChipGivesUp, TxInv
  <1>15. CASE Hang
    BY <1>15 DEF Hang, TxInv
  <1>16. CASE UNCHANGED vars
    BY <1>16 DEF vars, TxInv
  <1> QED BY <1>1, <1>2, <1>3, <1>4, <1>5, <1>6, <1>7, <1>8, <1>9, <1>10, <1>11, <1>12,
             <1>13, <1>14, <1>15, <1>16 DEF Next, GateIn, ProgramChip, Transmitter, ChipSends

LEMMA SpecTypeInv == Spec => []TypeInv
  BY InitType, TypeStep, PTL DEF Spec

(***************************************************************************)
(* Every variable has its shape.                                           *)
(***************************************************************************)
THEOREM TypeCorrect == Spec => []TypeOK
  BY SpecTypeInv, PTL DEF TypeInv

-----------------------------------------------------------------------------
(***************************************************************************)
(* GateIn writes the globals in turn, and nothing else writes them.  Once  *)
(* it has written them all they are the matrix of the command; after       *)
(* RESULT the registers are what they say, and the sends and resets that   *)
(* write the first address again change nothing.                           *)
(***************************************************************************)
Commanded == gate.pc \in {"write", "lock"} \/ Accepted

GateInv ==
    /\ Commanded => gate.want \in [Pipes -> Exbs] /\ ~Ident(gate.want)
    /\ gate.pc = "write" => \A p \in Pipes : 2 * p - 1 < gate.k => targ[p] = gate.want[p]
    /\ gate.pc = "lock" \/ Accepted => targ = gate.want
    /\ Accepted => /\ chip.rx1 = targ[1]
                   /\ \A p \in LowPipes : chip.rxlow[p] = Lsb[targ[p]]

(***************************************************************************)
(* Steps that leave the globals, the command and the registers alone, or   *)
(* write the first global over the first address, keep it.                 *)
(***************************************************************************)
LEMMA GateInvKept ==
    ASSUME TypeInv, GateInv, UNCHANGED <<targ, self, gate>>,
           chip'.rxlow = chip.rxlow, chip'.rx1 = chip.rx1 \/ chip'.rx1 = targ[1]
    PROVE  GateInv'
  BY DEF GateInv, Commanded, Accepted, Ident

LEMMA GateStep == ASSUME TypeInv, GateInv, [Next]_vars PROVE GateInv'
  <1> USE DEF matrix, asked
  <1>0. chip \in Registers /\ gate \in GateStates /\ tx \in TxStates /\ TypeOK
        /\ targ \in [Pipes -> Addresses] /\ self \in [Pipes -> Addresses]
    BY DEF TypeInv, TypeOK
  <1>1. ASSUME NEW m \in Matrices, SetPipesMatrix(m) PROVE GateInv'
    <2>1. CASE m = Short \/ Ident(m)
      BY <1>0, <1>1, <2>1 DEF SetPipesMatrix, GateInv, Commanded, Accepted, GateStates
    <2>2. CASE m # Short /\ ~Ident(m)
      <3>1. m \in [Pipes -> Exbs]
        BY <2>2
      <3>2. /\ gate'.pc = "write" /\ gate'.want = m /\ gate'.k = 1 /\ gate'.answer = "none"
        BY <1>0, <1>1, <2>2 DEF SetPipesMatrix, GateStates
      <3>3. \A p \in Pipes : ~(2 * p - 1 < 1)
        BY DEF Pipes
      <3> QED BY <2>2, <3>1, <3>2, <3>3 DEF GateInv, Commanded, Accepted, Ident
    <2> QED BY <2>1, <2>2
  <1>2. CASE WriteGlobal
    <2> DEFINE q == (gate.k + 1) \div 2
    <2>1. gate.pc = "write" /\ gate.k \in 1..(2 * NPipes) /\ q \in Pipes
      <3>1. gate.pc = "write" /\ gate.k \in 1..(2 * NPipes)
        BY <1>0, <1>2 DEF WriteGlobal, GateStates
      <3> QED BY <3>1, PipeOfGlobal
    <2>2. gate.want \in [Pipes -> Exbs] /\ ~Ident(gate.want)
      BY <2>1 DEF GateInv, Commanded
    <2>3. \A p \in Pipes : 2 * p - 1 < gate.k => targ[p] = gate.want[p]
      BY <2>1 DEF GateInv
    <2>4. \A p \in Pipes : 2 * p - 1 < gate.k + 1 => targ'[p] = gate.want[p]
      <3>1. CASE gate.k % 2 = 1
        <4>1. targ' = [targ EXCEPT ![q] = gate.want[q]]
          BY <1>2, <3>1 DEF WriteGlobal
        <4>2. \A p \in Pipes : 2 * p - 1 < gate.k + 1 /\ p # q => 2 * p - 1 < gate.k
          BY <2>1, <3>1 DEF Pipes
        <4> HIDE DEF q
        <4> QED BY <1>0, <2>1, <2>3, <4>1, <4>2
      <3>2. CASE gate.k % 2 # 1
        <4>1. targ' = targ
          BY <1>2, <3>2 DEF WriteGlobal
        <4>3. gate.k \in Nat /\ \A p \in Pipes : p \in Nat
          BY <2>1 DEF Pipes
        <4>2. \A p \in Pipes : 2 * p - 1 < gate.k + 1 => 2 * p - 1 < gate.k
          BY <3>2, <4>3, EvenIsNoTarg
        <4> QED BY <2>3, <4>1, <4>2
      <3> QED BY <3>1, <3>2
    <2>5. chip' = chip /\ targ' \in [Pipes -> Addresses]
      BY <1>0, <1>2, <2>1, <2>2 DEF WriteGlobal, Addresses
    <2>6. CASE gate.k = LastGlobal
      <3>1. gate'.pc = "lock" /\ gate'.want = gate.want
        BY <1>0, <1>2, <2>6 DEF WriteGlobal, GateStates
      <3>2. \A p \in Pipes : 2 * p - 1 < gate.k + 1
        BY <2>6 DEF LastGlobal, Pipes
      <3>3. targ' = gate.want
        BY <2>2, <2>4, <2>5, <3>2
      <3> QED BY <2>2, <3>1, <3>3 DEF GateInv, Commanded, Accepted, Ident
    <2>7. CASE gate.k # LastGlobal
      <3>1. gate'.pc = "write" /\ gate'.want = gate.want /\ gate'.k = gate.k + 1
        BY <1>0, <1>2, <2>1, <2>7 DEF WriteGlobal, GateStates
      <3> QED BY <2>2, <2>4, <3>1 DEF GateInv, Commanded, Accepted, Ident
    <2> QED BY <2>6, <2>7
  <1>3. ASSUME NEW taken \in SUBSET Pipes, Program(taken) PROVE GateInv'
    <2>1. gate.pc = "lock" /\ targ = gate.want /\ ~Ident(gate.want) /\ gate.want \in [Pipes -> Exbs]
      BY <1>3 DEF Program, GateInv, Commanded
    <2>2. /\ gate'.pc = "idle" /\ gate'.want = gate.want
          /\ gate'.answer = "result" => ReadBack(Written(taken))
      BY <1>0, <1>3 DEF Program, GateStates
    <2>3. chip' = Written(taken) /\ targ' = targ
      BY <1>3 DEF Program
    <2> QED BY <2>1, <2>2, <2>3 DEF GateInv, Commanded, Accepted, ReadBack, Ident
  <1>4. ASSUME NEW d \in Exbs, NEW n \in Sizes, TakeRequest(d, n) PROVE GateInv'
    BY <1>4, GateInvKept DEF TakeRequest
  <1>5. CASE GetPipeByAddress \/ Hang \/ UNCHANGED vars
    BY <1>5, GateInvKept DEF GetPipeByAddress, Hang, vars
  <1>6. CASE Send
    <2>1. chip'.rxlow = chip.rxlow /\ chip'.rx1 = chip.rx1
      BY <1>0, <1>6 DEF Send, Takes, Registers
    <2> QED BY <1>6, <2>1, GateInvKept DEF Send
  <1>7. CASE ReadStatus
    <2>1. chip'.rxlow = chip.rxlow /\ chip'.rx1 = chip.rx1
      BY <1>0, <1>7 DEF ReadStatus, Takes, Registers
    <2> QED BY <1>7, <2>1, GateInvKept DEF ReadStatus
  <1>8. CASE Sent
    <2>1. chip'.rxlow = chip.rxlow /\ (chip'.rx1 = chip.rx1 \/ chip'.rx1 = targ[1])
      BY <1>0, <1>8, RxModeType DEF Sent, Takes
    <2> QED BY <1>8, <2>1, GateInvKept DEF Sent
  <1>9. CASE Receive
    <2>1. chip'.rxlow = chip.rxlow /\ chip'.rx1 = chip.rx1
      BY <1>0, <1>9 DEF Receive, Registers
    <2> QED BY <1>9, <2>1, GateInvKept DEF Receive
  <1>10. CASE HangReset
    <2>1. chip'.rxlow = chip.rxlow /\ chip'.rx1 = targ[1]
      BY <1>0, <1>10, RxModeType DEF HangReset, Registers
    <2> QED BY <1>10, <2>1, GateInvKept DEF HangReset
  <1>11. ASSUME NEW d \in Exbs, NEW p \in Pipes, ChipReceives(d, p) PROVE GateInv'
    <2>1. chip'.rxlow = chip.rxlow /\ chip'.rx1 = chip.rx1
      BY <1>0, <1>11 DEF ChipReceives, Registers
    <2> QED BY <1>11, <2>1, GateInvKept DEF ChipReceives
  <1>12. CASE ChipSends
    <2>1. chip'.rxlow = chip.rxlow /\ chip'.rx1 = chip.rx1
      BY <1>0, <1>12
         DEF ChipSends, ChipRetransmits, ChipAcknowledged, ChipGivesUp, Registers
    <2>2. UNCHANGED <<targ, self, gate>>
      BY <1>12 DEF ChipSends, ChipRetransmits, ChipAcknowledged, ChipGivesUp
    <2> QED BY <2>1, <2>2, GateInvKept
  <1> QED BY <1>1, <1>2, <1>3, <1>4, <1>5, <1>6, <1>7, <1>8, <1>9, <1>10, <1>11, <1>12
          DEF Next, GateIn, ProgramChip, Transmitter

(***************************************************************************)
(* The registers have room for the matrix if the upper bytes are the same. *)
(***************************************************************************)
LEMMA GateInvHears == TypeInv /\ GateInv => MatrixIsHeard
  <1> SUFFICES ASSUME TypeInv, GateInv, Accepted, Uniform(gate.want),
                      NEW p \in Pipes, NEW q \in Pipes
               PROVE  Matches(gate.want[p], q) <=> p = q
    BY DEF MatrixIsHeard
  <1> DEFINE m == gate.want
  <1>1. m \in [Pipes -> Exbs] /\ \A i, j \in Pipes : Lsb[m[i]] = Lsb[m[j]] => i = j
    BY DEF GateInv, Commanded, Ident
  <1>2. chip.rx1 = m[1] /\ \A i \in LowPipes : chip.rxlow[i] = Lsb[m[i]]
    BY DEF GateInv
  <1>3. \A i, j \in Pipes : High[m[i]] = High[m[j]]
    BY DEF Uniform
  <1> HIDE DEF m
  <1>4. Matches(m[p], q) <=> p = q
    <2>1. CASE q = 1
      BY <1>1, <1>2, <2>1, FirstPipe DEF Matches
    <2>2. CASE q # 1
      <3>1. q \in LowPipes
        BY <2>2 DEF LowPipes
      <3>2. High[chip.rx1] = High[m[p]]
        BY <1>2, <1>3, FirstPipe
      <3>3. chip.rxlow[q] = Lsb[m[p]] <=> p = q
        BY <1>1, <1>2, <3>1
      <3> QED BY <2>2, <3>2, <3>3 DEF Matches
    <2> QED BY <2>1, <2>2
  <1> QED BY <1>4 DEF m

(***************************************************************************)
(* After RESULT the chip takes each device of the matrix on its own pipe,  *)
(* until the next command.                                                 *)
(***************************************************************************)
THEOREM AcceptedIsProgrammed == Spec => []MatrixIsHeard
  <1>1. Init => GateInv
    BY DEF Init, GateInv, Commanded, Accepted
  <1>2. TypeInv /\ GateInv /\ [Next]_vars => GateInv'
    BY GateStep
  <1>3. Spec => []GateInv
    BY <1>1, <1>2, SpecTypeInv, PTL DEF Spec
  <1> QED BY <1>3, SpecTypeInv, GateInvHears, PTL

-----------------------------------------------------------------------------
(***************************************************************************)
(* Until a second matrix is asked for, a global holds either the address   *)
(* that no device has or that of the one matrix, so an address that was    *)
(* found in a pipe stays there, and its self is right or reaches nobody.   *)
(***************************************************************************)
Untouched ==
    /\ gate.pc = "idle" /\ gate.want = Blank /\ targ = Blank /\ self = Blank

Globals ==
    \A p \in Pipes : targ[p] \in {Nobody, gate.want[p]} /\ self[p] \in {Nobody, gate.want[p]}

AddressInv ==
    commands <= 1 =>
        /\ commands = 0 => Untouched
        /\ Globals
        /\ tx.pc \in Sending => targ[tx.k] = tx.addr
        /\ ~hung => /\ chip.sending \subseteq {Nobody, tx.addr}
                    /\ tx.pc \notin Holding => chip.sending = {}
        /\ SentToAddressee

(***************************************************************************)
(* The globals change in steps of GateIn only, and then to what is wanted. *)
(***************************************************************************)
LEMMA GlobalsStep ==
    ASSUME TypeInv, [Next]_vars, commands <= 1, commands = 0 => Untouched, Globals, commands \in Nat,
           commands' <= 1
    PROVE  /\ commands' = 0 => Untouched'
           /\ Globals'
           /\ \A p \in Pipes : targ[p] # Nobody =>
                 targ'[p] = targ[p] /\ gate'.want[p] = gate.want[p]
           /\ commands' # commands => commands = 0
  <1> USE DEF matrix, asked
  <1>0. gate \in GateStates /\ targ \in [Pipes -> Addresses] /\ self \in [Pipes -> Addresses]
    BY DEF TypeInv, TypeOK
  <1>1. ASSUME NEW m \in Matrices, SetPipesMatrix(m)
        PROVE  /\ commands' = 1 /\ commands = 0 /\ Globals'
               /\ \A p \in Pipes : targ[p] = Nobody
    <2>1. commands' = 1 /\ commands = 0
      BY <1>1 DEF SetPipesMatrix
    <2>2. targ' = Blank /\ self' = Blank /\ targ = Blank
      BY <1>1, <2>1 DEF SetPipesMatrix, Untouched
    <2> QED BY <2>1, <2>2 DEF Globals, Blank
  <1>2. CASE WriteGlobal
    <2> DEFINE q == (gate.k + 1) \div 2
    <2>1. gate.k \in 1..(2 * NPipes) /\ q \in Pipes
      BY <1>0, PipeOfGlobal DEF GateStates
    <2>2. /\ targ' \in {targ, [targ EXCEPT ![q] = gate.want[q]]}
          /\ self' \in {self, [self EXCEPT ![q] = gate.want[q]]}
          /\ commands' = commands /\ gate.pc = "write"
      BY <1>2 DEF WriteGlobal
    <2>3. gate'.want = gate.want
      BY <1>0, <1>2 DEF WriteGlobal, GateStates
    <2>4. commands # 0
      BY <2>2 DEF Untouched
    <2> HIDE DEF q
    <2>5. Globals'
      BY <1>0, <2>1, <2>2, <2>3 DEF Globals
    <2>6. \A p \in Pipes : targ[p] # Nobody => targ'[p] = targ[p]
      BY <1>0, <2>1, <2>2 DEF Globals
    <2> QED BY <2>2, <2>3, <2>4, <2>5, <2>6
  <1>3. ASSUME NEW taken \in SUBSET Pipes, Program(taken)
        PROVE  /\ UNCHANGED <<targ, self, commands>> /\ gate'.want = gate.want /\ commands # 0
    <2>1. gate.pc = "lock"
      BY <1>3 DEF Program
    <2> QED BY <1>0, <1>3, <2>1 DEF Program, GateStates, Untouched
  <1>4. CASE UNCHANGED <<targ, self, gate, commands>>
    BY <1>4 DEF Untouched, Globals
  <1>5. \/ \E m \in Matrices : SetPipesMatrix(m)
        \/ WriteGlobal \/ \E taken \in SUBSET Pipes : Program(taken)
        \/ UNCHANGED <<targ, self, gate, commands>>
    BY DEF Next, GateIn, ProgramChip, Transmitter, ChipSends, vars, TakeRequest, ChipReceives,
           GetPipeByAddress, Send, ReadStatus, Sent, Receive, HangReset,
           ChipRetransmits, ChipAcknowledged, ChipGivesUp, Hang
  <1>6. CASE \E taken \in SUBSET Pipes : Program(taken)
    <2>1. UNCHANGED <<targ, self, commands>> /\ gate'.want = gate.want /\ commands # 0
      BY <1>3, <1>6
    <2> QED BY <2>1 DEF Globals
  <1> QED BY <1>1, <1>2, <1>4, <1>5, <1>6

(***************************************************************************)
(* What the outside has asked is counted up.                               *)
(***************************************************************************)
Counts == commands \in Nat /\ received \in Nat

LEMMA Counting ==
    ASSUME TypeInv, Counts, [Next]_vars
    PROVE  Counts' /\ (commands' <= 1 => commands <= 1) /\ (received' = 0 => received = 0)
  <1>1. /\ commands' = commands \/ commands' = commands + 1
        /\ received' = received \/ received' = received + 1
    BY DEF Next, GateIn, ProgramChip, Program, Transmitter, ChipSends, vars, TakeRequest,
           ChipReceives, SetPipesMatrix, WriteGlobal, GetPipeByAddress, Send, ReadStatus, Sent,
           Receive, HangReset, ChipRetransmits, ChipAcknowledged, ChipGivesUp, Hang, matrix, asked
  <1>2. ASSUME NEW n \in Nat, NEW m, m = n \/ m = n + 1
        PROVE  m \in Nat /\ (m <= 1 => n <= 1) /\ (m = 0 => n = 0)
    BY <1>2
  <1> QED BY <1>1, <1>2 DEF Counts

(***************************************************************************)
(* The part of the invariant that is about the transmitter: the address a  *)
(* request was found with stays that of its pipe, and the chip sends to it *)
(* or to nobody.                                                           *)
(***************************************************************************)
LEMMA AddressStep ==
    ASSUME TypeInv, TypeInv', Counts, AddressInv, [Next]_vars PROVE AddressInv'
  <1> USE DEF matrix, asked
  <1> SUFFICES ASSUME commands' <= 1 PROVE AddressInv'
    BY DEF AddressInv
  <1>0. /\ chip \in Registers /\ gate \in GateStates /\ tx \in TxStates /\ TypeOK /\ TxInv
        /\ targ \in [Pipes -> Addresses] /\ self \in [Pipes -> Addresses]
    BY DEF TypeInv, TypeOK
  <1>a. commands <= 1
    BY Counting
  <1>b. /\ commands = 0 => Untouched
        /\ Globals
        /\ tx.pc \in Sending => targ[tx.k] = tx.addr
        /\ ~hung => /\ chip.sending \subseteq {Nobody, tx.addr}
                    /\ tx.pc \notin Holding => chip.sending = {}
        /\ SentToAddressee
    BY <1>a DEF AddressInv
  <1>c. /\ commands' = 0 => Untouched'
        /\ Globals'
        /\ \A p \in Pipes : targ[p] # Nobody => targ'[p] = targ[p]
    BY <1>a, <1>b, GlobalsStep DEF Counts
  <1>d. tx.pc \in Sending => targ'[tx.k] = tx.addr
    <2>1. tx.pc \in Sending => tx.addr # Nobody /\ tx.k \in Pipes
      BY <1>0 DEF TxInv, Sending, TxStates
    <2> QED BY <1>b, <1>c, <2>1
  <1> DEFINE Rest ==
        /\ tx.pc \in Sending => targ[tx.k] = tx.addr
        /\ ~hung => /\ chip.sending \subseteq {Nobody, tx.addr}
                    /\ tx.pc \notin Holding => chip.sending = {}
        /\ SentToAddressee
  <1> SUFFICES Rest'
    BY <1>c DEF AddressInv
  <1>1. ASSUME NEW m \in Matrices, SetPipesMatrix(m) PROVE Rest'
    BY <1>1, <1>b, <1>d DEF SetPipesMatrix, SentToAddressee
  <1>2. CASE WriteGlobal
    BY <1>2, <1>b, <1>d DEF WriteGlobal, SentToAddressee
  <1>3. ASSUME NEW taken \in SUBSET Pipes, Program(taken) PROVE Rest'
    <2>1. chip'.sending = chip.sending
      BY <1>0, <1>3, WrittenType DEF Program
    <2> QED BY <1>3, <1>b, <1>d, <2>1 DEF Program, SentToAddressee
  <1>4. ASSUME NEW d \in Exbs, NEW n \in Sizes, TakeRequest(d, n) PROVE Rest'
    <2>1. tx.pc = "idle" /\ tx'.pc = "lookup" /\ heard' = {}
      BY <1>0, <1>4, IdleType DEF TakeRequest, TxStates
    <2>2. ~hung => chip.sending = {}
      BY <1>b, <2>1 DEF Holding
    <2> QED BY <1>4, <2>1, <2>2 DEF TakeRequest, SentToAddressee, Sending
  <1>5. CASE GetPipeByAddress
    <2>1. tx.pc = "lookup" /\ UNCHANGED <<targ, chip, hung, heard>>
      BY <1>5 DEF GetPipeByAddress
    <2>2. ~hung => chip.sending = {}
      BY <1>b, <2>1 DEF Holding
    <2>3. tx'.pc \in Sending => targ[tx'.k] = tx'.addr
      BY <1>0, <1>5, IdleType DEF GetPipeByAddress, TxStates, Idle, Sending
    <2> QED BY <1>b, <2>1, <2>2, <2>3 DEF SentToAddressee
  <1>6. CASE Send
    <2>1. tx.pc = "queued" /\ tx'.pc = "air" /\ tx'.k = tx.k /\ tx'.addr = tx.addr
      BY <1>0, <1>6 DEF Send, TxStates
    <2>2. targ[tx.k] = tx.addr /\ tx.k \in Pipes /\ tx.addr \in Exbs
      BY <1>0, <1>b, <2>1 DEF Sending, TxStates, TxInv
    <2>3. self[tx.k] \in {Nobody, tx.addr}
      BY <1>b, <2>2 DEF Globals
    <2>4. ~hung => chip'.sending \in {{}, {self[tx.k]}}
      BY <1>0, <1>6 DEF Send, Takes, Self, Registers
    <2> QED BY <1>6, <1>b, <2>1, <2>2, <2>3, <2>4 DEF Send, SentToAddressee, Holding
  <1>7. CASE ReadStatus
    <2>1. /\ tx.pc = "air" /\ tx'.pc = "leave" /\ tx'.k = tx.k /\ tx'.addr = tx.addr
          /\ UNCHANGED <<targ, hung, heard>>
      BY <1>0, <1>7 DEF ReadStatus, TxStates
    <2>2. chip'.sending \in {{}, chip.sending}
      BY <1>0, <1>7 DEF ReadStatus, Takes, Registers
    <2> QED BY <1>b, <2>1, <2>2 DEF SentToAddressee, Holding, Sending
  <1>8. CASE Sent
    <2>1. tx.pc = "leave" /\ UNCHANGED <<targ, hung, heard>> /\ tx' = NextFragment
      BY <1>8 DEF Sent
    <2>2. tx'.pc \in Sending => tx'.k = tx.k /\ tx'.addr = tx.addr
      BY <2>1, NextFragmentType DEF Sending
    <2>3. ~hung => chip'.sending = {}
      BY <1>0, <1>8, RxModeType DEF Sent, Takes
    <2> QED BY <1>b, <2>1, <2>2, <2>3 DEF SentToAddressee, Sending
  <1>9. CASE Receive
    <2>1. chip'.sending = chip.sending
      BY <1>0, <1>9 DEF Receive, Registers
    <2> QED BY <1>9, <1>b, <2>1 DEF Receive, SentToAddressee
  <1>10. CASE HangReset
    <2>1. chip'.sending = {}
      BY <1>0, <1>10, RxModeType DEF HangReset, Registers
    <2> QED BY <1>10, <1>b, <2>1 DEF HangReset, SentToAddressee
  <1>11. ASSUME NEW d \in Exbs, NEW p \in Pipes, ChipReceives(d, p) PROVE Rest'
    <2>1. chip'.sending = chip.sending
      BY <1>0, <1>11 DEF ChipReceives, Registers
    <2> QED BY <1>11, <1>b, <2>1 DEF ChipReceives, SentToAddressee
  <1>12. CASE ChipRetransmits
    <2>1. chip'.sending = chip.sending
      BY <1>0, <1>12 DEF ChipRetransmits, Registers
    <2> QED BY <1>12, <1>b, <2>1 DEF ChipRetransmits, SentToAddressee
  <1>e. ~hung => \A d \in chip.sending \cap Exbs : d = tx.addr
    BY <1>b
  <1>13. CASE ChipAcknowledged
    <2>1. chip'.sending = {} /\ tx'.pc = tx.pc /\ tx'.k = tx.k /\ tx'.addr = tx.addr
      BY <1>0, <1>13 DEF ChipAcknowledged, Registers, TxStates
    <2>2. heard' = heard \cup {[addr |-> tx.addr, by |-> tx.addr]}
      BY <1>13, <1>e DEF ChipAcknowledged, Hear
    <2>3. SentToAddressee'
      BY <1>b, <2>2 DEF SentToAddressee
    <2> QED BY <1>13, <1>b, <2>1, <2>3 DEF ChipAcknowledged
  <1>14. CASE ChipGivesUp
    <2>1. chip'.sending = {}
      BY <1>0, <1>14 DEF ChipGivesUp, Registers
    <2>2. heard' \subseteq heard \cup {[addr |-> tx.addr, by |-> tx.addr]}
      BY <1>14, <1>e DEF ChipGivesUp, Hear
    <2>3. SentToAddressee'
      BY <1>b, <2>2 DEF SentToAddressee
    <2> QED BY <1>14, <1>b, <2>1, <2>3 DEF ChipGivesUp
  <1>15. CASE Hang
    BY <1>15, <1>b DEF Hang, SentToAddressee
  <1>16. CASE UNCHANGED vars
    BY <1>16, <1>b DEF vars, SentToAddressee
  <1> QED BY <1>1, <1>2, <1>3, <1>4, <1>5, <1>6, <1>7, <1>8, <1>9, <1>10, <1>11, <1>12,
             <1>13, <1>14, <1>15, <1>16 DEF Next, GateIn, ProgramChip, Transmitter, ChipSends

LEMMA SpecCounts == Spec => []Counts
  <1>1. Init => Counts
    BY DEF Init, Counts
  <1>2. TypeInv /\ Counts /\ [Next]_vars => Counts'
    BY Counting
  <1> QED BY <1>1, <1>2, SpecTypeInv, PTL DEF Spec

LEMMA SpecAddressInv == Spec => []AddressInv
  <1>1. Init => AddressInv
    <2> SUFFICES ASSUME Init PROVE AddressInv
      OBVIOUS
    <2>1. Untouched /\ Globals
      BY DEF Init, Untouched, Globals, Blank
    <2>2. tx.pc = "idle" /\ chip.sending = {} /\ heard = {}
      BY IdleType DEF Init
    <2> QED BY <2>1, <2>2 DEF AddressInv, SentToAddressee, Sending
  <1>2. TypeInv /\ TypeInv' /\ Counts /\ AddressInv /\ [Next]_vars => AddressInv'
    BY AddressStep
  <1> QED BY <1>1, <1>2, SpecTypeInv, SpecCounts, PTL DEF Spec

(***************************************************************************)
(* With one matrix, whenever it is set, no device hears what was meant for *)
(* another.                                                                *)
(***************************************************************************)
THEOREM FirstMatrixIsSafe == Spec => []SentToAddresseeAtFirst
  <1>1. AddressInv => SentToAddresseeAtFirst
    BY DEF AddressInv, SentToAddresseeAtFirst
  <1> QED BY <1>1, SpecAddressInv, PTL

-----------------------------------------------------------------------------
(***************************************************************************)
(* A register that a device can match was written from a global that holds *)
(* the address of the matrix, so a fragment in the chip is on the pipe     *)
(* whose global is its sender, and this stays so while it waits.           *)
(***************************************************************************)
Registered ==
    /\ chip.rx1 # Nobody => chip.rx1 = targ[1]
    /\ \A p \in LowPipes : chip.rxlow[p] # Lsb[Nobody] =>
          targ[p] # Nobody /\ chip.rxlow[p] = Lsb[targ[p]]

InFifo == \A i \in 1..Len(chip.fifo) : targ[chip.fifo[i].pipe] = chip.fifo[i].from

SenderInv ==
    commands <= 1 =>
        /\ commands = 0 => chip.fifo = <<>> /\ upQueue = <<>>
        /\ Registered
        /\ Uniform(gate.want) => InFifo /\ SenderIsRight

(***************************************************************************)
(* The steps of the threads and of the chip, as far as the receive side of *)
(* the chip is concerned.                                                  *)
(***************************************************************************)
LEMMA ReceiveSide ==
    ASSUME TypeInv, [Next]_vars
    PROVE  \/ /\ chip'.rxlow = chip.rxlow
              /\ chip'.rx1 \in {chip.rx1, targ[1]}
              /\ chip'.fifo \in {chip.fifo, <<>>}
              /\ upQueue' = upQueue
           \/ WriteGlobal
           \/ \E taken \in SUBSET Pipes : Program(taken)
           \/ Receive
           \/ \E d \in Exbs, p \in Pipes : ChipReceives(d, p)
  <1> USE DEF matrix, asked
  <1>0. chip \in Registers /\ TypeOK
    BY DEF TypeInv, TypeOK
  <1>1. CASE Send
    BY <1>0, <1>1 DEF Send, Takes, Registers
  <1>2. CASE ReadStatus
    BY <1>0, <1>2 DEF ReadStatus, Takes, Registers
  <1>3. CASE Sent
    BY <1>0, <1>3, RxModeType DEF Sent, Takes
  <1>4. CASE HangReset
    BY <1>0, <1>4, RxModeType DEF HangReset, Registers
  <1>5. CASE ChipSends
    BY <1>0, <1>5 DEF ChipSends, ChipRetransmits, ChipAcknowledged, ChipGivesUp, Registers
  <1>6. ASSUME NEW m \in Matrices, SetPipesMatrix(m) PROVE UNCHANGED <<chip, upQueue>>
    BY <1>6 DEF SetPipesMatrix
  <1>7. ASSUME NEW d \in Exbs, NEW n \in Sizes, TakeRequest(d, n) PROVE UNCHANGED <<chip, upQueue>>
    BY <1>7 DEF TakeRequest
  <1>8. CASE GetPipeByAddress \/ Hang \/ UNCHANGED vars
    BY <1>8 DEF GetPipeByAddress, Hang, vars
  <1> QED BY <1>1, <1>2, <1>3, <1>4, <1>5, <1>6, <1>7, <1>8
          DEF Next, GateIn, ProgramChip, Transmitter

LEMMA SenderStep ==
    ASSUME TypeInv, TypeInv', Counts, GateInv, AddressInv, SenderInv, [Next]_vars
    PROVE  SenderInv'
  <1> USE DEF matrix, asked
  <1> SUFFICES ASSUME commands' <= 1 PROVE SenderInv'
    BY DEF SenderInv
  <1>0. /\ chip \in Registers /\ gate \in GateStates /\ TypeOK
        /\ targ \in [Pipes -> Addresses] /\ gate.want \in [Pipes -> Addresses]
        /\ chip.fifo \in Seq([from : Exbs, pipe : Pipes])
        /\ upQueue \in Seq([from : Exbs, addr : Addresses])
    BY DEF TypeInv, TypeOK, Registers, GateStates
  <1>a. commands <= 1
    BY Counting
  <1>b. /\ commands = 0 => chip.fifo = <<>> /\ upQueue = <<>>
        /\ Registered
        /\ Uniform(gate.want) => InFifo /\ SenderIsRight
        /\ commands = 0 => Untouched
        /\ Globals
    BY <1>a DEF SenderInv, AddressInv
  <1>c. /\ \A p \in Pipes : targ[p] # Nobody =>
              targ'[p] = targ[p] /\ gate'.want[p] = gate.want[p]
        /\ commands' # commands => commands = 0
    BY <1>a, <1>b, GlobalsStep DEF Counts
  <1>d. ASSUME NEW p \in LowPipes PROVE p \in Pipes /\ targ[p] \in Addresses
    BY <1>0 DEF LowPipes
  (* Nothing is taken before the first matrix. *)
  <1>e. commands = 0 => ~ \E d \in Exbs, p \in Pipes : ChipReceives(d, p)
    <2> SUFFICES ASSUME commands = 0, NEW d \in Exbs, NEW p \in Pipes, Matches(d, p) PROVE FALSE
      BY DEF ChipReceives
    <2>1. targ[1] = Nobody /\ chip.rx1 = Nobody /\ Lsb[d] # Lsb[Nobody] /\ d # Nobody
      BY <1>b, FirstPipe DEF Untouched, Blank, Registered
    <2>2. High[d] # High[Nobody]
      OBVIOUS
    <2> QED BY <2>1, <2>2 DEF Matches
  (* What is in the chip and in the queue when the matrix is first asked for, and later. *)
  <1>f. CASE commands' # commands
    <2>1. commands = 0 /\ chip.fifo = <<>> /\ upQueue = <<>>
      BY <1>b, <1>c, <1>f
    <2>2. PICK m \in Matrices : SetPipesMatrix(m)
      BY <1>f DEF Next, GateIn, ProgramChip, Program, Transmitter, ChipSends, vars, TakeRequest,
           ChipReceives, WriteGlobal, GetPipeByAddress, Send, ReadStatus, Sent,
           Receive, HangReset, ChipRetransmits, ChipAcknowledged, ChipGivesUp, Hang
    <2>3. UNCHANGED <<chip, targ, upQueue>> /\ commands' = commands + 1
      BY <2>2 DEF SetPipesMatrix
    <2>4. commands' # 0
      BY <2>1, <2>3
    <2> QED BY <1>b, <2>1, <2>3, <2>4 DEF SenderInv, Registered, InFifo, SenderIsRight
  <1>g. CASE commands' = commands
    <2>0. gate'.want = gate.want
      <3>1. ~ \E m \in Matrices : SetPipesMatrix(m)
        <4>1. commands \in Nat /\ commands + 1 # commands
          BY DEF Counts
        <4> QED BY <1>g, <4>1 DEF SetPipesMatrix
      <3>2. gate' = gate \/ WriteGlobal \/ \E taken \in SUBSET Pipes : Program(taken)
        BY <3>1 DEF Next, GateIn, ProgramChip, Transmitter, ChipSends, vars, TakeRequest,
           ChipReceives, GetPipeByAddress, Send, ReadStatus, Sent,
           Receive, HangReset, ChipRetransmits, ChipAcknowledged, ChipGivesUp, Hang
      <3> QED BY <1>0, <3>2 DEF WriteGlobal, Program, GateStates
    <2>1. ASSUME chip'.rxlow = chip.rxlow, chip'.rx1 \in {chip.rx1, targ[1]},
                 targ[1] # Nobody => targ'[1] = targ[1]
          PROVE  Registered'
      BY <1>b, <1>c, <1>d, <2>1, FirstPipe DEF Registered
    <2>2. ASSUME chip'.fifo \in {chip.fifo, <<>>}, Uniform(gate.want) PROVE InFifo'
      <3>1. \A i \in 1..Len(chip.fifo) : chip.fifo[i].pipe \in Pipes /\ chip.fifo[i].from # Nobody
        <4> SUFFICES ASSUME NEW i \in 1..Len(chip.fifo)
                     PROVE  chip.fifo[i].pipe \in Pipes /\ chip.fifo[i].from # Nobody
          OBVIOUS
        <4>1. chip.fifo[i] \in [from : Exbs, pipe : Pipes]
          BY <1>0, ElementOfSeq
        <4> QED BY <4>1
      <3> QED BY <1>b, <1>c, <2>2, <3>1 DEF InFifo
    <2>3. CASE /\ chip'.rxlow = chip.rxlow
               /\ chip'.rx1 \in {chip.rx1, targ[1]}
               /\ chip'.fifo \in {chip.fifo, <<>>}
               /\ upQueue' = upQueue
      BY <1>b, <1>c, <1>g, <2>0, <2>1, <2>2, <2>3, FirstPipe DEF SenderInv, SenderIsRight
    <2>4. CASE WriteGlobal
      <3>1. UNCHANGED <<chip, upQueue>>
        BY <2>4 DEF WriteGlobal
      <3> QED BY <2>3, <3>1
    <2>5. ASSUME NEW taken \in SUBSET Pipes, Program(taken) PROVE SenderInv'
      <3>1. chip' = Written(taken) /\ targ = gate.want /\ ~Ident(gate.want) /\ UNCHANGED <<targ, upQueue>>
            /\ gate.want \in [Pipes -> Exbs]
        BY <2>5 DEF Program, GateInv, Commanded
      <3>2. \A p \in LowPipes : targ[p] # Nobody
        BY <1>d, <3>1
      <3>3. Registered'
        <4> DEFINE w == Written(taken)
        <4>1. /\ w.rx1 = IF 1 \in taken THEN targ[1] ELSE chip.rx1
              /\ \A p \in LowPipes : w.rxlow[p] = IF p \in taken THEN Lsb[targ[p]] ELSE chip.rxlow[p]
          BY <1>0, WrittenType
        <4> HIDE DEF w
        <4>2. w.rx1 # Nobody => w.rx1 = targ[1]
          BY <1>b, <4>1 DEF Registered
        <4>3. \A p \in LowPipes : w.rxlow[p] # Lsb[Nobody] =>
                 targ[p] # Nobody /\ w.rxlow[p] = Lsb[targ[p]]
          BY <1>b, <3>2, <4>1 DEF Registered
        <4>4. chip' = w /\ targ' = targ
          BY <3>1 DEF w
        <4> QED BY <4>2, <4>3, <4>4 DEF Registered
      <3>4. chip'.fifo = chip.fifo
        BY <1>0, <3>1, WrittenType
      <3> QED BY <1>b, <1>g, <2>0, <2>2, <3>1, <3>3, <3>4 DEF SenderInv, SenderIsRight
    <2>6. CASE Receive
      <3> DEFINE f == Head(chip.fifo)
      <3>1. /\ chip.fifo # <<>> /\ UNCHANGED <<targ, gate>>
            /\ upQueue' = Append(upQueue, [from |-> f.from, addr |-> targ[f.pipe]])
        BY <2>6 DEF Receive, GetAddrByPipe
      <3>2. chip'.fifo = Tail(chip.fifo) /\ chip'.rxlow = chip.rxlow /\ chip'.rx1 = chip.rx1
        BY <1>0, <2>6 DEF Receive, Registers
      <3>3. f = chip.fifo[1] /\ 1 \in 1..Len(chip.fifo)
        BY <1>0, <3>1
      <3>4. Uniform(gate.want) => targ[f.pipe] = f.from
        BY <1>b, <3>3 DEF InFifo
      <3>5. Uniform(gate.want) => InFifo'
        <4>1. /\ Len(Tail(chip.fifo)) = Len(chip.fifo) - 1
              /\ \A i \in 1..Len(Tail(chip.fifo)) :
                    Tail(chip.fifo)[i] = chip.fifo[i + 1] /\ i + 1 \in 1..Len(chip.fifo)
          <5> DEFINE q == chip.fifo
                     n == Len(q)
          <5>1. q \in Seq([from : Exbs, pipe : Pipes]) /\ q # <<>>
            BY <1>0, <3>1
          <5> HIDE DEF q
          <5>2. /\ Len(Tail(q)) = n - 1 /\ n \in Nat
                /\ \A i \in 1..(n - 1) : Tail(q)[i] = q[i + 1]
            BY <5>1, HeadTailProperties, LenProperties
          <5> HIDE DEF n
          <5>3. \A i \in 1..(n - 1) : i + 1 \in 1..n
            BY <5>2
          <5> QED BY <5>2, <5>3 DEF q, n
        <4> QED BY <1>b, <3>1, <3>2, <4>1 DEF InFifo
      <3>6. Uniform(gate.want) => SenderIsRight'
        <4> HIDE DEF f
        <4> DEFINE e == [from |-> f.from, addr |-> targ[f.pipe]]
        <4>1. Uniform(gate.want) => e.addr = e.from
          BY <3>4
        <4>2. chip.fifo[1] \in [from : Exbs, pipe : Pipes]
          BY <1>0, <3>3, ElementOfSeq
        <4>3. e \in [from : Exbs, addr : Addresses]
          BY <1>0, <3>3, <4>2 DEF f
        <4>4. upQueue' = Append(upQueue, e)
          BY <3>1
        <4> HIDE DEF e
        <4>5. \A i \in 1..Len(upQueue') :
                 \/ i = Len(upQueue) + 1 /\ upQueue'[i] = e
                 \/ i \in 1..Len(upQueue) /\ upQueue'[i] = upQueue[i]
          BY <1>0, <4>3, <4>4, AppendIndex
        <4> QED BY <1>b, <4>1, <4>5 DEF SenderIsRight
      <3>7. Registered'
        BY <1>b, <3>1, <3>2 DEF Registered
      <3>8. commands # 0
        BY <1>b, <3>1
      <3> QED BY <1>g, <2>0, <3>5, <3>6, <3>7, <3>8 DEF SenderInv
    <2>7. ASSUME NEW d \in Exbs, NEW p \in Pipes, ChipReceives(d, p) PROVE SenderInv'
      <3>1. Matches(d, p) /\ UNCHANGED <<targ, gate, upQueue>> /\ commands # 0
        BY <1>e, <2>7 DEF ChipReceives
      <3>2. /\ chip'.fifo = Append(chip.fifo, [from |-> d, pipe |-> p])
            /\ chip'.rxlow = chip.rxlow /\ chip'.rx1 = chip.rx1
        BY <1>0, <2>7 DEF ChipReceives, Registers
      <3>3. ASSUME Uniform(gate.want) PROVE targ[p] = d
        <4>0. d # Nobody /\ Lsb[d] # Lsb[Nobody] /\ High[d] # High[Nobody]
          OBVIOUS
        <4>1. CASE p = 1
          BY <1>b, <3>1, <4>0, <4>1 DEF Matches, Registered
        <4>2. CASE p # 1
          <5>1. p \in LowPipes /\ chip.rxlow[p] = Lsb[d] /\ High[chip.rx1] = High[d]
            BY <3>1, <4>2 DEF Matches, LowPipes
          <5>2. targ[p] # Nobody /\ Lsb[targ[p]] = Lsb[d] /\ chip.rx1 = targ[1] /\ targ[1] # Nobody
            BY <1>b, <4>0, <5>1 DEF Registered
          <5>3. targ[p] = gate.want[p] /\ targ[1] = gate.want[1] /\ targ[p] \in Exbs
            BY <1>0, <1>b, <5>2, FirstPipe DEF Globals, Addresses
          <5>4. High[targ[p]] = High[d]
            BY <3>3, <5>1, <5>2, <5>3, FirstPipe DEF Uniform
          <5> QED BY <5>2, <5>3, <5>4
        <4> QED BY <4>1, <4>2
      <3>4. Uniform(gate.want) => InFifo'
        <4> DEFINE e == [from |-> d, pipe |-> p]
        <4>1. Uniform(gate.want) => targ[e.pipe] = e.from
          BY <3>3
        <4>2. e \in [from : Exbs, pipe : Pipes] /\ chip'.fifo = Append(chip.fifo, e)
          BY <3>2
        <4> HIDE DEF e
        <4>3. \A i \in 1..Len(chip'.fifo) :
                 \/ i = Len(chip.fifo) + 1 /\ chip'.fifo[i] = e
                 \/ i \in 1..Len(chip.fifo) /\ chip'.fifo[i] = chip.fifo[i]
          BY <1>0, <4>2, AppendIndex
        <4> QED BY <1>b, <3>1, <4>1, <4>3 DEF InFifo
      <3>5. Registered'
        BY <1>b, <3>1, <3>2 DEF Registered
      <3> QED BY <1>b, <1>g, <3>1, <3>4, <3>5 DEF SenderInv, SenderIsRight
    <2> QED BY <2>3, <2>4, <2>5, <2>6, <2>7, ReceiveSide
  <1> QED BY <1>f, <1>g

(***************************************************************************)
(* With one matrix whose upper bytes are the same, a fragment is given the *)
(* address of the device that sent it.                                     *)
(***************************************************************************)
THEOREM FirstSendersAreRight == Spec => []SenderIsRightAtFirst
  <1>1. Init => SenderInv /\ GateInv
    <2> SUFFICES ASSUME Init PROVE SenderInv /\ GateInv
      OBVIOUS
    <2>1. /\ chip.rx1 = Nobody /\ chip.rxlow = [p \in LowPipes |-> Lsb[Nobody]]
          /\ chip.fifo = <<>> /\ upQueue = <<>> /\ gate.pc = "idle" /\ gate.answer = "none"
      BY DEF Init
    <2> QED BY <2>1 DEF SenderInv, Registered, InFifo, SenderIsRight, GateInv, Commanded, Accepted
  <1>2. TypeInv /\ GateInv /\ [Next]_vars => GateInv'
    BY GateStep
  <1>3. /\ TypeInv /\ TypeInv' /\ Counts /\ GateInv /\ AddressInv /\ SenderInv /\ [Next]_vars
        => SenderInv'
    BY SenderStep
  <1>4. SenderInv => SenderIsRightAtFirst
    BY DEF SenderInv, SenderIsRightAtFirst
  <1>5. Spec => []GateInv
    BY <1>1, <1>2, SpecTypeInv, PTL DEF Spec
  <1> QED BY <1>1, <1>3, <1>4, <1>5, SpecTypeInv, SpecCounts, SpecAddressInv, PTL DEF Spec

-----------------------------------------------------------------------------
(***************************************************************************)
(* While nothing is received, the chip starts every fragment without a bit *)
(* in STATUS, and gets one when the transmission ends; a chip that hangs   *)
(* is out of the game until a reset, which clears them.                    *)
(***************************************************************************)
Quiet == chip.status = {} /\ chip.sending = {}

OnAir ==
    \/ chip.status = {} /\ tx.acked = "no"
    \/ /\ chip.status = {"TX_DS"} /\ chip.sending = {}
       /\ tx.acked = IF Retr15 THEN "last" ELSE "yes"
    \/ chip.status = {"MAX_RT"} /\ chip.sending = {} /\ Retr15 /\ tx.acked = "no"

OutcomeInv ==
    received = 0 =>
        /\ tx.pc \notin Holding => tx.acked = "no" /\ (~hung => Quiet)
        /\ tx.pc # "leave" => tx.told \in {"none", "not_defined"}
        /\ tx.pc = "air" /\ ~hung => OnAir
        /\ tx.pc = "leave" =>
              /\ tx.told = "transmitted" => tx.acked = "yes"
              /\ tx.told = "unreachable" => tx.acked # "yes"
              /\ ~hung => Quiet

LEMMA OutcomeStep ==
    ASSUME TypeInv, Counts, OutcomeInv, [Next]_vars PROVE OutcomeInv'
  <1> USE DEF matrix, asked
  <1> SUFFICES ASSUME received' = 0 PROVE OutcomeInv'
    BY DEF OutcomeInv
  <1>0. chip \in Registers /\ tx \in TxStates /\ TypeOK /\ TxInv
    BY DEF TypeInv, TypeOK
  <1>a. received = 0
    BY Counting
  <1>b. /\ tx.pc \notin Holding => tx.acked = "no" /\ (~hung => Quiet)
        /\ tx.pc # "leave" => tx.told \in {"none", "not_defined"}
        /\ tx.pc = "air" /\ ~hung => OnAir
        /\ tx.pc = "leave" =>
              /\ tx.told = "transmitted" => tx.acked = "yes"
              /\ tx.told = "unreachable" => tx.acked # "yes"
              /\ ~hung => Quiet
    BY <1>a DEF OutcomeInv
  (* Steps that do not touch the transmission. *)
  <1>c. ASSUME UNCHANGED <<tx, hung>>, chip'.status = chip.status, chip'.sending = chip.sending,
               chip'.arc = chip.arc
        PROVE  OutcomeInv'
    BY <1>b, <1>c DEF OutcomeInv, Quiet, OnAir, Retr15
  <1>1. ASSUME NEW m \in Matrices, SetPipesMatrix(m) PROVE OutcomeInv'
    BY <1>1, <1>c DEF SetPipesMatrix
  <1>2. CASE WriteGlobal \/ UNCHANGED vars
    BY <1>2, <1>c DEF WriteGlobal, vars
  <1>3. ASSUME NEW taken \in SUBSET Pipes, Program(taken) PROVE OutcomeInv'
    BY <1>0, <1>3, <1>c, WrittenType DEF Program
  <1>4. ASSUME NEW d \in Exbs, NEW n \in Sizes, TakeRequest(d, n) PROVE OutcomeInv'
    <2>1. tx.pc = "idle" /\ tx'.pc = "lookup" /\ tx'.told = "none" /\ tx'.acked = "no"
      BY <1>4, IdleType DEF TakeRequest, TxStates
    <2>2. UNCHANGED <<chip, hung>>
      BY <1>4 DEF TakeRequest
    <2> QED BY <1>b, <2>1, <2>2 DEF OutcomeInv, Quiet, Holding
  <1>5. CASE GetPipeByAddress
    <2>1. /\ tx.pc = "lookup" /\ tx'.pc \in {"idle", "lookup", "queued"}
          /\ tx'.told \in {"none", "not_defined"} /\ tx'.acked = "no"
      <3>1. tx.pc = "lookup" /\ tx.acked = "no" /\ tx.told \in {"none", "not_defined"}
        BY <1>5, <1>b DEF GetPipeByAddress, Holding
      <3>2. [Idle EXCEPT !.told = "not_defined"].pc = "idle"
            /\ [Idle EXCEPT !.told = "not_defined"].told = "not_defined"
            /\ [Idle EXCEPT !.told = "not_defined"].acked = "no"
        BY IdleType DEF TxStates
      <3> QED BY <1>0, <1>5, <3>1, <3>2, IdleType DEF GetPipeByAddress, TxStates
    <2>2. UNCHANGED <<chip, hung>>
      BY <1>5 DEF GetPipeByAddress
    <2> QED BY <1>b, <2>1, <2>2 DEF OutcomeInv, Quiet, Holding
  <1>6. CASE Send
    <2>1. /\ tx.pc = "queued" /\ tx'.pc = "air" /\ tx'.told = tx.told /\ tx'.acked = tx.acked
          /\ hung' = hung
      BY <1>0, <1>6 DEF Send, TxStates
    <2>2. ~hung => chip'.status = chip.status
      BY <1>0, <1>6 DEF Send, Takes, Registers
    <2> QED BY <1>b, <2>1, <2>2 DEF OutcomeInv, Quiet, OnAir, Holding
  <1>7. CASE ReadStatus
    <2>1. /\ tx.pc = "air" /\ tx'.pc = "leave" /\ tx'.told = Outcome /\ tx'.acked = tx.acked
          /\ hung' = hung /\ chip.status # {}
      BY <1>0, <1>7 DEF ReadStatus, IrqLow, TxStates
    <2>2. CASE hung
      BY <2>1, <2>2 DEF OutcomeInv, Outcome, Holding
    <2>3. CASE ~hung
      <3>1. /\ chip'.status = Cleared(chip.status)
            /\ chip'.sending \in {{}, chip.sending}
        BY <1>0, <1>7, <2>3 DEF ReadStatus, Takes, Registers
      <3>2. /\ chip.sending = {}
            /\ \/ chip.status = {"TX_DS"} /\ tx.acked = IF Retr15 THEN "last" ELSE "yes"
               \/ chip.status = {"MAX_RT"} /\ Retr15 /\ tx.acked = "no"
        BY <1>b, <2>1, <2>3 DEF OnAir
      <3>3. Cleared(chip.status) = {}
        BY <3>2 DEF Cleared
      <3>4. Quiet'
        BY <3>1, <3>2, <3>3 DEF Quiet
      <3>5. /\ Outcome = "transmitted" => tx.acked = "yes"
            /\ Outcome = "unreachable" => tx.acked # "yes"
        BY <2>3, <3>2 DEF Outcome
      <3> QED BY <2>1, <3>4, <3>5 DEF OutcomeInv, Holding
    <2> QED BY <2>2, <2>3
  <1>8. CASE Sent
    <2>1. tx.pc = "leave" /\ hung' = hung /\ tx' = NextFragment
      BY <1>8 DEF Sent
    <2>2. tx'.pc \in {"idle", "queued"} /\ tx'.told = "none" /\ tx'.acked = "no"
      BY <2>1, NextFragmentType
    <2>3. ~hung => chip'.sending = {} /\ chip'.status = chip.status
      BY <1>0, <1>8, RxModeType DEF Sent, Takes
    <2> QED BY <1>b, <2>1, <2>2, <2>3 DEF OutcomeInv, Quiet, Holding
  <1>9. CASE Receive
    <2>1. UNCHANGED <<tx, hung>> /\ tx.pc \notin Holding
      BY <1>0, <1>9 DEF Receive, TxInv
    <2>2. chip'.status = {} /\ chip'.sending = chip.sending
      BY <1>0, <1>9 DEF Receive, Registers
    <2> QED BY <1>b, <2>1, <2>2 DEF OutcomeInv, Quiet, Holding
  <1>10. CASE HangReset
    <2>1. UNCHANGED tx /\ tx.pc \notin Holding
      BY <1>0, <1>10 DEF HangReset, TxInv
    <2>2. chip'.status = {} /\ chip'.sending = {}
      BY <1>0, <1>10, RxModeType DEF HangReset, Registers
    <2> QED BY <1>b, <2>1, <2>2 DEF OutcomeInv, Quiet, Holding
  <1>11. ~ \E d \in Exbs, p \in Pipes : ChipReceives(d, p)
    <2>1. received + 1 # 0
      BY <1>a
    <2> QED BY <2>1 DEF ChipReceives
  (* A transmission ends only if the chip is sending, so a fragment is on the air. *)
  <1>12. ASSUME ~hung, chip.sending # {}
         PROVE  tx.pc = "air" /\ chip.status = {} /\ tx.acked = "no"
    BY <1>b, <1>12 DEF Quiet, OnAir, Holding
  <1>13. CASE ChipRetransmits
    <2>1. ~hung /\ chip.sending # {} /\ UNCHANGED <<tx, hung>>
      BY <1>13 DEF ChipRetransmits
    <2>2. chip'.status = chip.status
      BY <1>0, <1>13 DEF ChipRetransmits, Registers
    <2> QED BY <1>12, <1>b, <2>1, <2>2 DEF OutcomeInv, OnAir, Holding
  <1>14. CASE ChipAcknowledged
    <2>1. ~hung /\ chip.sending # {} /\ hung' = hung
      BY <1>14 DEF ChipAcknowledged
    <2>2. chip'.status = chip.status \cup {"TX_DS"} /\ chip'.sending = {} /\ chip'.arc = chip.arc
      BY <1>0, <1>14 DEF ChipAcknowledged, Registers
    <2>3. /\ tx'.pc = tx.pc /\ tx'.told = tx.told
          /\ tx'.acked = IF Retr15 THEN "last" ELSE "yes"
      BY <1>0, <1>14 DEF ChipAcknowledged, TxStates
    <2>4. OnAir'
      BY <1>12, <2>1, <2>2, <2>3 DEF OnAir, Retr15
    <2> QED BY <1>12, <1>b, <2>1, <2>3, <2>4 DEF OutcomeInv, Holding
  <1>15. CASE ChipGivesUp
    <2>1. ~hung /\ chip.sending # {} /\ UNCHANGED <<tx, hung>> /\ chip.arc = "max"
      BY <1>15 DEF ChipGivesUp
    <2>2. chip'.status = chip.status \cup {"MAX_RT"} /\ chip'.sending = {} /\ chip'.arc = chip.arc
      BY <1>0, <1>15 DEF ChipGivesUp, Registers
    <2>3. OnAir'
      BY <1>12, <2>1, <2>2 DEF OnAir, Retr15
    <2> QED BY <1>12, <1>b, <2>1, <2>3 DEF OutcomeInv, Holding
  <1>16. CASE Hang
    <2>1. hung' /\ UNCHANGED <<tx, chip>>
      BY <1>16 DEF Hang
    <2> QED BY <1>b, <2>1 DEF OutcomeInv, Holding
  <1> QED BY <1>1, <1>2, <1>3, <1>4, <1>5, <1>6, <1>7, <1>8, <1>9, <1>10, <1>11,
             <1>13, <1>14, <1>15, <1>16 DEF Next, GateIn, ProgramChip, Transmitter, ChipSends

(***************************************************************************)
(* While nothing is received, what the program says of a fragment is true  *)
(* of that fragment.                                                       *)
(***************************************************************************)
THEOREM OutcomesAreTrue == Spec => []OutcomeIsTrueUnreceived
  <1>1. Init => OutcomeInv
    <2> SUFFICES ASSUME Init PROVE OutcomeInv
      OBVIOUS
    <2>1. chip.status = {} /\ chip.sending = {} /\ tx = Idle
      BY DEF Init
    <2> QED BY <2>1, IdleType DEF OutcomeInv, Quiet, Holding
  <1>2. TypeInv /\ Counts /\ OutcomeInv /\ [Next]_vars => OutcomeInv'
    BY OutcomeStep
  <1>3. OutcomeInv => OutcomeIsTrueUnreceived
    BY DEF OutcomeInv, OutcomeIsTrueUnreceived
  <1> QED BY <1>1, <1>2, <1>3, SpecTypeInv, SpecCounts, PTL DEF Spec
=============================================================================
