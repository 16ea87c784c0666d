------------------------------- MODULE Radio -------------------------------
(***************************************************************************)
(* The nRF24 chip and the three threads that use it: GateIn_thread sets    *)
(* the pipe matrix (gate_in.c), RfTransmitter_thread looks a pipe up and   *)
(* sends (rf_transmitter.c, NRF24.c), RfReceiver_thread takes what arrived *)
(* and resets a chip that hangs (rf_receiver.c).  rf_mutex protects the    *)
(* chip; the globals a_p1_targ ... a_p5_self, which hold the matrix, are   *)
(* written and read without it.                                            *)
(*                                                                         *)
(* A device on the air, an ExB, sends from one address (its targ) and      *)
(* listens to another (its self).  Both are named by the device here, so a *)
(* row of the matrix is right when targ and self are the same.  The        *)
(* registers of pipes 2 to 5 hold the lowest byte of an address only, and  *)
(* the chip takes the others from pipe 1.  The chip, the devices and the   *)
(* local programs are external.                                            *)
(*                                                                         *)
(* RfTransmitter_thread empties its five queues before it takes the next   *)
(* request, so they only hold what is left of one: tx.left fragments for   *)
(* pipe tx.k.                                                              *)
(***************************************************************************)
EXTENDS Naturals, Sequences

CONSTANTS
    NPipes,       \* five in the code
    Exbs,         \* the devices
    Nobody,       \* an address no device uses: 0xFFFFFFFF, 0xAAAAAAA1 and so on
    Lsb, High,    \* address -> its lowest byte, and the three others
    Matrices,     \* what programs send: pipe -> device, or a blob that is too short
    Short,        \* the blob that is too short
    Sizes,        \* how many fragments a request has
    MaxCommands, MaxFragments, MaxReceived, FifoCap,
    ChipFails,    \* may the chip not take its registers?
    MayHang,      \* may the chip stop altogether?
    MayReset      \* is silence ever longer than MAX_SILENCE_TIME?

Pipes     == 1..NPipes
LowPipes  == Pipes \ {1}
Addresses == Exbs \cup {Nobody}

(***************************************************************************)
(* An address is its bytes.  No device has bytes of those that the globals *)
(* and registers hold before the first matrix.                             *)
(***************************************************************************)
ASSUME RadioAssumption ==
    /\ NPipes \in Nat \ {0}
    /\ Nobody \notin Exbs /\ Short \notin [Pipes -> Exbs]
    /\ Lsb \in [Addresses -> Nat] /\ High \in [Addresses -> Nat]
    /\ \A d, e \in Exbs : Lsb[d] = Lsb[e] /\ High[d] = High[e] => d = e
    /\ \A d \in Exbs : Lsb[d] # Lsb[Nobody] /\ High[d] # High[Nobody]
    /\ Matrices \subseteq [Pipes -> Exbs] \cup {Short}
    /\ Sizes \subseteq Nat
    /\ MaxCommands \in Nat /\ MaxFragments \in Nat /\ MaxReceived \in Nat
    /\ FifoCap \in Nat
    /\ ChipFails \in BOOLEAN /\ MayHang \in BOOLEAN /\ MayReset \in BOOLEAN

VARIABLES
    targ, self,   \* the globals a_pN_targ and a_pN_self
    rf_mutex,     \* "free", or who holds it: only a send holds it between steps
    chip,         \* RX_ADDR_P1 whole and RX_ADDR_P2.. low, the receive FIFO,
                  \* STATUS, the address it is sending to, if any, ARC_CNT
    hung,         \* has the chip stopped?
    gate,         \* GateIn_thread and its last answer
    tx,           \* RfTransmitter_thread, the outcome of its last fragment
    upQueue,      \* fragments for gate_out: device that sent, address they are given
    heard,        \* who has heard of the last request, and whom it was for
    commands, requests, received     \* what the outside has asked so far

matrix == <<targ, self>>
asked  == <<commands, requests, received>>
vars   == <<targ, self, rf_mutex, chip, hung, gate, tx, upQueue, heard, asked>>

Blank == [p \in Pipes |-> Nobody]

Idle == [pc |-> "idle", addr |-> Nobody, k |-> 1, left |-> 0, told |-> "none", acked |-> "no"]

(***************************************************************************)
(* RF_init() has run: NRF24_RX_Mode has written the first address.         *)
(***************************************************************************)
Init ==
    /\ targ = Blank /\ self = Blank
    /\ rf_mutex = "free"
    /\ chip = [rx1 |-> Nobody, rxlow |-> [p \in LowPipes |-> Lsb[Nobody]],
               fifo |-> <<>>, status |-> {}, sending |-> {}, arc |-> "few"]
    /\ hung = FALSE
    /\ gate = [pc |-> "idle", want |-> Blank, before |-> Blank, k |-> 1, answer |-> "none"]
    /\ tx = Idle
    /\ upQueue = <<>>
    /\ heard = {}
    /\ commands = 0 /\ requests = 0 /\ received = 0

-----------------------------------------------------------------------------
(* GateIn_thread: WSD_TYPE_SET_PIPES_MATRIX.                               *)

Ident(m) == \E i, j \in Pipes : i # j /\ Lsb[m[i]] = Lsb[m[j]]

SetPipesMatrix(m) ==
    /\ gate.pc = "idle" /\ commands < MaxCommands
    /\ commands' = commands + 1
    /\ gate' = IF m = Short THEN [gate EXCEPT !.answer = "broken"]
               ELSE IF Ident(m) THEN [gate EXCEPT !.answer = "bad_msb"]
               ELSE [gate EXCEPT !.pc = "write", !.want = m, !.k = 1, !.answer = "none"]
    /\ UNCHANGED <<matrix, rf_mutex, chip, hung, tx, upQueue, heard, requests, received>>

(***************************************************************************)
(* The globals are assigned one after the other: a_p1_targ, a_p1_self, ... *)
(* BadLastGlobal goes one too far.                                         *)
(***************************************************************************)
BadLastGlobal == 2 * NPipes + 1

LastGlobal == 2 * NPipes

WriteGlobal ==
    /\ gate.pc = "write"
    /\ LET p == (gate.k + 1) \div 2
       IN  IF gate.k % 2 = 1
           THEN targ' = [targ EXCEPT ![p] = gate.want[p]] /\ UNCHANGED self
           ELSE self' = [self EXCEPT ![p] = gate.want[p]] /\ UNCHANGED targ
    /\ gate' = IF gate.k = LastGlobal THEN [gate EXCEPT !.pc = "lock"]
                                      ELSE [gate EXCEPT !.k = @ + 1]
    /\ UNCHANGED <<rf_mutex, chip, hung, tx, upQueue, heard, asked>>

(***************************************************************************)
(* With the mutex: write the registers, read them back, answer.  A chip    *)
(* that fails takes the addresses of some pipes only, and one that hangs   *)
(* none.  BadReadBack looks at the first only.                             *)
(***************************************************************************)
Written(taken) ==
    [chip EXCEPT !.rx1 = IF 1 \in taken THEN targ[1] ELSE @,
                 !.rxlow = [p \in LowPipes |-> IF p \in taken THEN Lsb[targ[p]] ELSE @[p]]]

BadReadBack(c) == c.rx1 = targ[1]

ReadBack(c) == c.rx1 = targ[1] /\ \A p \in LowPipes : c.rxlow[p] = Lsb[targ[p]]

Program(taken) ==
    /\ gate.pc = "lock"
    /\ taken # Pipes => ChipFails \/ hung
    /\ hung => taken = {}
    /\ chip' = Written(taken)
    /\ gate' = IF ~hung /\ ReadBack(Written(taken))
               THEN [gate EXCEPT !.pc = "idle", !.before = gate.want, !.answer = "result"]
               ELSE [gate EXCEPT !.pc = "idle", !.answer = "not_respond"]
    /\ UNCHANGED <<matrix, rf_mutex, hung, tx, upQueue, heard, asked>>

ProgramChip == rf_mutex = "free" /\ \E taken \in SUBSET Pipes : Program(taken)

-----------------------------------------------------------------------------
(* RfTransmitter_thread.                                                   *)

TakeRequest(d, n) ==
    /\ tx.pc = "idle"
    /\ requests + (IF n = 0 THEN 1 ELSE n) <= MaxFragments
    /\ requests' = requests + (IF n = 0 THEN 1 ELSE n)
    /\ tx' = [Idle EXCEPT !.pc = "lookup", !.addr = d, !.left = n]
    /\ heard' = {}
    /\ UNCHANGED <<matrix, rf_mutex, chip, hung, gate, upQueue, commands, received>>

(***************************************************************************)
(* NRF24_GetPipeByAddress: k becomes the pipe whose targ is the address.   *)
(* A request without a fragment is dealt with then.                        *)
(***************************************************************************)
GetPipeByAddress ==
    /\ tx.pc = "lookup"
    /\ tx' = IF targ[tx.k] = tx.addr
             THEN IF tx.left = 0 THEN Idle ELSE [tx EXCEPT !.pc = "queued"]
             ELSE IF tx.k < NPipes THEN [tx EXCEPT !.k = @ + 1]
             ELSE [Idle EXCEPT !.told = "not_defined"]
    /\ UNCHANGED <<matrix, rf_mutex, chip, hung, gate, upQueue, heard, asked>>

(***************************************************************************)
(* A chip that has hung takes nothing.                                     *)
(***************************************************************************)
Takes(c) == IF hung THEN chip ELSE c

(***************************************************************************)
(* NRF24_Send up to the wait, for the next fragment: lock, NRF24_TX_Mode   *)
(* (the address to send to is the self of the pipe now; the FIFOs are      *)
(* flushed, the bits of STATUS are not) and NRF24_Transmit.  A chip whose  *)
(* MAX_RT is set does not send.  BadSelf takes that of the pipe before.    *)
(***************************************************************************)
BadSelf(p) == self[IF p = 1 THEN NPipes ELSE p - 1]

Self(p) == self[p]

MaxRt == "MAX_RT" \in chip.status

Send ==
    /\ tx.pc = "queued" /\ rf_mutex = "free"
    /\ rf_mutex' = "tx"
    /\ chip' = Takes([chip EXCEPT !.fifo = <<>>,
                                  !.sending = IF MaxRt THEN {} ELSE {Self(tx.k)},
                                  !.arc = IF MaxRt THEN @ ELSE "few"])
    /\ tx' = [tx EXCEPT !.pc = "air"]
    /\ UNCHANGED <<matrix, hung, gate, upQueue, heard, asked>>

(***************************************************************************)
(* The pin is low, for a packet that was received or for the end of the    *)
(* transmission: NRF24_Send clears one of the bits and reads ARC_CNT.  15  *)
(* retransmissions count as a failure.  BadCleared leaves TX_DS.           *)
(***************************************************************************)
IrqLow == chip.status # {}
Retr15 == chip.arc = "max"

BadCleared(status) == status \ {"MAX_RT"}

Cleared(status) ==
    IF "TX_DS" \in status THEN status \ {"TX_DS"} ELSE status \ {"MAX_RT"}

Flushes(status) == "TX_DS" \notin status /\ "MAX_RT" \in status

Outcome == IF hung THEN "garbled" ELSE IF Retr15 THEN "unreachable" ELSE "transmitted"

ReadStatus ==
    /\ tx.pc = "air" /\ IrqLow
    /\ chip' = Takes([chip EXCEPT !.status = Cleared(@),
                                  !.sending = IF Flushes(chip.status) THEN {} ELSE @])
    /\ tx' = [tx EXCEPT !.pc = "leave", !.told = Outcome]
    /\ UNCHANGED <<matrix, rf_mutex, hung, gate, upQueue, heard, asked>>

(***************************************************************************)
(* NRF24_RX_Mode on the registers c.                                       *)
(***************************************************************************)
RxMode(c) == [c EXCEPT !.rx1 = targ[1], !.fifo = <<>>, !.sending = {}]

(***************************************************************************)
(* The end of NRF24_Send: NRF24_RX_Mode, unlock.  BadSent returns early    *)
(* after a failure and keeps the mutex.                                    *)
(***************************************************************************)
NextFragment ==
    IF tx.left = 1 THEN Idle
    ELSE [tx EXCEPT !.pc = "queued", !.left = @ - 1, !.told = "none", !.acked = "no"]

BadSent ==
    /\ tx.pc = "leave"
    /\ rf_mutex' = IF tx.told = "unreachable" THEN rf_mutex ELSE "free"
    /\ chip' = Takes(RxMode(chip))
    /\ tx' = NextFragment
    /\ UNCHANGED <<matrix, hung, gate, upQueue, heard, asked>>

Sent ==
    /\ tx.pc = "leave"
    /\ rf_mutex' = "free"
    /\ chip' = Takes(RxMode(chip))
    /\ tx' = NextFragment
    /\ UNCHANGED <<matrix, hung, gate, upQueue, heard, asked>>

-----------------------------------------------------------------------------
(* RfReceiver_thread.                                                      *)

(***************************************************************************)
(* NRF24_GetAddrByPipe, and a form of it that is one pipe off.             *)
(***************************************************************************)
BadGetAddrByPipe(p) == IF p = 1 THEN Nobody ELSE targ[p - 1]

GetAddrByPipe(p) == targ[p]

(***************************************************************************)
(* NRF24_Receive clears all bits of STATUS.                                *)
(***************************************************************************)
Receive ==
    /\ rf_mutex = "free" /\ ~hung /\ chip.fifo # <<>>
    /\ upQueue' = Append(upQueue, [from |-> Head(chip.fifo).from,
                                   addr |-> GetAddrByPipe(Head(chip.fifo).pipe)])
    /\ chip' = [chip EXCEPT !.fifo = Tail(@), !.status = {}]
    /\ UNCHANGED <<matrix, rf_mutex, hung, gate, tx, heard, asked>>

(***************************************************************************)
(* NRF24_init(true) after a long silence, that of a hung chip or another.  *)
(***************************************************************************)
HangReset ==
    /\ rf_mutex = "free" /\ (hung \/ MayReset)
    /\ chip' = [RxMode(chip) EXCEPT !.status = {}]
    /\ hung' = FALSE
    /\ UNCHANGED <<matrix, rf_mutex, gate, tx, upQueue, heard, asked>>

-----------------------------------------------------------------------------
(* The chip and the devices.                                               *)

(***************************************************************************)
(* A device sends; the chip, in receive mode, takes it on a pipe that has  *)
(* its address.                                                            *)
(***************************************************************************)
Matches(d, p) ==
    IF p = 1 THEN chip.rx1 = d
             ELSE chip.rxlow[p] = Lsb[d] /\ High[chip.rx1] = High[d]

ChipReceives(d, p) ==
    /\ tx.pc \notin {"air", "leave"} /\ ~hung
    /\ received < MaxReceived /\ Len(chip.fifo) < FifoCap
    /\ Matches(d, p)
    /\ chip' = [chip EXCEPT !.fifo = Append(@, [from |-> d, pipe |-> p]),
                            !.status = @ \cup {"RX_DR"}]
    /\ received' = received + 1
    /\ UNCHANGED <<matrix, rf_mutex, hung, gate, tx, upQueue, heard, commands, requests>>

(***************************************************************************)
(* A transmission may need fifteen retransmissions.  A device that listens *)
(* to the address hears it; it ends when the acknowledgement comes, or     *)
(* when none has come after the last.                                      *)
(***************************************************************************)
Hear(d) == heard \cup {[addr |-> tx.addr, by |-> d]}

ChipRetransmits ==
    /\ chip.sending # {} /\ ~hung /\ chip.arc = "few"
    /\ chip' = [chip EXCEPT !.arc = "max"]
    /\ UNCHANGED <<matrix, rf_mutex, hung, gate, tx, upQueue, heard, asked>>

ChipAcknowledged ==
    /\ ~hung
    /\ \E d \in chip.sending \cap Exbs : heard' = Hear(d)
    /\ chip' = [chip EXCEPT !.sending = {}, !.status = @ \cup {"TX_DS"}]
    /\ tx' = [tx EXCEPT !.acked = IF Retr15 THEN "last" ELSE "yes"]
    /\ UNCHANGED <<matrix, rf_mutex, hung, gate, upQueue, asked>>

ChipGivesUp ==
    /\ chip.sending # {} /\ ~hung /\ chip.arc = "max"
    /\ chip' = [chip EXCEPT !.sending = {}, !.status = @ \cup {"MAX_RT"}]
    /\ heard' \in {heard} \cup {Hear(d) : d \in chip.sending \cap Exbs}
    /\ UNCHANGED <<matrix, rf_mutex, hung, gate, tx, upQueue, asked>>

ChipSends == ChipRetransmits \/ ChipAcknowledged \/ ChipGivesUp

Hang ==
    /\ MayHang /\ ~hung
    /\ hung' = TRUE
    /\ UNCHANGED <<matrix, rf_mutex, chip, gate, tx, upQueue, heard, asked>>

-----------------------------------------------------------------------------
GateIn == WriteGlobal \/ ProgramChip

Transmitter == GetPipeByAddress \/ Send \/ ReadStatus \/ Sent

Next ==
    \/ \E m \in Matrices : SetPipesMatrix(m)
    \/ GateIn
    \/ \E d \in Exbs : \/ \E n \in Sizes : TakeRequest(d, n)
                       \/ \E p \in Pipes : ChipReceives(d, p)
    \/ Transmitter
    \/ Receive \/ HangReset
    \/ ChipSends
    \/ Hang

Spec == Init /\ [][Next]_vars

(***************************************************************************)
(* The threads go on.  A thread that waits for rf_mutex gets it in the end:*)
(* the receiver sleeps between two uses of it, and the transmitter has a   *)
(* finite queue.  The chip ends a transmission unless it hangs.            *)
(***************************************************************************)
FairSpec ==
    /\ Spec
    /\ WF_vars(WriteGlobal) /\ SF_vars(ProgramChip)
    /\ WF_vars(GetPipeByAddress) /\ SF_vars(Send) /\ WF_vars(ReadStatus) /\ WF_vars(Sent)
    /\ WF_vars(Receive) /\ WF_vars(HangReset /\ hung)
    /\ WF_vars(ChipSends)
-----------------------------------------------------------------------------
(* Properties.                                                             *)

(***************************************************************************)
(* Every variable has its shape.                                           *)
(***************************************************************************)
Registers ==
    [rx1 : Addresses, rxlow : [LowPipes -> Nat],
     fifo : Seq([from : Exbs, pipe : Pipes]),
     status : SUBSET {"RX_DR", "TX_DS", "MAX_RT"},
     sending : SUBSET Addresses, arc : {"few", "max"}]

GateStates ==
    [pc : {"idle", "write", "lock"}, want : [Pipes -> Addresses],
     before : [Pipes -> Addresses], k : 1..(2 * NPipes),
     answer : {"none", "result", "broken", "bad_msb", "not_respond"}]

TxStates ==
    [pc : {"idle", "lookup", "queued", "air", "leave"}, addr : Addresses, k : Pipes,
     left : Nat, told : {"none", "not_defined", "transmitted", "unreachable", "garbled"},
     acked : {"no", "yes", "last"}]

TypeOK ==
    /\ targ \in [Pipes -> Addresses] /\ self \in [Pipes -> Addresses]
    /\ rf_mutex \in {"free", "tx"}
    /\ chip \in Registers
    /\ hung \in BOOLEAN
    /\ gate \in GateStates /\ tx \in TxStates
    /\ upQueue \in Seq([from : Exbs, addr : Addresses])
    /\ heard \subseteq [addr : Addresses, by : Exbs]

(***************************************************************************)
(* Once a matrix has been accepted, the chip receives each of its devices, *)
(* on the pipe of the device and on no other, although every send and      *)
(* every reset writes the first address again from a global that is        *)
(* written without the mutex.  The registers have room for this only if    *)
(* the upper bytes are the same (gate_in.c:218-222).                       *)
(***************************************************************************)
Uniform(m) == \A p, q \in Pipes : High[m[p]] = High[m[q]]

Accepted == gate.pc = "idle" /\ gate.answer = "result"

MatrixIsHeard ==
    Accepted /\ Uniform(gate.want) =>
        \A p, q \in Pipes : Matches(gate.want[p], q) <=> p = q

(***************************************************************************)
(* Until a second matrix is asked for, what a device hears was meant for   *)
(* it (gate_in.c:110), although the first one may be half written when a   *)
(* pipe is looked up and again when its self is read ...                   *)
(***************************************************************************)
SentToAddressee == \A h \in heard : h.by = h.addr

SentToAddresseeAtFirst == commands <= 1 => SentToAddressee

(***************************************************************************)
(* ... and a fragment is given the address of the device that sent it      *)
(* (gate_in.c:109).                                                        *)
(***************************************************************************)
SenderIsRight == \A i \in 1..Len(upQueue) : upQueue[i].addr = upQueue[i].from

SenderIsRightAtFirst == commands <= 1 /\ Uniform(gate.want) => SenderIsRight

(***************************************************************************)
(* As long as nothing has been received, so that the pin is low for the    *)
(* ends of transmissions only (NRF24.c:228), what the program says of a    *)
(* fragment is true of this one and not of an earlier one: "transmitted"   *)
(* (rf_transmitter.c:88) is said of one that was acknowledged, and         *)
(* ERROR_ADDR_UNREACHABLE (:82) of one that was not before its last        *)
(* retransmission.                                                         *)
(***************************************************************************)
OutcomeIsTrueUnreceived ==
    received = 0 =>
        /\ tx.told = "transmitted" => tx.acked = "yes"
        /\ tx.told = "unreachable" => tx.acked # "yes"

(***************************************************************************)
(* As long as the chip works, commands are answered and requests are dealt *)
(* with: nobody keeps rf_mutex, whatever is received and reset meanwhile   *)
(* and whatever bits of STATUS are left from an earlier transmission.      *)
(***************************************************************************)
Works == [](~hung)

ThreadsGoOn ==
    Works => (gate.pc # "idle" ~> gate.pc = "idle") /\ (tx.pc # "idle" ~> tx.pc = "idle")
-----------------------------------------------------------------------------
(* What the comments and messages say and the code does not do: TLC finds  *)
(* each of these violated, and SentToAddressee and SenderIsRight once a    *)
(* second matrix is set (README, section 5).                               *)

(***************************************************************************)
(* A command that is answered with an error has not changed the matrix     *)
(* (gate_in.c:111).                                                        *)
(***************************************************************************)
RefusedLeavesMatrix ==
    gate.pc = "idle" /\ gate.answer \in {"broken", "bad_msb", "not_respond"} =>
        targ = gate.before /\ self = gate.before

(***************************************************************************)
(* An address that was in the matrix and stays in it is always defined     *)
(* (rf_transmitter.c:148).                                                 *)
(***************************************************************************)
NotDefinedIsTrue ==
    [][\A d \in Exbs :
          /\ tx.addr = d /\ tx.told = "none" /\ tx'.told = "not_defined"
          => ~ \E p, q \in Pipes : gate.before[p] = d /\ gate.want[q] = d]_vars

(***************************************************************************)
(* "Rf packet transmitted" (rf_transmitter.c:88) is said of a packet that  *)
(* a device acknowledged, "not transmitted" (:78) of another.              *)
(***************************************************************************)
TransmittedIsTrue   == tx.pc = "leave" /\ tx.told = "transmitted" => tx.acked # "no"
UntransmittedIsTrue == tx.pc = "leave" /\ tx.told = "unreachable" => tx.acked = "no"

(***************************************************************************)
(* The chip receives the devices of a matrix that it has accepted          *)
(* (gate_in.c:108-110).                                                    *)
(***************************************************************************)
AcceptedIsHeard == Accepted => \A p \in Pipes : Matches(gate.want[p], p)

(***************************************************************************)
(* A chip that hangs is reset (rf_receiver.c:62).                          *)
(***************************************************************************)
HungIsReset == hung ~> ~hung
=============================================================================
