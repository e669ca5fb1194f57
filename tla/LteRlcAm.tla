------------------------------ MODULE LteRlcAm ------------------------------
(***************************************************************************)
(* RLC acknowledged mode (simulte/src/stack/rlc/am): one flow, with the    *)
(* AmTxQueue at its source, the AmRxQueue at its destination, the LteRlcAm *)
(* modules that route its control PDUs, and the MAC layer between them,    *)
(* which delivers a PDU at most once, late, out of order, or never (module *)
(* LteMacPduService): a lost PDU is one that stays in net for ever.        *)
(*                                                                         *)
(* Timers may run out at any time: the model keeps no clock.  The          *)
(* retransmission timers all have the same length, so in the code they run *)
(* out in the order of their start; here in any order, which adds          *)
(* behaviours.                                                             *)
(***************************************************************************)
EXTENDS AmRxQueue

CONSTANTS
  NumSdu,        \* how many SDUs the upper layer sends: a bound of the model
  MaxPdus        \* how many PDUs they need together: a bound of the model

ASSUME AmAssumption == NumSdu \in Nat /\ MaxPdus \in Nat

VARIABLES
  pdus,       \* the fragments of all SDUs given to enque(), in order
  sdus,       \* how many SDUs there were; they are numbered from 0
  tx,         \* the AmTxQueue
  rx,         \* the AmRxQueue
  net,        \* the PDUs on their way through the MAC layers
  error,      \* the run-time error that has ended the simulation, if any
  taken,      \* history: the sequence numbers that have reached enque()
  delivered,  \* history: [Sdu -> how often it was passed up]
  given,      \* history: the sequence numbers that discard() gave up
  stale       \* history: a move of the receive window left the status of a
              \* PDU that is gone

history == <<taken, delivered, given, stale>>
vars == <<pdus, sdus, tx, rx, net, error, history>>

Sdu == 0 .. NumSdu - 1

DataPdu(pdu) == [type |-> "DATA", pdu |-> pdu]
Mrw(id, sn) == [type |-> "MRW", id |-> id, lastSn |-> sn]
MrwAck(id, sn) == [type |-> "MRW_ACK", id |-> id, sn |-> sn]

\* The PDUs that addPdus sends down in a step.
Added == {DataPdu(pdus'[sn + 1]) : sn \in tx.seqNum .. tx'.seqNum - 1}

\* A number for a new MRW command.  In the code it is the next of a counter;
\* here one that nothing in the system still holds, and a step that needs one
\* waits until there is one: a bound of the model.
Underway(id) == {m \in net : m.type \in {"MRW", "MRW_ACK"} /\ m.id = id}
FreshMrwIds == {id \in MrwId : tx.mrwRtxQueue[id] = NoMrw /\ Underway(id) = {}}
NextMrwId == CHOOSE id \in FreshMrwIds : TRUE

\* checkForMrw, in a handler that has left the queue as q.
CheckForMrw(q) == IF MrwDue(q) THEN SendMrw(q, NextMrwId) ELSE q
MrwSent(q) == IF MrwDue(q) THEN {Mrw(NextMrwId, MrwSeqNum(q))} ELSE {}
MrwBound(q) == MrwDue(q) => FreshMrwIds # {}

Fail(what) ==
  /\ error' = what
  /\ UNCHANGED <<pdus, sdus, tx, rx, net, history>>

----------------------------------------------------------------------------
(* The transmitter.                                                        *)

\* handleUpperMessage, AmTxQueue::enque: an SDU of n fragments.
Enque(n) ==
  LET more == pdus \o [k \in 1 .. n |->
                [sn |-> Len(pdus) + k - 1, sdu |-> sdus,
                 firstSn |-> Len(pdus), lastSn |-> Len(pdus) + n - 1]]
  IN
  /\ sdus < NumSdu /\ Len(pdus) + n <= MaxPdus
  /\ IF AddPdusThrows(tx, more) THEN Fail("tx") ELSE
        /\ sdus' = sdus + 1 /\ pdus' = more
        /\ tx' = AddPdus(tx, more)
        /\ net' = net \cup Added
        /\ UNCHANGED <<rx, error, history>>

\* pduTimerHandle: a PDU that was sent MaxRtx + 1 times is discarded.
PduTimer(sn) ==
  LET q == [tx EXCEPT !.pduTimer = @ \ {sn}]
      dropped == Discard(q, sn)
  IN
  /\ sn \in tx.pduTimer
  /\ IF PduTimerThrows(tx, sn) THEN Fail("tx") ELSE
     \/ /\ Attempts(tx, sn) <= MaxRtx
        /\ tx' = Retransmit(tx, sn)
        /\ net' = net \cup {DataPdu(tx.pduRtxQueue[Index(tx, sn)].pdu)}
        /\ UNCHANGED <<pdus, sdus, rx, error, history>>
     \/ /\ Attempts(tx, sn) > MaxRtx
        /\ MrwBound(dropped)
        /\ tx' = CheckForMrw(dropped)
        /\ net' = net \cup MrwSent(dropped)
        /\ given' = given \cup {s \in Window(tx) : dropped.discarded[Index(tx, s)]}
        /\ UNCHANGED <<pdus, sdus, rx, error, taken, delivered, stale>>

\* Mutant of MrwTimer: an MRW is not repeated.
MrwTimerOnce(id) ==
  /\ tx.mrwRtxQueue[id] # NoMrw
  /\ tx' = RecvMrwAck(tx, id)
  /\ net' \in {net, net \ Underway(id)}
  /\ UNCHANGED <<pdus, sdus, rx, error, history>>

\* mrwTimerHandle: an MRW is repeated until it is acknowledged, unless a newer
\* one was sent.  What was underway may be lost by now, or still arrive.
MrwTimer(id) ==
  /\ tx.mrwRtxQueue[id] # NoMrw
  /\ \E lost \in {{}, Underway(id)} :
       \/ /\ tx.lastMrw # id
          /\ tx' = RecvMrwAck(tx, id)
          /\ net' = net \ lost
       \/ /\ tx.lastMrw = id
          /\ tx' = tx
          /\ net' = (net \ lost) \cup {Mrw(id, tx.mrwRtxQueue[id])}
  /\ UNCHANGED <<pdus, sdus, rx, error, history>>

\* handleMessage, for the buffer status timer.
BufferStatusTimer ==
  /\ tx.bufferStatusTimer
  /\ MrwBound(tx)
  /\ tx' = [CheckForMrw(tx) EXCEPT !.bufferStatusTimer = FALSE]
  /\ net' = net \cup MrwSent(tx)
  /\ UNCHANGED <<pdus, sdus, rx, error, history>>

\* handleControlPacket, for a status report m that the other end's AmRxQueue
\* has sent: the cumulative part first, and an MRW command if it allows one.
ReceiveAck(m) ==
  LET ignored == CumulativeAckIgnored(tx, m.lastSn)
      q == RecvCumulativeAck(tx, m.lastSn)
  IN
  /\ m \in net /\ m.type = "ACK"
  /\ IF CumulativeAckThrows(tx, m.lastSn) \/ BitmapAckThrows(tx, m.acked)
     THEN Fail("tx")
     ELSE
        /\ ignored \/ MrwBound(q)
        /\ tx' = MarkReceived(IF ignored THEN tx ELSE CheckForMrw(q), m.acked)
        /\ net' = (net \ {m}) \cup (IF ignored THEN {} ELSE MrwSent(q))
        /\ UNCHANGED <<pdus, sdus, rx, error, history>>

\* handleControlPacket, for the acknowledgement m of an MRW command.
ReceiveMrwAck(m) ==
  LET moves == m.sn > tx.firstSeqNum
      q == ShiftTxWindow(tx, m.sn)
      throws == moves /\ (MoveTxWindowThrows(tx, m.sn) \/ AddPdusThrows(q, pdus))
  IN
  /\ m \in net /\ m.type = "MRW_ACK"
  /\ IF throws THEN Fail("tx") ELSE
        /\ tx' = RecvMrwAck(IF moves THEN AddPdus(q, pdus) ELSE tx, m.id)
        /\ UNCHANGED <<pdus, sdus, rx, error, history>>
        /\ net' = (net \ {m}) \cup Added

----------------------------------------------------------------------------
(* The receiver.                                                           *)

\* sendStatusReport, of a handler that has left the queue as r, unless one was
\* sent a moment ago.
ReportSent(r) == IF r.ackSent THEN {} ELSE {StatusReport(r)}

\* AmRxQueue::enque, for a DATA PDU.  One out of sequence is reported before it
\* is put in the buffer, and an SDU that goes up is reported after.
ReceiveData(m) ==
  LET pdu == m.pdu
      i == Position(rx, pdu)
      early == OutOfSequence(rx, pdu)
      noted == NoteArrival(rx, pdu)
      r == [noted EXCEPT !.ackSent = @ \/ early]
      new == BufferPdu(r, pdu)
      verdict == Verdict(new, i)
      up == PassedUp(new, i)
      earlyReport == IF early THEN ReportSent(noted) ELSE {}
  IN
  /\ m \in net /\ m.type = "DATA"
  /\ IF i >= RxWindowSize THEN Fail("window") ELSE
     \/ /\ i < 0
        /\ rx' = noted
        /\ net' = net \ {m}
        /\ taken' = taken \cup {pdu.sn}
        /\ UNCHANGED <<error, delivered>>
     \/ /\ i >= 0 /\ rx.received[i]
        /\ IF rx.pduBuffer[i].sdu # pdu.sdu THEN Fail("buffer")
           ELSE /\ rx' = r
                /\ net' = (net \ {m}) \cup earlyReport
                /\ UNCHANGED <<error, taken, delivered>>
     \/ /\ i >= 0 /\ ~rx.received[i]
        /\ verdict = "error" \/ (verdict = "found" /\ PassUpThrows(new, up))
        /\ Fail("order")
     \/ /\ i >= 0 /\ ~rx.received[i]
        /\ verdict = "missing"
        /\ rx' = new
        /\ net' = (net \ {m}) \cup earlyReport
        /\ taken' = taken \cup {pdu.sn}
        /\ UNCHANGED <<error, delivered>>
     \/ /\ i >= 0 /\ ~rx.received[i]
        /\ verdict = "found" /\ ~PassUpThrows(new, up)
        /\ rx' = [new EXCEPT !.ackSent = TRUE]
        /\ net' = (net \ {m}) \cup earlyReport \cup ReportSent(new)
        /\ delivered' = [delivered EXCEPT ![new.pduBuffer[up].sdu] = @ + 1]
        /\ taken' = taken \cup {pdu.sn}
        /\ UNCHANGED error
  /\ UNCHANGED <<pdus, sdus, tx, given, stale>>

\* AmRxQueue::enque, for an MRW command: the answer needs the control
\* information of a DATA PDU.
ReceiveMrw(m) ==
  LET ignored == MoveRxWindowIgnored(rx, m.lastSn)
      r == IF ignored THEN rx ELSE MoveRxWindow(rx, m.lastSn)
  IN
  /\ m \in net /\ m.type = "MRW"
  /\ IF ~ignored /\ MoveRxWindowThrows(rx, m.lastSn) THEN Fail("window") ELSE
     \/ ~rx.flowControlInfo /\ Fail("null")
     \/ /\ rx.flowControlInfo
        /\ rx' = r
        /\ net' = (net \ {m}) \cup {MrwAck(m.id, r.firstSeqNum)}
        /\ stale' = (stale \/ (~ignored /\ LeavesStale(rx, m.lastSn)))
        /\ UNCHANGED <<pdus, sdus, tx, error, taken, delivered, given>>

\* AmRxQueue::handleMessage: the status report timer.
StatusTimer ==
  /\ rx.timer
  /\ rx' = [rx EXCEPT !.timer = \E i \in RxSlot : rx.pduBuffer[i] # NoPdu,
                      !.ackSent = TRUE]
  /\ net' = net \cup ReportSent(rx)
  /\ UNCHANGED <<pdus, sdus, tx, error, history>>

\* ackReportInterval has passed since the last report.
ReportInterval ==
  /\ rx.ackSent
  /\ rx' = [rx EXCEPT !.ackSent = FALSE]
  /\ UNCHANGED <<pdus, sdus, tx, net, error, history>>

----------------------------------------------------------------------------
Init ==
  /\ pdus = <<>> /\ sdus = 0
  /\ tx = NewTxQueue /\ rx = NewRxQueue
  /\ net = {}
  /\ error = "none"
  /\ taken = {} /\ given = {} /\ stale = FALSE
  /\ delivered = [s \in Sdu |-> 0]

Receive(m) == ReceiveData(m) \/ ReceiveAck(m) \/ ReceiveMrw(m) \/ ReceiveMrwAck(m)

\* A run-time error ends the simulation.
Running == error = "none"

Next ==
  /\ Running
  /\ \/ \E n \in 1 .. MaxPdus : Enque(n)
     \/ \E sn \in tx.pduTimer : PduTimer(sn)
     \/ \E id \in MrwId : MrwTimer(id)
     \/ BufferStatusTimer
     \/ StatusTimer
     \/ ReportInterval
     \/ \E m \in net : Receive(m)

Spec == Init /\ [][Next]_vars

(* A timer that was started runs out, unless it is stopped.  The MAC layer *)
(* may lose MRW commands and their acknowledgements, but not every one of  *)
(* those sent again and again: strong fairness.  Nothing is assumed about  *)
(* data and status reports.                                                *)
Fairness ==
  /\ \A sn \in 0 .. MaxPdus - 1 : WF_vars(Running /\ PduTimer(sn))
  /\ \A id \in MrwId : WF_vars(Running /\ MrwTimer(id))
  /\ SF_vars(Running /\ \E m \in net : ReceiveMrw(m))
  /\ SF_vars(Running /\ \E m \in net : ReceiveMrwAck(m))

FairSpec == Spec /\ Fairness

----------------------------------------------------------------------------
(* Safety.                                                                 *)

PduMessage ==
  [type : {"DATA"}, pdu : PduType]
    \cup [type : {"ACK"}, lastSn : Number, acked : SUBSET Nat]
    \cup [type : {"MRW"}, id : MrwId, lastSn : Nat]
    \cup [type : {"MRW_ACK"}, id : MrwId, sn : Nat]

\* The types of the two queues and of the PDUs between them.
TypeOK ==
  /\ pdus \in Seq(PduType)
  /\ sdus \in 0 .. NumSdu
  /\ tx \in TxQueueType
  /\ rx \in RxQueueType
  /\ net \subseteq PduMessage
  /\ error \in {"none", "tx", "window", "buffer", "order", "null"}
  /\ taken \subseteq Nat /\ given \subseteq Nat /\ stale \in BOOLEAN
  /\ delivered \in [Sdu -> Nat]

\* As long as no status is stale, none of the run-time errors of AmTxQueue is
\* reachable, nor that of AmRxQueue about a PDU in the place of another:
\* acknowledgements, timers and window moves in any order find the PDUs where
\* the queues look for them.  Those about a PDU or an MRW outside the receive
\* window are not, stale or not, unless that is smaller than the transmit window.
NeverThrows ==
  /\ error \in {"tx", "buffer"} => stale
  /\ error = "window" => RxWindowSize < TxWindowSize

\* Every PDU of the window stays in its slot, whatever is retransmitted,
\* discarded and moved.
PdusKeepTheirSlot == InTheirSlots(tx, pdus)

\* Every PDU of the window that still needs one has its timer: none is
\* forgotten, none fires for a PDU that is gone.
TimerIffOutstanding == TimersRight(tx)

\* The receiver is never behind the transmitter, nor ahead of what was sent.
WindowsOverlap ==
  tx.firstSeqNum <= rx.firstSeqNum /\ rx.firstSeqNum <= tx.seqNum

\* As long as no status is stale, what the transmitter takes for received, and
\* what the receiver has moved its window past, did arrive, or was given up.
Finished == taken \cup given

NothingSkipped ==
  ~stale =>
    /\ \A i \in Slot : tx.received[i] => tx.firstSeqNum + i \in Finished
    /\ 0 .. rx.firstSeqNum - 1 \subseteq Finished

\* Every PDU in the receive buffer has its status, and every status its PDU,
\* unless moveRxWindow has left a stale one, which it can only do if the receive
\* window is less than twice the transmit window.
StatusIsTrue ==
  /\ \A i \in RxSlot : rx.pduBuffer[i] # NoPdu => rx.received[i]
  /\ ~stale => \A i \in RxSlot : rx.received[i] => rx.pduBuffer[i] # NoPdu
  /\ stale => RxWindowSize < 2 * TxWindowSize

\* As long as every SDU fits in one PDU, each goes up at most once, and no order
\* of arrival is an error; and if no status is stale, those that the window has
\* passed did go up or were given up.
AllWhole == \A n \in DOMAIN pdus : IsWhole(pdus[n])

WholeSdusGoUp ==
  AllWhole =>
    /\ error # "order"
    /\ \A s \in Sdu : delivered[s] <= 1
    /\ ~stale => \A sn \in 0 .. rx.firstSeqNum - 1 :
         delivered[pdus[sn + 1].sdu] = 1 \/ sn \in given

----------------------------------------------------------------------------
(* Why the safety properties hold: their inductive strengthening.          *)

\* PDUs are numbered without gaps, and the window is as full as it can be.
Numbered == \A n \in DOMAIN pdus : pdus[n].sn = n - 1

TxOK == Numbered /\ InOrder(tx, pdus) /\ tx.seqNum = Fill(tx, pdus)

\* What counts as finished was sent, and what is discarded was given up.
HistoryOK ==
  /\ NothingSkipped
  /\ Finished \subseteq 0 .. tx.seqNum - 1
  /\ \A i \in Slot : tx.discarded[i] => tx.firstSeqNum + i \in given

\* The receiver may move its window to sn.
Movable(sn) == sn <= tx.seqNum /\ (~stale => 0 .. sn - 1 \subseteq Finished)

\* However old, a message says nothing that is not so, but for what stale status
\* made it say.
MessageOK(m) ==
  /\ m.type = "DATA" =>
       m.pdu.sn \in 0 .. tx.seqNum - 1 /\ m.pdu = pdus[m.pdu.sn + 1]
  /\ m.type = "ACK" /\ ~stale => 0 .. m.lastSn \cup m.acked \subseteq Finished
  /\ m.type = "MRW" => Movable(m.lastSn)
  /\ m.type = "MRW_ACK" => m.sn <= rx.firstSeqNum

MessagesOK ==
  /\ \A m \in net : MessageOK(m)
  /\ \A id \in MrwId : tx.mrwRtxQueue[id] # NoMrw => Movable(tx.mrwRtxQueue[id])

\* The receive buffer holds PDUs that arrived, at their places.
RxOK ==
  /\ WindowsOverlap /\ StatusIsTrue
  /\ \A i \in RxSlot : rx.pduBuffer[i] # NoPdu =>
       LET sn == rx.firstSeqNum + i IN
       sn < tx.seqNum /\ sn \in taken /\ rx.pduBuffer[i] = pdus[sn + 1]

\* A whole SDU that arrived was passed up, unless it was given up before, and
\* one that was passed up is in the buffer or behind the window.
WholeOK ==
  AllWhole =>
    /\ error # "order"
    /\ sdus = Len(pdus)
    /\ \A n \in DOMAIN pdus : pdus[n].sdu = n - 1 /\ IsFirst(pdus[n])
    /\ \A s \in Sdu :
         /\ delivered[s] <= 1
         /\ ~stale /\ s \in taken => delivered[s] = 1 \/ s \in given
         /\ delivered[s] = 1 =>
              \/ s < rx.firstSeqNum
              \/ /\ s - rx.firstSeqNum \in RxSlot
                 /\ rx.pduBuffer[s - rx.firstSeqNum] # NoPdu

Inv ==
  TypeOK /\ NeverThrows /\ TxOK /\ HistoryOK /\ MessagesOK /\ RxOK /\ WholeOK

----------------------------------------------------------------------------
(* The code does not always do what it says.                               *)

\* AmRxQueue.h:47: "For each AM PDU a received status variable is kept"; not so
\* where moveRxWindow leaves the status of one that is gone.
ReceivedIsBuffered ==
  \A i \in RxSlot : rx.received[i] <=> rx.pduBuffer[i] # NoPdu

\* AmRxQueue.h:99: passUp gets the position of "the SDU that has been
\* completely received".
OnlyCompleteSdusGoUp ==
  \A s \in Sdu : delivered[s] > 0 =>
    \A n \in DOMAIN pdus : pdus[n].sdu = s => pdus[n].sn \in taken

----------------------------------------------------------------------------
(* Implementation and liveness.                                            *)

Service == INSTANCE LteRlcAmService WITH
  WindowSize <- TxWindowSize,
  offered <- Len(pdus), base <- tx.firstSeqNum, next <- tx.seqNum,
  settled <- Finished, broken <- stale,
  MayBreak <- RxWindowSize < 2 * TxWindowSize

\* The two queues implement one sliding window, which may break if the receive
\* window is less than twice the transmit window.
ImplementsService == Service!Spec

\* The window always moves on: no PDU stays in it for ever, whatever is lost.
EveryPduLeavesTheWindow ==
  \A sn \in 0 .. MaxPdus - 1 :
    (sn < Len(pdus)) ~> (tx.firstSeqNum > sn \/ ~Running)
=============================================================================
