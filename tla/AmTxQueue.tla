----------------------------- MODULE AmTxQueue -----------------------------
(***************************************************************************)
(* The transmit queue of RLC acknowledged mode (AmTxQueue.cc), as          *)
(* operators on one queue q.  The queue keeps a window of PDUs, each with  *)
(* a retransmission timer, until the receiver confirms that it has moved   *)
(* its own window past them (move-receive-window command, MRW).            *)
(*                                                                         *)
(* A PDU is [sn, sdu, firstSn, lastSn]; its SDU is cut into the PDUs       *)
(* firstSn .. lastSn.  Fragments enter the window in order and nothing is  *)
(* skipped, so sduQueue_, currentSdu_ and fragDesc_ are together the       *)
(* sequence `pdus' of all fragments of the SDUs given to enque(): the PDU  *)
(* numbered sn is pdus[sn + 1], and those after seqNum are still to come.  *)
(*                                                                         *)
(* An operation X that can end in a run-time error has a predicate         *)
(* XThrows: the error ends the simulation.                                 *)
(***************************************************************************)
EXTENDS Integers, Sequences, FiniteSetsExt

CONSTANTS
  TxWindowSize,  \* txWindowSize
  MaxRtx,        \* maxRtx
  MrwId          \* the numbers an MRW command can have

ASSUME AmTxAssumption ==
  /\ TxWindowSize \in Nat \ {0}
  /\ MaxRtx \in Nat

IsFirst(pdu) == pdu.firstSn = pdu.sn
IsLast(pdu) == pdu.lastSn = pdu.sn
IsWhole(pdu) == pdu.firstSn = pdu.lastSn

Slot == 0 .. TxWindowSize - 1

NoPdu == [sn |-> -1, sdu |-> -1, firstSn |-> -1, lastSn |-> -1]
FreeSlot == [pdu |-> NoPdu, txNumber |-> 0]
NoMrw == -1

NewTxQueue ==
  [firstSeqNum |-> 0, seqNum |-> 0,
   pduRtxQueue |-> [i \in Slot |-> FreeSlot],
   received |-> [i \in Slot |-> FALSE],
   discarded |-> [i \in Slot |-> FALSE],
   pduTimer |-> {},                          \* the PDUs whose timer runs
   mrwRtxQueue |-> [id \in MrwId |-> NoMrw], \* each with its timer
   lastMrw |-> NoMrw,
   bufferStatusTimer |-> FALSE]

\* A sequence number or SDU number, or -1 for none.
Number == Nat \cup {-1}
PduType == [sn : Number, sdu : Number, firstSn : Number, lastSn : Number]

TxQueueType ==
  [firstSeqNum : Nat, seqNum : Nat,
   pduRtxQueue : [Slot -> [pdu : PduType, txNumber : Nat]],
   received : [Slot -> BOOLEAN], discarded : [Slot -> BOOLEAN],
   pduTimer : SUBSET Nat, mrwRtxQueue : [MrwId -> Number],
   lastMrw : MrwId \cup {NoMrw}, bufferStatusTimer : BOOLEAN]

Index(q, sn) == sn - q.firstSeqNum
Used(q) == q.seqNum - q.firstSeqNum
Window(q) == q.firstSeqNum .. q.seqNum - 1
InWindow(q, sn) == Index(q, sn) \in Slot

----------------------------------------------------------------------------
(* addPdus: fill the window, and start the timers of the new PDUs.         *)

\* Mutant of Fill: the last slot of the window stays empty.
FillButOne(q, pdus) ==
  IF Len(pdus) < q.firstSeqNum + TxWindowSize - 1
  THEN Len(pdus) ELSE q.firstSeqNum + TxWindowSize - 1

\* The number after the last PDU the window has room for.
Fill(q, pdus) ==
  IF Len(pdus) < q.firstSeqNum + TxWindowSize
  THEN Len(pdus) ELSE q.firstSeqNum + TxWindowSize

NewPdus(q, pdus) == q.seqNum .. Fill(q, pdus) - 1

AddPdusThrows(q, pdus) ==
  \E sn \in NewPdus(q, pdus) :
    LET i == Index(q, sn) IN
    q.pduRtxQueue[i] # FreeSlot \/ q.received[i] \/ q.discarded[i]

AddPdus(q, pdus) ==
  LET new == NewPdus(q, pdus) IN
  [q EXCEPT
     !.seqNum = Fill(q, pdus),
     !.pduRtxQueue = [i \in Slot |->
        IF q.firstSeqNum + i \in new
        THEN [pdu |-> pdus[q.firstSeqNum + i + 1], txNumber |-> 0]
        ELSE @[i]],
     !.pduTimer = @ \cup new,
     !.bufferStatusTimer = @ \/ new # {}]

----------------------------------------------------------------------------
(* checkForMrw, sendMrw: if the window begins with PDUs that are received  *)
(* or discarded, ask the receiver to move past them.                       *)

Settled(q, i) == q.received[i] \/ q.discarded[i]

\* Mutant of MrwSeqNum: one PDU more.
MrwSeqNumTooFar(q) ==
  1 + Min({sn \in q.firstSeqNum .. q.seqNum : sn < q.seqNum => ~Settled(q, Index(q, sn))})

\* The first PDU of the window that is neither.
MrwSeqNum(q) ==
  Min({sn \in q.firstSeqNum .. q.seqNum : sn < q.seqNum => ~Settled(q, Index(q, sn))})

MrwDue(q) == MrwSeqNum(q) > q.firstSeqNum

SendMrw(q, id) ==
  [q EXCEPT !.mrwRtxQueue[id] = MrwSeqNum(q), !.lastMrw = id]

----------------------------------------------------------------------------
(* recvCumulativeAck and recvAck.  A received PDU keeps its slot until the *)
(* window moves.                                                           *)

CumulativeAckIgnored(q, lastSn) == lastSn < q.firstSeqNum

\* received_.at() has no element TxWindowSize.
CumulativeAckThrows(q, lastSn) == lastSn >= q.firstSeqNum + TxWindowSize

BitmapAckThrows(q, acked) == \E sn \in acked : Index(q, sn) >= TxWindowSize

\* Mutant of MarkReceived: the timers run on.
MarkReceivedTiming(q, acked) ==
  [q EXCEPT !.received = [i \in Slot |-> @[i] \/ q.firstSeqNum + i \in acked]]

MarkReceived(q, acked) ==
  [q EXCEPT !.received = [i \in Slot |-> @[i] \/ q.firstSeqNum + i \in acked],
            !.pduTimer = @ \ {sn \in acked : sn >= q.firstSeqNum}]

RecvCumulativeAck(q, lastSn) == MarkReceived(q, q.firstSeqNum .. lastSn)

----------------------------------------------------------------------------
(* moveTxWindow: forget the PDUs before sn, then refill the window.        *)

MoveTxWindowThrows(q, sn) ==
  \/ \E i \in Slot : i < Used(q) /\ q.pduRtxQueue[i] = FreeSlot
  \/ Index(q, sn) > Used(q)
  \/ \E i \in Slot : i >= Used(q) /\ q.pduRtxQueue[i] # FreeSlot

ShiftTxWindow(q, sn) ==
  LET pos == Index(q, sn)
      Kept(i) == i + pos < Used(q)
  IN [q EXCEPT
        !.firstSeqNum = sn,
        !.pduRtxQueue = [i \in Slot |-> IF Kept(i) THEN @[i + pos] ELSE FreeSlot],
        !.received = [i \in Slot |-> Kept(i) /\ @[i + pos]],
        !.discarded = [i \in Slot |-> Kept(i) /\ @[i + pos]],
        !.pduTimer = {t \in @ : t >= sn}]

\* recvMrwAck: the command need not be repeated.
RecvMrwAck(q, id) == [q EXCEPT !.mrwRtxQueue[id] = NoMrw]

----------------------------------------------------------------------------
(* pduTimerHandle.                                                         *)

PduTimerThrows(q, sn) ==
  \/ ~InWindow(q, sn)
  \/ q.pduRtxQueue[Index(q, sn)] = FreeSlot
  \/ q.received[Index(q, sn)]

Attempts(q, sn) == q.pduRtxQueue[Index(q, sn)].txNumber + 1

\* Mutant of Retransmit: the copy goes behind the PDUs of the window.
RetransmitBehind(q, sn) ==
  LET i == Index(q, sn)
      last == IF Used(q) = TxWindowSize THEN i ELSE Used(q)
  IN [q EXCEPT !.pduRtxQueue =
        [@ EXCEPT ![i] = FreeSlot, ![last] = [q.pduRtxQueue[i] EXCEPT !.txNumber = @ + 1]]]

\* The copy of the PDU goes to the first free slot of the array (cArray::add).
Retransmit(q, sn) ==
  LET i == Index(q, sn)
      without == [q.pduRtxQueue EXCEPT ![i] = FreeSlot]
      first == CHOOSE j \in Slot : /\ without[j] = FreeSlot
                                   /\ \A k \in 0 .. j - 1 : without[k] # FreeSlot
  IN [q EXCEPT !.pduRtxQueue =
        [without EXCEPT ![first] = [q.pduRtxQueue[i] EXCEPT !.txNumber = @ + 1]]]

\* discard: the PDU, and the neighbours that carry the same SDU.
SameSdu(q, i, j) == q.pduRtxQueue[i].pdu.sdu = q.pduRtxQueue[j].pdu.sdu

Discard(q, sn) ==
  LET at == Index(q, sn)
      gone == {i \in Slot :
                 /\ i < Used(q)
                 /\ \A j \in Slot : (at <= j /\ j <= i) \/ (i <= j /\ j <= at)
                                       => SameSdu(q, at, j)}
  IN [q EXCEPT !.discarded = [i \in Slot |-> @[i] \/ i \in gone],
               !.pduTimer = @ \ {q.firstSeqNum + i : i \in gone}]

----------------------------------------------------------------------------
(* The order in the queue.                                                 *)

\* A PDU of the window is in the slot its number gives, although a
\* retransmission puts it back in the first free slot.
InTheirSlots(q, pdus) ==
  \A i \in Slot :
    q.pduRtxQueue[i].pdu =
      IF i < Used(q) THEN pdus[q.firstSeqNum + i + 1] ELSE NoPdu

\* The retransmission timer of a PDU runs exactly while the PDU is in the
\* window, not acknowledged and not given up.
TimersRight(q) == q.pduTimer = {sn \in Window(q) : ~Settled(q, Index(q, sn))}

\* The slots behind the window are free.
FreeBehind(q) ==
  \A i \in Slot : i >= Used(q) => q.pduRtxQueue[i] = FreeSlot /\ ~q.discarded[i]

InOrder(q, pdus) ==
  /\ q.firstSeqNum <= q.seqNum /\ q.seqNum <= Fill(q, pdus)
  /\ InTheirSlots(q, pdus) /\ TimersRight(q) /\ FreeBehind(q)
=============================================================================
