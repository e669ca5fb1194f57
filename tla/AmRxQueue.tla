----------------------------- MODULE AmRxQueue -----------------------------
(***************************************************************************)
(* The receive queue of RLC acknowledged mode (AmRxQueue.cc), as operators *)
(* on one queue r.  It buffers the PDUs of its window, passes an SDU up    *)
(* when it finds all its PDUs, reports what it has received, and moves its *)
(* window only when the transmitter says so.                               *)
(***************************************************************************)
EXTENDS AmTxQueue

CONSTANT RxWindowSize  \* rxWindowSize

ASSUME AmRxAssumption == RxWindowSize \in Nat \ {0}

RxSlot == 0 .. RxWindowSize - 1
NoSdu == -1

NewRxQueue ==
  [firstSeqNum |-> 0, seqNum |-> 0,
   received |-> [i \in RxSlot |-> FALSE],
   pduBuffer |-> [i \in RxSlot |-> NoPdu],
   firstSdu |-> 0,
   flowControlInfo |-> FALSE,  \* the way back is known
   timer |-> FALSE,            \* the status report timer runs
   ackSent |-> TRUE]           \* lastSentAck_ is less than ackReportInterval_ ago

RxQueueType ==
  [firstSeqNum : Nat, seqNum : Nat,
   received : [RxSlot -> BOOLEAN], pduBuffer : [RxSlot -> PduType],
   firstSdu : Number, flowControlInfo : BOOLEAN,
   timer : BOOLEAN, ackSent : BOOLEAN]

----------------------------------------------------------------------------
(* checkCompleteSdu: is the SDU of the PDU just put at index complete?     *)

\* Where a search for the other PDUs of the SDU ends.
Ends(r, i, sdu) ==
  \/ ~r.received[i]
  \/ r.pduBuffer[i] = NoPdu
  \/ r.pduBuffer[i].sdu # sdu
  \/ IsFirst(r.pduBuffer[i])
  \/ IsLast(r.pduBuffer[i])

\* What the search finds at its end i, which may be its goal; a PDU of another
\* SDU, or none where received_ says there is one, is a run-time error.
FoundAt(r, i, sdu, isGoal) ==
  CASE ~r.received[i] -> "missing"
    [] r.received[i] /\ r.pduBuffer[i].sdu = sdu /\ isGoal -> "found"
    [] OTHER -> "error"

SearchBackward(r, index) ==
  LET sdu == r.pduBuffer[index].sdu
      ends == {i \in RxSlot : i < index /\ Ends(r, i, sdu)}
  IN IF IsFirst(r.pduBuffer[index]) THEN "found"
     ELSE IF index = 0 THEN IF r.firstSdu = sdu THEN "found" ELSE "error"
     ELSE IF ends = {} THEN "found"
     ELSE FoundAt(r, Max(ends), sdu, IsFirst(r.pduBuffer[Max(ends)]))

SearchForward(r, index) ==
  LET sdu == r.pduBuffer[index].sdu
      ends == {i \in RxSlot : i > index /\ Ends(r, i, sdu)}
  IN IF IsLast(r.pduBuffer[index]) \/ ends = {} THEN "found"
     ELSE FoundAt(r, Min(ends), sdu, IsLast(r.pduBuffer[Min(ends)]))

Verdict(r, index) ==
  LET back == SearchBackward(r, index) IN
  IF back = "found" THEN SearchForward(r, index) ELSE back

\* Mutant of PassedUp: also for a whole PDU.
PassedUpFirst(r, index) == 0

\* The position handed to passUp: firstIndex is set to the first position of
\* the window after a backward search, and left at -1 where none was needed.
PassedUp(r, index) ==
  LET pdu == r.pduBuffer[index] IN
  IF IsWhole(pdu) THEN index ELSE IF IsFirst(pdu) THEN -1 ELSE 0

\* check_and_cast of a position without a PDU is a run-time error.
PassUpThrows(r, i) == i \notin {j \in RxSlot : r.pduBuffer[j] # NoPdu}

----------------------------------------------------------------------------
(* sendStatusReport: all received PDUs up to the first gap as one number,  *)
(* those after it in a bitmap.                                             *)

\* Mutant of Cumulative: counts the first gap.
CumulativeAndOne(r) ==
  1 + Min({n \in 0 .. RxWindowSize : n \in RxSlot => ~r.received[n]})

Cumulative(r) == Min({n \in 0 .. RxWindowSize : n \in RxSlot => ~r.received[n]})

LastSn(r) == r.firstSeqNum + Cumulative(r) - 1

\* Mutant of Bitmap: its first position is the one after the gap.
BitmapFromWindow(r) ==
  {r.firstSeqNum + i + 1 : i \in {j \in RxSlot : j >= Cumulative(r) /\ r.received[j]}}

Bitmap(r) ==
  {r.firstSeqNum + i : i \in {j \in RxSlot : j >= Cumulative(r) /\ r.received[j]}}

StatusReport(r) == [type |-> "ACK", lastSn |-> LastSn(r), acked |-> Bitmap(r)]

----------------------------------------------------------------------------
(* enque, for a DATA PDU.                                                  *)

Position(r, pdu) == pdu.sn - r.firstSeqNum

\* The PDU is noted, and its way back: the timer runs from the first PDU on.
NoteArrival(r, pdu) ==
  [r EXCEPT !.timer = TRUE, !.flowControlInfo = TRUE,
            !.seqNum = IF Position(r, pdu) \in RxSlot THEN pdu.sn + 1 ELSE @]

OutOfSequence(r, pdu) == pdu.sn # r.seqNum

BufferPdu(r, pdu) ==
  LET i == Position(r, pdu) IN
  [r EXCEPT !.pduBuffer[i] = pdu, !.received[i] = TRUE,
            !.firstSdu = IF @ = NoSdu THEN pdu.sdu ELSE @]

----------------------------------------------------------------------------
(* moveRxWindow.  The loop that shifts the vectors clears the positions it *)
(* reads, so a position below pos that it does not write keeps its value.  *)

MoveRxWindowIgnored(r, sn) == sn <= r.firstSeqNum
MoveRxWindowThrows(r, sn) == sn - r.firstSeqNum > RxWindowSize

\* Some position that the move does not write keeps the status of a PDU that
\* is no longer there.
LeavesStale(r, sn) ==
  LET pos == sn - r.firstSeqNum IN
  \E i \in RxSlot : i < pos /\ i + pos \notin RxSlot /\ r.received[i]

\* Mutant of MoveRxWindow: the status of the positions is not shifted.
MoveRxWindowKeeping(r, sn) ==
  LET pos == sn - r.firstSeqNum
      Read(i) == i + pos \in RxSlot
      final == r.pduBuffer[pos - 1]
  IN [r EXCEPT
        !.firstSeqNum = sn,
        !.pduBuffer = [i \in RxSlot |-> IF Read(i) THEN @[i + pos] ELSE NoPdu],
        !.firstSdu = IF final = NoPdu \/ IsLast(final) THEN NoSdu ELSE final.sdu]

MoveRxWindow(r, sn) ==
  LET pos == sn - r.firstSeqNum
      Read(i) == i + pos \in RxSlot
      final == r.pduBuffer[pos - 1]
  IN [r EXCEPT
        !.firstSeqNum = sn,
        !.received = [i \in RxSlot |-> IF Read(i) THEN @[i + pos]
                                       ELSE i < pos /\ @[i]],
        !.pduBuffer = [i \in RxSlot |-> IF Read(i) THEN @[i + pos] ELSE NoPdu],
        !.firstSdu = IF final = NoPdu \/ IsLast(final) THEN NoSdu ELSE final.sdu]
=============================================================================
