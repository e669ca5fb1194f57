--------------------------- MODULE LteRlcAmProofs ---------------------------
(***************************************************************************)
(* The invariant of RLC AM, for any two windows, whichever is larger, any  *)
(* number of attempts and any number of PDUs.                              *)
(*                                                                         *)
(* The transmitter only ever calls a PDU received, or asks the receiver to *)
(* move past it, when it has arrived or was given up; that is so of every  *)
(* message, however long it is underway, because what arrived, what was    *)
(* sent and the receiver's window only grow.  It ends where moveRxWindow   *)
(* leaves a stale status: a move never exceeds the transmit window, so it  *)
(* can only leave one if the receive window is less than twice as large.   *)
(* From then on the receiver may acknowledge what never came.  The order   *)
(* of the transmit queue and of the two windows does not depend on that.   *)
(***************************************************************************)
EXTENDS LteRlcAm, TLAPS, WellFoundedInduction

----------------------------------------------------------------------------
(* What the operations of the two queues keep, for any windows.             *)

\* A set of naturals has a least element.
LEMMA LeastElement ==
  ASSUME NEW S \in SUBSET Nat, S # {}
  PROVE  Min(S) \in S /\ \A n \in S : Min(S) <= n
<1>1. PICK x \in S : \A y \in S : ~(<<y, x>> \in OpToRel(<, Nat))
  BY NatLessThanWellFounded, WFMin, Zenon
<1>2. ASSUME NEW y \in S PROVE x <= y
  <2>1. x \in Nat /\ y \in Nat
    OBVIOUS
  <2>2. ~(<<y, x>> \in OpToRel(<, Nat))
    BY <1>1
  <2>3. y < x => <<y, x>> \in {ss \in Nat \X Nat : ss[1] < ss[2]}
    BY <2>1
  <2> QED BY <2>1, <2>2, <2>3 DEF OpToRel
<1> QED BY <1>1, <1>2 DEF Min

----------------------------------------------------------------------------
(* The transmit queue.                                                     *)

\* The PDUs p are numbered from 0.
NumberedPdus(p) == p \in Seq(PduType) /\ \A n \in DOMAIN p : p[n].sn = n - 1

QueueOver(q, p) == q \in TxQueueType /\ NumberedPdus(p) /\ InOrder(q, p)

LEMMA QueueFacts ==
  ASSUME NEW q, NEW p, QueueOver(q, p)
  PROVE  /\ TxWindowSize \in Nat /\ TxWindowSize > 0 /\ MaxRtx \in Nat
         /\ q.firstSeqNum \in Nat /\ q.seqNum \in Nat
         /\ q.firstSeqNum <= q.seqNum
         /\ q.seqNum <= q.firstSeqNum + TxWindowSize /\ q.seqNum <= Len(p)
         /\ Used(q) \in 0 .. TxWindowSize
         /\ \A i \in Slot : i < Used(q) =>
              /\ q.firstSeqNum + i + 1 \in DOMAIN p
              /\ q.pduRtxQueue[i].pdu = p[q.firstSeqNum + i + 1]
              /\ q.pduRtxQueue[i].pdu.sn = q.firstSeqNum + i
              /\ q.pduRtxQueue[i] # FreeSlot
<1>1. /\ TxWindowSize \in Nat /\ TxWindowSize > 0 /\ MaxRtx \in Nat
      /\ q.firstSeqNum \in Nat /\ q.seqNum \in Nat /\ Len(p) \in Nat
  BY AmTxAssumption DEF QueueOver, TxQueueType, NumberedPdus
<1>2. /\ q.firstSeqNum <= q.seqNum
      /\ q.seqNum <= q.firstSeqNum + TxWindowSize /\ q.seqNum <= Len(p)
  BY <1>1 DEF QueueOver, InOrder, Fill
<1>3. Used(q) \in 0 .. TxWindowSize
  BY <1>1, <1>2 DEF Used
<1>4. ASSUME NEW i \in Slot, i < Used(q)
      PROVE  /\ q.firstSeqNum + i + 1 \in DOMAIN p
             /\ q.pduRtxQueue[i].pdu = p[q.firstSeqNum + i + 1]
             /\ q.pduRtxQueue[i].pdu.sn = q.firstSeqNum + i
             /\ q.pduRtxQueue[i] # FreeSlot
  <2>1. i \in Nat
    BY <1>1 DEF Slot
  <2>2. q.firstSeqNum + i + 1 \in 1 .. Len(p)
    BY <1>1, <1>2, <1>4, <2>1 DEF Used
  <2>3. DOMAIN p = 1 .. Len(p)
    BY DEF QueueOver, NumberedPdus
  <2>4. q.pduRtxQueue[i].pdu = p[q.firstSeqNum + i + 1]
    BY <1>4 DEF QueueOver, InOrder, InTheirSlots
  <2>5. q.pduRtxQueue[i].pdu.sn = q.firstSeqNum + i
    BY <2>1, <2>2, <2>3, <2>4, <1>1 DEF QueueOver, NumberedPdus
  <2>6. FreeSlot.pdu.sn = -1
    BY DEF FreeSlot, NoPdu
  <2> QED BY <2>1, <2>2, <2>3, <2>4, <2>5, <2>6, <1>1
<1> QED BY <1>1, <1>2, <1>3, <1>4

\* addPdus finds its slots free, unless a PDU that was never sent has been
\* acknowledged.
LEMMA AddPdusFindsRoom ==
  ASSUME NEW q, NEW p, QueueOver(q, p),
         \A i \in Slot : i >= Used(q) => ~q.received[i]
  PROVE  ~AddPdusThrows(q, p)
<1>1. ASSUME NEW sn \in NewPdus(q, p)
      PROVE  Index(q, sn) \in Slot /\ Index(q, sn) >= Used(q)
  <2>1. Len(p) \in Nat
    BY DEF QueueOver, NumberedPdus
  <2>2. Fill(q, p) \in Nat /\ Fill(q, p) <= q.firstSeqNum + TxWindowSize
    BY <2>1, QueueFacts DEF Fill
  <2> QED BY <2>2, QueueFacts DEF NewPdus, Index, Slot, Used
<1>2. FreeBehind(q)
  BY DEF QueueOver, InOrder
<1> QED BY <1>1, <1>2 DEF AddPdusThrows, FreeBehind

\* addPdus fills the window, and leaves the PDUs that were in it as they are.
LEMMA AddPdusKeeps ==
  ASSUME NEW q, NEW p, QueueOver(q, p), ~AddPdusThrows(q, p)
  PROVE  /\ QueueOver(AddPdus(q, p), p)
         /\ AddPdus(q, p).seqNum = Fill(AddPdus(q, p), p)
         /\ AddPdus(q, p).seqNum >= q.seqNum
         /\ AddPdus(q, p).firstSeqNum = q.firstSeqNum
         /\ AddPdus(q, p).received = q.received
         /\ AddPdus(q, p).discarded = q.discarded
         /\ AddPdus(q, p).mrwRtxQueue = q.mrwRtxQueue
<1> DEFINE a == AddPdus(q, p)
           fill == Fill(q, p)
<1>1. /\ q \in TxQueueType /\ NumberedPdus(p) /\ InOrder(q, p)
      /\ Len(p) \in Nat
  BY DEF QueueOver, NumberedPdus
<1>a. /\ q.firstSeqNum \in Nat /\ q.seqNum \in Nat /\ TxWindowSize \in Nat
      /\ q.firstSeqNum <= q.seqNum
  BY QueueFacts
<1>2. fill \in Nat /\ q.seqNum <= fill /\ fill <= Len(p)
      /\ fill <= q.firstSeqNum + TxWindowSize
  BY <1>1, <1>a DEF Fill, InOrder
<1>3. /\ a.seqNum = fill /\ a.firstSeqNum = q.firstSeqNum
      /\ a.received = q.received /\ a.discarded = q.discarded
      /\ a.mrwRtxQueue = q.mrwRtxQueue
      /\ a.pduTimer = q.pduTimer \cup NewPdus(q, p)
      /\ a.pduRtxQueue = [i \in Slot |->
           IF q.firstSeqNum + i \in NewPdus(q, p)
           THEN [pdu |-> p[q.firstSeqNum + i + 1], txNumber |-> 0]
           ELSE q.pduRtxQueue[i]]
  BY <1>1 DEF AddPdus, TxQueueType
<1>4. \A i \in Slot : q.firstSeqNum + i \in NewPdus(q, p)
                        <=> Used(q) <= i /\ i < fill - q.firstSeqNum
  <2> SUFFICES ASSUME NEW i \in Slot
               PROVE  q.firstSeqNum + i \in NewPdus(q, p)
                        <=> Used(q) <= i /\ i < fill - q.firstSeqNum
    OBVIOUS
  <2>1. NewPdus(q, p) = q.seqNum .. fill - 1
    BY DEF NewPdus
  <2>2. Used(q) = q.seqNum - q.firstSeqNum /\ i \in Nat
    BY <1>a DEF Used, Slot
  <2> HIDE DEF fill
  <2> QED BY <1>2, <1>a, <2>1, <2>2
<1>5. ASSUME NEW sn \in NewPdus(q, p)
      PROVE  Index(q, sn) \in Slot /\ Index(q, sn) >= Used(q)
             /\ sn \in Nat /\ sn + 1 \in DOMAIN p
  <2>1. sn \in q.seqNum .. fill - 1
    BY DEF NewPdus
  <2>2. Used(q) = q.seqNum - q.firstSeqNum /\ Index(q, sn) = sn - q.firstSeqNum
    BY DEF Used, Index
  <2>3. DOMAIN p = 1 .. Len(p)
    BY <1>1 DEF NumberedPdus
  <2> HIDE DEF fill
  <2>4. sn \in Nat /\ q.seqNum <= sn /\ sn < fill
    BY <1>2, <1>a, <2>1
  <2>5. sn + 1 \in DOMAIN p
    BY <1>1, <1>2, <2>3, <2>4
  <2>6. Index(q, sn) \in 0 .. TxWindowSize - 1 /\ Index(q, sn) >= Used(q)
    BY <1>2, <1>a, <2>2, <2>4
  <2> QED BY <2>4, <2>5, <2>6 DEF Slot
<1>6. \A sn \in NewPdus(q, p) : ~Settled(q, Index(q, sn))
  BY DEF AddPdusThrows, Settled
<1>7. a \in TxQueueType
  <2>1. a.pduRtxQueue \in [Slot -> [pdu : PduType, txNumber : Nat]]
    <3>1. \A sn \in NewPdus(q, p) : p[sn + 1] \in PduType
      BY <1>1, <1>5 DEF NumberedPdus
    <3>2. \A i \in Slot : i \in Nat /\ q.firstSeqNum \in Nat
      BY QueueFacts DEF Slot
    <3> QED BY <1>1, <1>3, <3>1, <3>2 DEF TxQueueType
  <2>2. a.pduTimer \in SUBSET Nat
    BY <1>1, <1>3, <1>5 DEF TxQueueType
  <2> QED BY <1>1, <1>2, <2>1, <2>2 DEF AddPdus, TxQueueType
<1>8. a.seqNum = Fill(a, p)
  BY <1>3 DEF Fill
<1>9. Used(a) = fill - q.firstSeqNum
  BY <1>3 DEF Used
<1> HIDE DEF a, fill
<1>10. InTheirSlots(a, p)
  <2> SUFFICES ASSUME NEW i \in Slot
               PROVE  a.pduRtxQueue[i].pdu =
                        IF i < Used(a) THEN p[a.firstSeqNum + i + 1] ELSE NoPdu
    BY DEF InTheirSlots
  <2>1. i \in Nat /\ q.firstSeqNum \in Nat /\ q.seqNum \in Nat
    BY QueueFacts DEF Slot
  <2>2. CASE q.firstSeqNum + i \in NewPdus(q, p)
    BY <2>2, <1>3, <1>4, <1>9
  <2>3. CASE q.firstSeqNum + i \notin NewPdus(q, p)
    <3>1. a.pduRtxQueue[i] = q.pduRtxQueue[i]
      BY <2>3, <1>3
    <3>2. i < Used(a) <=> i < Used(q)
      BY <2>1, <2>3, <1>2, <1>4, <1>9 DEF Used
    <3> QED BY <3>1, <3>2, <1>1, <1>3 DEF InOrder, InTheirSlots
  <2> QED BY <2>2, <2>3
<1>11. TimersRight(a)
  <2>1. Window(a) = Window(q) \cup NewPdus(q, p)
    BY <1>2, <1>3, QueueFacts DEF Window, NewPdus, fill
  <2>2. \A sn \in NewPdus(q, p) : ~Settled(a, Index(a, sn))
    BY <1>3, <1>6 DEF Settled, Index
  <2>3. \A sn : Settled(a, Index(a, sn)) <=> Settled(q, Index(q, sn))
    BY <1>3 DEF Settled, Index
  <2> QED BY <2>1, <2>2, <2>3, <1>1, <1>3 DEF InOrder, TimersRight
<1>12. FreeBehind(a)
  BY <1>1, <1>2, <1>3, <1>4, <1>9, QueueFacts DEF InOrder, FreeBehind, Slot, Used
<1>13. InOrder(a, p)
  BY <1>2, <1>3, <1>8, <1>10, <1>11, <1>12, QueueFacts DEF InOrder, fill
<1>14. QueueOver(a, p)
  BY <1>1, <1>7, <1>13 DEF QueueOver
<1>15. /\ a.seqNum >= q.seqNum /\ a.firstSeqNum = q.firstSeqNum
       /\ a.received = q.received /\ a.discarded = q.discarded
       /\ a.mrwRtxQueue = q.mrwRtxQueue
  BY <1>2, <1>3, QueueFacts
<1> QED BY <1>8, <1>14, <1>15 DEF a

\* What the order in a queue depends on.
LEMMA SameOrder ==
  ASSUME NEW q, NEW p, QueueOver(q, p),
         NEW r \in TxQueueType,
         r.firstSeqNum = q.firstSeqNum, r.seqNum = q.seqNum,
         r.received = q.received, r.discarded = q.discarded,
         r.pduTimer = q.pduTimer,
         \A i \in Slot : r.pduRtxQueue[i].pdu = q.pduRtxQueue[i].pdu,
         \A i \in Slot : i >= Used(q) => r.pduRtxQueue[i] = q.pduRtxQueue[i]
  PROVE  QueueOver(r, p)
<1>1. InTheirSlots(r, p)
  BY DEF QueueOver, InOrder, InTheirSlots, Used
<1>2. TimersRight(r)
  BY DEF QueueOver, InOrder, TimersRight, Settled, Window, Index
<1>3. FreeBehind(r)
  BY DEF QueueOver, InOrder, FreeBehind, Used
<1>4. r.firstSeqNum <= r.seqNum /\ r.seqNum <= Fill(r, p)
  BY DEF QueueOver, InOrder, Fill
<1> QED BY <1>1, <1>2, <1>3, <1>4 DEF QueueOver, InOrder

\* checkForMrw asks the receiver to move past settled PDUs only.
LEMMA MrwFacts ==
  ASSUME NEW q, NEW p, QueueOver(q, p)
  PROVE  /\ MrwSeqNum(q) \in q.firstSeqNum .. q.seqNum
         /\ MrwSeqNum(q) \in Nat
         /\ \A sn \in q.firstSeqNum .. MrwSeqNum(q) - 1 :
              Index(q, sn) \in Slot /\ Settled(q, Index(q, sn))
<1> DEFINE S == {sn \in q.firstSeqNum .. q.seqNum :
                   sn < q.seqNum => ~Settled(q, Index(q, sn))}
<1>1. S \in SUBSET Nat /\ q.seqNum \in S
  BY QueueFacts
<1>2. MrwSeqNum(q) = Min(S)
  BY DEF MrwSeqNum
<1> HIDE DEF S
<1>3. MrwSeqNum(q) \in S /\ \A sn \in S : MrwSeqNum(q) <= sn
  BY <1>1, <1>2, LeastElement
<1> USE DEF S
<1>4. MrwSeqNum(q) \in q.firstSeqNum .. q.seqNum /\ MrwSeqNum(q) \in Nat
  BY <1>1, <1>3
<1>5. ASSUME NEW sn \in q.firstSeqNum .. MrwSeqNum(q) - 1
      PROVE  Index(q, sn) \in Slot /\ Settled(q, Index(q, sn))
  <2>1. sn \in Nat /\ sn < MrwSeqNum(q) /\ sn \in q.firstSeqNum .. q.seqNum
        /\ sn < q.seqNum
    BY <1>4, QueueFacts
  <2>2. sn \notin S
    BY <1>1, <1>3, <2>1
  <2>3. Index(q, sn) \in Slot
    BY <2>1, QueueFacts DEF Index, Slot
  <2> QED BY <2>1, <2>2, <2>3
<1> QED BY <1>4, <1>5

LEMMA SendMrwKeeps ==
  ASSUME NEW q, NEW p, QueueOver(q, p), NEW id \in MrwId
  PROVE  /\ QueueOver(SendMrw(q, id), p)
         /\ SendMrw(q, id).firstSeqNum = q.firstSeqNum
         /\ SendMrw(q, id).seqNum = q.seqNum
         /\ SendMrw(q, id).received = q.received
         /\ SendMrw(q, id).discarded = q.discarded
         /\ SendMrw(q, id).mrwRtxQueue = [q.mrwRtxQueue EXCEPT ![id] = MrwSeqNum(q)]
<1>1. q \in TxQueueType
  BY DEF QueueOver
<1>2. MrwSeqNum(q) \in Number
  BY MrwFacts DEF Number
<1> DEFINE r == SendMrw(q, id)
<1>3. r \in TxQueueType
  BY <1>1, <1>2 DEF SendMrw, TxQueueType
<1>4. /\ r.firstSeqNum = q.firstSeqNum /\ r.seqNum = q.seqNum
      /\ r.received = q.received /\ r.discarded = q.discarded
      /\ r.pduTimer = q.pduTimer /\ r.pduRtxQueue = q.pduRtxQueue
      /\ r.mrwRtxQueue = [q.mrwRtxQueue EXCEPT ![id] = MrwSeqNum(q)]
  BY <1>1 DEF SendMrw, TxQueueType
<1> HIDE DEF r
<1>5. QueueOver(r, p)
  BY <1>3, <1>4, SameOrder
<1> QED BY <1>4, <1>5 DEF r

LEMMA RecvMrwAckKeeps ==
  ASSUME NEW q, NEW p, QueueOver(q, p), NEW id \in MrwId
  PROVE  /\ QueueOver(RecvMrwAck(q, id), p)
         /\ RecvMrwAck(q, id).firstSeqNum = q.firstSeqNum
         /\ RecvMrwAck(q, id).seqNum = q.seqNum
         /\ RecvMrwAck(q, id).received = q.received
         /\ RecvMrwAck(q, id).discarded = q.discarded
         /\ RecvMrwAck(q, id).mrwRtxQueue = [q.mrwRtxQueue EXCEPT ![id] = NoMrw]
<1>1. q \in TxQueueType
  BY DEF QueueOver
<1> DEFINE r == RecvMrwAck(q, id)
<1>2. r \in TxQueueType
  BY <1>1 DEF RecvMrwAck, TxQueueType, NoMrw, Number
<1>3. /\ r.firstSeqNum = q.firstSeqNum /\ r.seqNum = q.seqNum
      /\ r.received = q.received /\ r.discarded = q.discarded
      /\ r.pduTimer = q.pduTimer /\ r.pduRtxQueue = q.pduRtxQueue
      /\ r.mrwRtxQueue = [q.mrwRtxQueue EXCEPT ![id] = NoMrw]
  BY <1>1 DEF RecvMrwAck, TxQueueType
<1> HIDE DEF r
<1>4. QueueOver(r, p)
  BY <1>2, <1>3, SameOrder
<1> QED BY <1>3, <1>4 DEF r

\* recvCumulativeAck, recvAck.
LEMMA MarkReceivedKeeps ==
  ASSUME NEW q, NEW p, QueueOver(q, p), NEW acked
  PROVE  /\ QueueOver(MarkReceived(q, acked), p)
         /\ MarkReceived(q, acked).firstSeqNum = q.firstSeqNum
         /\ MarkReceived(q, acked).seqNum = q.seqNum
         /\ MarkReceived(q, acked).discarded = q.discarded
         /\ MarkReceived(q, acked).mrwRtxQueue = q.mrwRtxQueue
         /\ MarkReceived(q, acked).received =
              [i \in Slot |-> q.received[i] \/ q.firstSeqNum + i \in acked]
<1> DEFINE r == MarkReceived(q, acked)
<1>1. q \in TxQueueType /\ InOrder(q, p) /\ NumberedPdus(p)
  BY DEF QueueOver
<1>2. /\ r.firstSeqNum = q.firstSeqNum /\ r.seqNum = q.seqNum
      /\ r.discarded = q.discarded /\ r.mrwRtxQueue = q.mrwRtxQueue
      /\ r.received = [i \in Slot |-> q.received[i] \/ q.firstSeqNum + i \in acked]
      /\ r.pduRtxQueue = q.pduRtxQueue
      /\ r.pduTimer = q.pduTimer \ {sn \in acked : sn >= q.firstSeqNum}
  BY <1>1 DEF MarkReceived, TxQueueType
<1>3. r \in TxQueueType
  <2>1. r.received \in [Slot -> BOOLEAN]
    <3>1. \A i \in Slot : (q.received[i] \/ q.firstSeqNum + i \in acked) \in BOOLEAN
      OBVIOUS
    <3> QED BY <1>2, <3>1
  <2>2. r.pduTimer \in SUBSET Nat
    BY <1>1, <1>2 DEF TxQueueType
  <2> QED BY <1>1, <2>1, <2>2 DEF MarkReceived, TxQueueType
<1> HIDE DEF r
<1>4. InTheirSlots(r, p)
  BY <1>1, <1>2 DEF InOrder, InTheirSlots, Used
<1>5. TimersRight(r)
  <2>1. \A sn \in Window(q) : sn \in Nat /\ sn >= q.firstSeqNum /\ Index(q, sn) \in Slot
                              /\ q.firstSeqNum + Index(q, sn) = sn
    BY QueueFacts DEF Window, Index, Slot
  <2>2. \A sn \in Window(q) : Settled(r, Index(q, sn))
                                <=> Settled(q, Index(q, sn)) \/ sn \in acked
    BY <1>2, <2>1 DEF Settled
  <2>3. Window(r) = Window(q) /\ \A sn : Index(r, sn) = Index(q, sn)
    BY <1>2 DEF Window, Index
  <2>4. q.pduTimer = {sn \in Window(q) : ~Settled(q, Index(q, sn))}
    BY <1>1 DEF InOrder, TimersRight
  <2>5. r.pduTimer = {sn \in Window(q) : ~Settled(r, Index(q, sn))}
    BY <1>2, <2>1, <2>2, <2>4
  <2> QED BY <2>3, <2>5 DEF TimersRight
<1>6. FreeBehind(r)
  BY <1>1, <1>2 DEF InOrder, FreeBehind, Used
<1>7. r.firstSeqNum <= r.seqNum /\ r.seqNum <= Fill(r, p)
  BY <1>1, <1>2 DEF InOrder, Fill
<1>8. QueueOver(r, p)
  BY <1>1, <1>3, <1>4, <1>5, <1>6, <1>7 DEF QueueOver, InOrder
<1> QED BY <1>2, <1>8 DEF r

\* A timer that runs out finds its PDU in the window, in its slot and not
\* acknowledged.
LEMMA TimerFindsPdu ==
  ASSUME NEW q, NEW p, QueueOver(q, p), NEW sn \in q.pduTimer
  PROVE  /\ ~PduTimerThrows(q, sn)
         /\ sn \in Nat /\ sn \in Window(q)
         /\ Index(q, sn) \in Slot /\ Index(q, sn) < Used(q)
         /\ q.firstSeqNum + Index(q, sn) = sn
         /\ sn + 1 \in DOMAIN p
         /\ q.pduRtxQueue[Index(q, sn)].pdu = p[sn + 1]
         /\ q.pduRtxQueue[Index(q, sn)].txNumber \in Nat
<1>1. sn \in Window(q) /\ ~Settled(q, Index(q, sn))
  BY DEF QueueOver, InOrder, TimersRight
<1>2. sn \in Nat /\ Index(q, sn) \in Slot /\ Index(q, sn) < Used(q)
      /\ q.firstSeqNum + Index(q, sn) = sn
  BY <1>1, QueueFacts DEF Window, Index, Slot, Used
<1>3. /\ sn + 1 \in DOMAIN p
      /\ q.pduRtxQueue[Index(q, sn)].pdu = p[sn + 1]
      /\ q.pduRtxQueue[Index(q, sn)] # FreeSlot
  BY <1>2, QueueFacts
<1>4. q.pduRtxQueue[Index(q, sn)].txNumber \in Nat
  BY <1>2 DEF QueueOver, TxQueueType
<1> QED BY <1>1, <1>2, <1>3, <1>4 DEF PduTimerThrows, InWindow, Settled

\* The first free slot is the one the PDU has just left: a retransmission
\* keeps the order.
LEMMA RetransmitKeeps ==
  ASSUME NEW q, NEW p, QueueOver(q, p), NEW sn \in q.pduTimer
  PROVE  /\ QueueOver(Retransmit(q, sn), p)
         /\ Retransmit(q, sn).firstSeqNum = q.firstSeqNum
         /\ Retransmit(q, sn).seqNum = q.seqNum
         /\ Retransmit(q, sn).received = q.received
         /\ Retransmit(q, sn).discarded = q.discarded
         /\ Retransmit(q, sn).mrwRtxQueue = q.mrwRtxQueue
<1> DEFINE at == Index(q, sn)
           without == [q.pduRtxQueue EXCEPT ![at] = FreeSlot]
           IsFirstFree(j) == /\ without[j] = FreeSlot
                             /\ \A k \in 0 .. j - 1 : without[k] # FreeSlot
           copy == [q.pduRtxQueue[at] EXCEPT !.txNumber = @ + 1]
           r == Retransmit(q, sn)
<1>1. q \in TxQueueType /\ InOrder(q, p)
  BY DEF QueueOver
<1>2. at \in Slot /\ at < Used(q) /\ at \in Nat
  BY TimerFindsPdu, AmTxAssumption DEF Slot
<1>3. without \in [Slot -> [pdu : PduType, txNumber : Nat]]
      /\ without[at] = FreeSlot
      /\ \A k \in Slot : k # at => without[k] = q.pduRtxQueue[k]
  <2>1. FreeSlot \in [pdu : PduType, txNumber : Nat]
    BY DEF FreeSlot, NoPdu, PduType, Number
  <2> QED BY <1>1, <1>2, <2>1 DEF TxQueueType
<1>4. \A k \in Slot : k < Used(q) /\ k # at => without[k] # FreeSlot
  BY <1>3, QueueFacts
<1> HIDE DEF without
<1>5. IsFirstFree(at)
  <2>1. \A k \in 0 .. at - 1 : k \in Slot /\ k < Used(q) /\ k # at
    BY <1>2, QueueFacts DEF Slot
  <2> QED BY <1>3, <1>4, <2>1
<1>6. \A j \in Slot : IsFirstFree(j) => j = at
  <2> SUFFICES ASSUME NEW j \in Slot, IsFirstFree(j), j # at PROVE FALSE
    OBVIOUS
  <2>1. j \in Nat /\ j >= Used(q)
    BY <1>4, QueueFacts DEF Slot
  <2>2. at \in 0 .. j - 1
    BY <1>2, <2>1, QueueFacts
  <2> QED BY <1>3, <2>2
<1>7. (CHOOSE j \in Slot : IsFirstFree(j)) = at
  <2>1. (CHOOSE j \in Slot : IsFirstFree(j)) \in Slot
        /\ IsFirstFree(CHOOSE j \in Slot : IsFirstFree(j))
    BY <1>2, <1>5
  <2> QED BY <1>6, <2>1
<1>8. r = [q EXCEPT !.pduRtxQueue =
             [without EXCEPT ![CHOOSE j \in Slot : IsFirstFree(j)] = copy]]
  BY DEF Retransmit, without
<1>9. r = [q EXCEPT !.pduRtxQueue = [without EXCEPT ![at] = copy]]
  BY <1>7, <1>8
<1>10. copy \in [pdu : PduType, txNumber : Nat] /\ copy.pdu = q.pduRtxQueue[at].pdu
  BY <1>1, <1>2 DEF TxQueueType
<1> HIDE DEF r, copy, at
<1>11. /\ r \in TxQueueType
       /\ r.firstSeqNum = q.firstSeqNum /\ r.seqNum = q.seqNum
       /\ r.received = q.received /\ r.discarded = q.discarded
       /\ r.pduTimer = q.pduTimer /\ r.mrwRtxQueue = q.mrwRtxQueue
       /\ r.pduRtxQueue = [without EXCEPT ![at] = copy]
  BY <1>1, <1>2, <1>3, <1>9, <1>10 DEF TxQueueType
<1>12. \A i \in Slot : r.pduRtxQueue[i].pdu = q.pduRtxQueue[i].pdu
  BY <1>2, <1>3, <1>10, <1>11
<1>13. \A i \in Slot : i >= Used(q) => r.pduRtxQueue[i] = q.pduRtxQueue[i]
  <2>1. \A i \in Slot : i >= Used(q) => i # at
    BY <1>2, QueueFacts DEF Slot
  <2> QED BY <1>2, <1>3, <1>11, <2>1
<1>14. QueueOver(r, p)
  BY <1>11, <1>12, <1>13, SameOrder
<1> QED BY <1>11, <1>14 DEF r

\* discard: the timers of all PDUs given up are stopped.
LEMMA DiscardKeeps ==
  ASSUME NEW q, NEW p, QueueOver(q, p), NEW sn \in q.pduTimer,
         NEW w, w = [q EXCEPT !.pduTimer = @ \ {sn}]
  PROVE  /\ QueueOver(Discard(w, sn), p)
         /\ Discard(w, sn).firstSeqNum = q.firstSeqNum
         /\ Discard(w, sn).seqNum = q.seqNum
         /\ Discard(w, sn).received = q.received
         /\ Discard(w, sn).mrwRtxQueue = q.mrwRtxQueue
         /\ \A i \in Slot : q.discarded[i] => Discard(w, sn).discarded[i]
<1> DEFINE at == Index(q, sn)
           gone == {i \in Slot :
                 /\ i < Used(q)
                 /\ \A j \in Slot : (at <= j /\ j <= i) \/ (i <= j /\ j <= at)
                                       => SameSdu(q, at, j)}
           r == Discard(w, sn)
<1>1. q \in TxQueueType /\ InOrder(q, p) /\ NumberedPdus(p)
  BY DEF QueueOver
<1>2. w \in TxQueueType /\ Index(w, sn) = at /\ Used(w) = Used(q)
      /\ w.firstSeqNum = q.firstSeqNum /\ w.seqNum = q.seqNum
      /\ w.received = q.received /\ w.discarded = q.discarded
      /\ w.pduRtxQueue = q.pduRtxQueue /\ w.mrwRtxQueue = q.mrwRtxQueue
      /\ w.pduTimer = q.pduTimer \ {sn}
  BY <1>1 DEF TxQueueType, Index, Used
<1>3. r = [w EXCEPT !.discarded = [i \in Slot |-> @[i] \/ i \in gone],
                    !.pduTimer = @ \ {q.firstSeqNum + i : i \in gone}]
  <2>1. \A i, j : SameSdu(w, i, j) <=> SameSdu(q, i, j)
    BY <1>2 DEF SameSdu
  <2> QED BY <1>2, <2>1 DEF Discard
<1>4. at \in gone /\ at \in Slot /\ at \in Nat /\ q.firstSeqNum + at = sn
  <2>1. at \in Slot /\ at < Used(q) /\ at \in Nat /\ q.firstSeqNum + at = sn
    BY TimerFindsPdu, AmTxAssumption DEF Slot
  <2>2. \A j \in Slot : (at <= j /\ j <= at) \/ (at <= j /\ j <= at) => j = at
    BY <2>1, AmTxAssumption DEF Slot
  <2> QED BY <2>1, <2>2 DEF SameSdu
<1>5. gone \subseteq Slot /\ \A i \in gone : i < Used(q)
  OBVIOUS
<1> HIDE DEF gone, at, r
<1>6. /\ r.firstSeqNum = q.firstSeqNum /\ r.seqNum = q.seqNum
      /\ r.received = q.received /\ r.mrwRtxQueue = q.mrwRtxQueue
      /\ r.pduRtxQueue = q.pduRtxQueue
      /\ r.discarded = [i \in Slot |-> q.discarded[i] \/ i \in gone]
      /\ r.pduTimer = (q.pduTimer \ {sn}) \ {q.firstSeqNum + i : i \in gone}
  BY <1>2, <1>3 DEF TxQueueType
<1>7. r \in TxQueueType
  <2>1. r.discarded \in [Slot -> BOOLEAN]
    <3>1. \A i \in Slot : (q.discarded[i] \/ i \in gone) \in BOOLEAN
      OBVIOUS
    <3> QED BY <1>6, <3>1
  <2>2. r.pduTimer \in SUBSET Nat
    BY <1>1, <1>6 DEF TxQueueType
  <2> QED BY <1>2, <1>3, <2>1, <2>2 DEF TxQueueType
<1>8. InTheirSlots(r, p)
  BY <1>1, <1>6 DEF InOrder, InTheirSlots, Used
<1>9. TimersRight(r)
  <2>1. \A s \in Window(q) : s \in Nat /\ Index(q, s) \in Slot
                              /\ q.firstSeqNum + Index(q, s) = s
    BY QueueFacts DEF Window, Index, Slot
  <2>2. r.pduTimer = q.pduTimer \ {q.firstSeqNum + i : i \in gone}
    BY <1>4, <1>6
  <2>3. \A i \in gone : i \in Nat
    BY <1>5, AmTxAssumption DEF Slot
  <2>4. \A s \in Window(q) : s \in {q.firstSeqNum + i : i \in gone}
                               <=> Index(q, s) \in gone
    BY <2>1, <2>3, QueueFacts DEF Index
  <2>5. \A s \in Window(q) : Settled(r, Index(q, s))
                               <=> Settled(q, Index(q, s)) \/ Index(q, s) \in gone
    BY <1>6, <2>1 DEF Settled
  <2>6. Window(r) = Window(q) /\ \A s : Index(r, s) = Index(q, s)
    BY <1>6 DEF Window, Index
  <2>7. q.pduTimer = {s \in Window(q) : ~Settled(q, Index(q, s))}
    BY <1>1 DEF InOrder, TimersRight
  <2>8. r.pduTimer = {s \in Window(q) : ~Settled(r, Index(q, s))}
    BY <2>2, <2>4, <2>5, <2>7
  <2> QED BY <2>6, <2>8 DEF TimersRight
<1>10. FreeBehind(r)
  <2>1. \A i \in Slot : i >= Used(q) => i \notin gone
    BY <1>5, QueueFacts DEF Slot
  <2> QED BY <1>1, <1>6, <2>1 DEF InOrder, FreeBehind, Used
<1>11. r.firstSeqNum <= r.seqNum /\ r.seqNum <= Fill(r, p)
  BY <1>1, <1>6 DEF InOrder, Fill
<1>12. QueueOver(r, p)
  BY <1>1, <1>7, <1>8, <1>9, <1>10, <1>11 DEF QueueOver, InOrder
<1> QED BY <1>6, <1>12 DEF r

\* moveTxWindow, to a position up to which PDUs were sent; what it leaves behind
\* the window has no status, so the window can be filled.
LEMMA ShiftKeeps ==
  ASSUME NEW q, NEW p, QueueOver(q, p),
         NEW sn \in Nat, q.firstSeqNum <= sn, sn <= q.seqNum
  PROVE  /\ ~MoveTxWindowThrows(q, sn)
         /\ QueueOver(ShiftTxWindow(q, sn), p)
         /\ ShiftTxWindow(q, sn).firstSeqNum = sn
         /\ ShiftTxWindow(q, sn).seqNum = q.seqNum
         /\ ShiftTxWindow(q, sn).mrwRtxQueue = q.mrwRtxQueue
         /\ ~AddPdusThrows(ShiftTxWindow(q, sn), p)
         /\ \A i \in Slot :
              /\ ShiftTxWindow(q, sn).received[i] =>
                   i + Index(q, sn) \in Slot /\ q.received[i + Index(q, sn)]
              /\ ShiftTxWindow(q, sn).discarded[i] =>
                   i + Index(q, sn) \in Slot /\ q.discarded[i + Index(q, sn)]
<1> DEFINE r == ShiftTxWindow(q, sn)
           pos == Index(q, sn)
           Kept(i) == i + pos < Used(q)
<1>1. q \in TxQueueType /\ InOrder(q, p) /\ NumberedPdus(p)
  BY DEF QueueOver
<1>2. pos \in Nat /\ q.firstSeqNum + pos = sn /\ pos <= Used(q)
      /\ Used(q) \in Nat /\ Used(q) <= TxWindowSize
      /\ q.firstSeqNum \in Nat /\ q.seqNum \in Nat
      /\ Used(q) = q.seqNum - q.firstSeqNum /\ TxWindowSize \in Nat
  BY QueueFacts DEF Index, Used
<1>3. /\ r.firstSeqNum = sn /\ r.seqNum = q.seqNum
      /\ r.mrwRtxQueue = q.mrwRtxQueue
      /\ r.pduRtxQueue =
           [i \in Slot |-> IF Kept(i) THEN q.pduRtxQueue[i + pos] ELSE FreeSlot]
      /\ r.received = [i \in Slot |-> Kept(i) /\ q.received[i + pos]]
      /\ r.discarded = [i \in Slot |-> Kept(i) /\ q.discarded[i + pos]]
      /\ r.pduTimer = {t \in q.pduTimer : t >= sn}
  BY <1>1 DEF ShiftTxWindow, TxQueueType
<1>4. ~MoveTxWindowThrows(q, sn)
  BY <1>1, <1>2, QueueFacts DEF MoveTxWindowThrows, InOrder, FreeBehind
<1>5. Used(r) = Used(q) - pos /\ Used(r) \in Nat
  <2> HIDE DEF r, pos
  <2>1. Used(r) = q.seqNum - sn
    BY <1>3 DEF Used
  <2> QED BY <1>2, <2>1
<1>6. \A i \in Slot : i \in Nat /\ (Kept(i) => i + pos \in Slot)
                      /\ (Kept(i) <=> i < Used(r))
  BY <1>2, <1>5, AmTxAssumption DEF Slot
<1>7. r \in TxQueueType
  <2>1. FreeSlot \in [pdu : PduType, txNumber : Nat]
    BY DEF FreeSlot, NoPdu, PduType, Number
  <2>2. r.pduRtxQueue \in [Slot -> [pdu : PduType, txNumber : Nat]]
    <3>1. ASSUME NEW i \in Slot
          PROVE  (IF Kept(i) THEN q.pduRtxQueue[i + pos] ELSE FreeSlot)
                   \in [pdu : PduType, txNumber : Nat]
      BY <1>1, <1>6, <2>1 DEF TxQueueType
    <3> HIDE DEF pos, r
    <3> QED BY <1>3, <3>1
  <2>3. r.received \in [Slot -> BOOLEAN] /\ r.discarded \in [Slot -> BOOLEAN]
    <3>1. \A i \in Slot : (Kept(i) /\ q.received[i + pos]) \in BOOLEAN
                           /\ (Kept(i) /\ q.discarded[i + pos]) \in BOOLEAN
      OBVIOUS
    <3> HIDE DEF pos, r
    <3> QED BY <1>3, <3>1
  <2>4. r.pduTimer \in SUBSET Nat
    BY <1>1, <1>3 DEF TxQueueType
  <2> QED BY <1>1, <2>2, <2>3, <2>4 DEF ShiftTxWindow, TxQueueType
<1> HIDE DEF r, pos
<1>8. InTheirSlots(r, p)
  <2> SUFFICES ASSUME NEW i \in Slot
               PROVE  r.pduRtxQueue[i].pdu =
                        IF i < Used(r) THEN p[r.firstSeqNum + i + 1] ELSE NoPdu
    BY DEF InTheirSlots
  <2>1. CASE i < Used(r)
    <3>1. Kept(i) /\ i + pos \in Slot /\ i \in Nat
      BY <1>6, <2>1
    <3>2. r.pduRtxQueue[i].pdu = p[q.firstSeqNum + (i + pos) + 1]
      <4>1. r.pduRtxQueue[i] = q.pduRtxQueue[i + pos]
        BY <1>3, <3>1
      <4> DEFINE j == i + pos
      <4>2. j \in Slot /\ j < Used(q)
        BY <3>1
      <4> HIDE DEF j
      <4>3. q.pduRtxQueue[j].pdu = p[q.firstSeqNum + j + 1]
        BY <4>2, QueueFacts
      <4> QED BY <4>1, <4>3 DEF j
    <3>3. q.firstSeqNum + (i + pos) + 1 = r.firstSeqNum + i + 1
      BY <1>2, <1>3, <3>1
    <3> QED BY <2>1, <3>2, <3>3
  <2>2. CASE ~(i < Used(r))
    BY <1>3, <1>6, <2>2 DEF FreeSlot
  <2> QED BY <2>1, <2>2
<1>9. TimersRight(r)
  <2>1. \A s \in Window(r) : s \in Nat /\ s \in Window(q) /\ s >= sn
    BY <1>2, <1>3, QueueFacts DEF Window
  <2>2. \A s \in Window(q) : s >= sn => s \in Window(r)
    BY <1>2, <1>3, QueueFacts DEF Window
  <2>3. \A s \in Window(r) : /\ Index(r, s) \in Slot /\ Kept(Index(r, s))
                              /\ Index(r, s) + pos = Index(q, s)
    <3> SUFFICES ASSUME NEW s \in Window(r)
                 PROVE  /\ Index(r, s) \in Slot /\ Kept(Index(r, s))
                        /\ Index(r, s) + pos = Index(q, s)
      OBVIOUS
    <3>1. s \in sn .. q.seqNum - 1
      BY <1>3 DEF Window
    <3>2. Index(r, s) = s - sn /\ Index(q, s) = s - q.firstSeqNum
      BY <1>3 DEF Index
    <3>3. s \in Nat /\ sn <= s /\ s < q.seqNum
      BY <1>2, <3>1
    <3> QED BY <1>2, <3>2, <3>3 DEF Slot
  <2>4. ASSUME NEW s \in Window(r)
        PROVE  Settled(r, Index(r, s)) <=> Settled(q, Index(q, s))
    <3> DEFINE i == Index(r, s)
               j == Index(q, s)
    <3>1. i \in Slot /\ Kept(i) /\ i + pos = j
      BY <2>3
    <3> HIDE DEF i, j, Kept
    <3>2. (r.received[i] <=> q.received[j]) /\ (r.discarded[i] <=> q.discarded[j])
      BY <1>3, <3>1
    <3> QED BY <3>2 DEF Settled, i, j
  <2>5. q.pduTimer = {s \in Window(q) : ~Settled(q, Index(q, s))}
    BY <1>1 DEF InOrder, TimersRight
  <2> QED BY <1>3, <2>1, <2>2, <2>4, <2>5 DEF TimersRight
<1>10. FreeBehind(r)
  <2>1. \A i \in Slot : i >= Used(r) => ~Kept(i)
    BY <1>5, <1>6
  <2> QED BY <1>3, <2>1 DEF FreeBehind
<1>11. r.firstSeqNum <= r.seqNum /\ r.seqNum <= Fill(r, p)
  BY <1>1, <1>2, <1>3, QueueFacts DEF Fill, NumberedPdus
<1>12. QueueOver(r, p)
  BY <1>1, <1>7, <1>8, <1>9, <1>10, <1>11 DEF QueueOver, InOrder
<1>13. \A i \in Slot :
          /\ r.received[i] => i + pos \in Slot /\ q.received[i + pos]
          /\ r.discarded[i] => i + pos \in Slot /\ q.discarded[i + pos]
  BY <1>3, <1>6
<1>14. ~AddPdusThrows(r, p)
  <2>1. \A i \in Slot : i >= Used(r) => ~Kept(i)
    BY <1>5, <1>6
  <2>2. \A i \in Slot : i >= Used(r) => ~r.received[i]
    BY <1>3, <2>1
  <2> QED BY <2>2, <1>12, AddPdusFindsRoom
<1> QED BY <1>3, <1>4, <1>12, <1>13, <1>14 DEF r, pos

----------------------------------------------------------------------------
(* The receive queue.                                                      *)

LEMMA RxQueueFacts ==
  ASSUME NEW r \in RxQueueType
  PROVE  /\ RxWindowSize \in Nat /\ RxWindowSize > 0
         /\ r.firstSeqNum \in Nat
         /\ \A i \in RxSlot : i \in Nat
BY AmRxAssumption DEF RxQueueType, RxSlot

\* A status report says of no PDU that it was received unless it was.
LEMMA ReportFacts ==
  ASSUME NEW r \in RxQueueType
  PROVE  /\ LastSn(r) \in Number
         /\ Bitmap(r) \in SUBSET Nat
         /\ \A sn \in r.firstSeqNum .. LastSn(r) :
              \E i \in RxSlot : r.received[i] /\ sn = r.firstSeqNum + i
         /\ \A sn \in Bitmap(r) :
              \E i \in RxSlot : r.received[i] /\ sn = r.firstSeqNum + i
<1> DEFINE S == {n \in 0 .. RxWindowSize : n \in RxSlot => ~r.received[n]}
<1>1. S \in SUBSET Nat /\ RxWindowSize \in S
  BY RxQueueFacts DEF RxSlot
<1>2. Cumulative(r) = Min(S)
  BY DEF Cumulative
<1> HIDE DEF S
<1>3. Cumulative(r) \in S /\ \A n \in S : Cumulative(r) <= n
  BY <1>1, <1>2, LeastElement
<1> USE DEF S
<1>4. Cumulative(r) \in Nat /\ Cumulative(r) <= RxWindowSize
  BY <1>1, <1>3, RxQueueFacts
<1>5. ASSUME NEW n \in 0 .. Cumulative(r) - 1
      PROVE  n \in RxSlot /\ r.received[n]
  <2>1. n \in Nat /\ n < Cumulative(r) /\ n \in RxSlot /\ n \in 0 .. RxWindowSize
    BY <1>4, RxQueueFacts DEF RxSlot
  <2>2. n \notin S
    BY <1>1, <1>3, <2>1
  <2> QED BY <2>1, <2>2
<1>6. LastSn(r) = r.firstSeqNum + Cumulative(r) - 1
  BY DEF LastSn
<1> DEFINE cum == Cumulative(r)
<1> HIDE DEF cum
<1>7. LastSn(r) \in Number
  BY <1>4, <1>6, RxQueueFacts DEF Number
<1>8. ASSUME NEW sn \in r.firstSeqNum .. LastSn(r)
      PROVE  \E i \in RxSlot : r.received[i] /\ sn = r.firstSeqNum + i
  <2>1. sn - r.firstSeqNum \in 0 .. Cumulative(r) - 1
        /\ sn = r.firstSeqNum + (sn - r.firstSeqNum)
    BY <1>4, <1>6, RxQueueFacts
  <2> QED BY <1>5, <2>1
<1>9. Bitmap(r) \in SUBSET Nat
  BY RxQueueFacts DEF Bitmap
<1> QED BY <1>7, <1>8, <1>9 DEF Bitmap

\* A PDU is put where received_ says that it is.
LEMMA BufferKeeps ==
  ASSUME NEW r \in RxQueueType, NEW pdu \in PduType, NEW i \in RxSlot,
         i = Position(r, pdu)
  PROVE  /\ BufferPdu(r, pdu) \in RxQueueType
         /\ BufferPdu(r, pdu).firstSeqNum = r.firstSeqNum
         /\ BufferPdu(r, pdu).received = [r.received EXCEPT ![i] = TRUE]
         /\ BufferPdu(r, pdu).pduBuffer = [r.pduBuffer EXCEPT ![i] = pdu]
<1> QED BY DEF BufferPdu, RxQueueType, PduType

\* A move by no more than the transmitter's window holds leaves no status
\* behind in a window that is at least twice as large.
LEMMA StaleOnlyIfSmall ==
  ASSUME NEW r \in RxQueueType, NEW sn \in Nat,
         sn - r.firstSeqNum <= TxWindowSize, LeavesStale(r, sn)
  PROVE  RxWindowSize < 2 * TxWindowSize
<1> DEFINE pos == sn - r.firstSeqNum
<1>1. PICK i \in RxSlot : i < pos /\ i + pos \notin RxSlot
  BY DEF LeavesStale
<1>2. i \in Nat /\ pos \in Int /\ TxWindowSize \in Nat /\ RxWindowSize \in Nat
      /\ pos <= TxWindowSize
  BY RxQueueFacts, AmTxAssumption
<1> HIDE DEF pos
<1>3. i + pos >= RxWindowSize
  BY <1>1, <1>2 DEF RxSlot
<1> QED BY <1>1, <1>2, <1>3

\* moveRxWindow: the PDUs move with the window, and so does their status, but
\* for what LeavesStale is about.
LEMMA MoveRxKeeps ==
  ASSUME NEW r \in RxQueueType, NEW sn \in Nat, sn > r.firstSeqNum,
         sn - r.firstSeqNum <= RxWindowSize
  PROVE  /\ ~MoveRxWindowIgnored(r, sn)
         /\ MoveRxWindow(r, sn) \in RxQueueType
         /\ MoveRxWindow(r, sn).firstSeqNum = sn
         /\ MoveRxWindow(r, sn).flowControlInfo = r.flowControlInfo
         /\ \A i \in RxSlot :
              LET j == i + (sn - r.firstSeqNum) IN
              /\ j \in RxSlot => (MoveRxWindow(r, sn).received[i] <=> r.received[j])
              /\ j \notin RxSlot /\ ~LeavesStale(r, sn)
                   => ~MoveRxWindow(r, sn).received[i]
              /\ MoveRxWindow(r, sn).pduBuffer[i] =
                   IF j \in RxSlot THEN r.pduBuffer[j] ELSE NoPdu
<1> DEFINE pos == sn - r.firstSeqNum
           w == MoveRxWindow(r, sn)
           final == r.pduBuffer[pos - 1]
<1>1. /\ pos \in Nat /\ pos > 0 /\ RxWindowSize \in Nat /\ pos <= RxWindowSize
      /\ \A i \in RxSlot : i \in Nat /\ i < RxWindowSize
  BY RxQueueFacts DEF RxSlot
<1>2. ~MoveRxWindowIgnored(r, sn)
  BY <1>1, RxQueueFacts DEF MoveRxWindowIgnored
<1>3. w = [r EXCEPT
        !.firstSeqNum = sn,
        !.received = [i \in RxSlot |-> IF i + pos \in RxSlot THEN @[i + pos]
                                       ELSE i < pos /\ @[i]],
        !.pduBuffer = [i \in RxSlot |-> IF i + pos \in RxSlot THEN @[i + pos] ELSE NoPdu],
        !.firstSdu = IF final = NoPdu \/ IsLast(final) THEN NoSdu ELSE final.sdu]
  BY DEF MoveRxWindow
<1>4. pos - 1 \in RxSlot
  BY <1>1 DEF RxSlot
<1>5. final \in PduType /\ final.sdu \in Number /\ NoSdu \in Number
  BY <1>4 DEF RxQueueType, PduType, Number, NoSdu
<1> HIDE DEF pos, w, final
<1>6. /\ w.firstSeqNum = sn /\ w.flowControlInfo = r.flowControlInfo
      /\ w.received = [i \in RxSlot |-> IF i + pos \in RxSlot THEN r.received[i + pos]
                                        ELSE i < pos /\ r.received[i]]
      /\ w.pduBuffer = [i \in RxSlot |-> IF i + pos \in RxSlot
                                         THEN r.pduBuffer[i + pos] ELSE NoPdu]
  BY <1>3 DEF RxQueueType
<1>7. w \in RxQueueType
  <2>1. NoPdu \in PduType
    BY DEF NoPdu, PduType, Number
  <2>2. w.pduBuffer \in [RxSlot -> PduType]
    BY <1>6, <2>1 DEF RxQueueType
  <2>3. w.received \in [RxSlot -> BOOLEAN]
    <3>1. \A i \in RxSlot : (IF i + pos \in RxSlot THEN r.received[i + pos]
                             ELSE i < pos /\ r.received[i]) \in BOOLEAN
      BY DEF RxQueueType
    <3> QED BY <1>6, <3>1
  <2> QED BY <1>3, <1>5, <2>2, <2>3 DEF RxQueueType
<1>8. \A i \in RxSlot :
        /\ i + pos \in RxSlot => (w.received[i] <=> r.received[i + pos])
        /\ i + pos \notin RxSlot /\ ~LeavesStale(r, sn) => ~w.received[i]
  BY <1>6 DEF LeavesStale, pos
<1> QED BY <1>2, <1>6, <1>7, <1>8 DEF w, pos

\* The SDU of a whole PDU is complete, and what goes up is the PDU.
LEMMA WholePduGoesUp ==
  ASSUME NEW r \in RxQueueType, NEW i \in RxSlot,
         IsWhole(r.pduBuffer[i]), r.pduBuffer[i].sn = r.pduBuffer[i].firstSn,
         r.pduBuffer[i] # NoPdu
  PROVE  /\ Verdict(r, i) = "found"
         /\ PassedUp(r, i) = i
         /\ ~PassUpThrows(r, i)
<1> QED BY DEF Verdict, SearchBackward, SearchForward, IsWhole, IsFirst, IsLast,
               PassedUp, PassUpThrows

----------------------------------------------------------------------------
(* The invariant.                                                          *)

LEMMA InvFacts ==
  ASSUME Inv
  PROVE  /\ QueueOver(tx, pdus)
         /\ tx.seqNum = Fill(tx, pdus)
         /\ TxWindowSize \in Nat /\ RxWindowSize \in Nat
         /\ tx.firstSeqNum \in Nat /\ tx.seqNum \in Nat
         /\ tx.seqNum <= tx.firstSeqNum + TxWindowSize
         /\ tx.seqNum <= Len(pdus) /\ Len(pdus) \in Nat
         /\ DOMAIN pdus = 1 .. Len(pdus)
         /\ rx \in RxQueueType /\ rx.firstSeqNum \in Nat
         /\ tx.firstSeqNum <= rx.firstSeqNum /\ rx.firstSeqNum <= tx.seqNum
<1>1. tx \in TxQueueType /\ pdus \in Seq(PduType) /\ rx \in RxQueueType
      /\ Numbered /\ InOrder(tx, pdus) /\ tx.seqNum = Fill(tx, pdus)
      /\ WindowsOverlap
  BY DEF Inv, TypeOK, TxOK, RxOK
<1>2. QueueOver(tx, pdus)
  BY <1>1 DEF QueueOver, NumberedPdus, Numbered
<1>3. /\ TxWindowSize \in Nat
      /\ tx.firstSeqNum \in Nat /\ tx.seqNum \in Nat
      /\ tx.seqNum <= tx.firstSeqNum + TxWindowSize /\ tx.seqNum <= Len(pdus)
  BY <1>2, QueueFacts
<1>4. Len(pdus) \in Nat /\ DOMAIN pdus = 1 .. Len(pdus)
  BY <1>1
<1>5. RxWindowSize \in Nat /\ rx.firstSeqNum \in Nat
  BY <1>1, RxQueueFacts
<1> QED BY <1>1, <1>2, <1>3, <1>4, <1>5 DEF WindowsOverlap

----------------------------------------------------------------------------
(* What grows.                                                             *)

Grows ==
  /\ tx'.seqNum \in Nat /\ tx.seqNum <= tx'.seqNum
  /\ rx'.firstSeqNum \in Nat /\ rx.firstSeqNum <= rx'.firstSeqNum
  /\ taken \subseteq taken' /\ given \subseteq given' /\ (stale => stale')
  /\ \A n \in 1 .. Len(pdus) : pdus'[n] = pdus[n]

\* A message that says nothing wrong never will.
LEMMA MessageStaysOK ==
  ASSUME Inv, Grows, NEW m \in net
  PROVE  MessageOK(m)'
<1>1. m \in PduMessage /\ MessageOK(m)
  BY DEF Inv, TypeOK, MessagesOK
<1>2. Finished \subseteq Finished'
  BY DEF Grows, Finished
<1>3. /\ tx.seqNum \in Nat /\ tx.seqNum <= Len(pdus) /\ Len(pdus) \in Nat
      /\ tx'.seqNum \in Nat /\ tx.seqNum <= tx'.seqNum
      /\ rx.firstSeqNum \in Nat /\ rx'.firstSeqNum \in Nat
      /\ rx.firstSeqNum <= rx'.firstSeqNum
      /\ \A n \in 1 .. Len(pdus) : pdus'[n] = pdus[n]
  BY InvFacts DEF Grows
<1>4. CASE m.type = "DATA"
  <2>1. m.pdu.sn \in 0 .. tx.seqNum - 1 /\ m.pdu = pdus[m.pdu.sn + 1]
    BY <1>1, <1>4 DEF MessageOK
  <2>2. m.pdu.sn \in 0 .. tx'.seqNum - 1 /\ m.pdu.sn + 1 \in 1 .. Len(pdus)
    BY <1>3, <2>1
  <2> QED BY <1>3, <1>4, <2>1, <2>2 DEF MessageOK
<1>5. CASE m.type = "ACK"
  BY <1>1, <1>2, <1>5 DEF MessageOK, Grows
<1>6. CASE m.type = "MRW"
  <2>1. m.lastSn \in Nat
    BY <1>1, <1>6 DEF PduMessage
  <2> QED BY <1>1, <1>2, <1>3, <1>6, <2>1 DEF MessageOK, Movable, Grows
<1>7. CASE m.type = "MRW_ACK"
  <2>1. m.sn \in Nat
    BY <1>1, <1>7 DEF PduMessage
  <2> QED BY <1>1, <1>3, <1>7, <2>1 DEF MessageOK
<1> QED BY <1>1, <1>4, <1>5, <1>6, <1>7 DEF PduMessage

\* The receiver may move its window to sn after the step.
WillBeMovable(sn) ==
  sn <= tx'.seqNum /\ (~stale' => 0 .. sn - 1 \subseteq Finished')

LEMMA MovableStays ==
  ASSUME Inv, Grows, NEW sn \in Nat, Movable(sn)
  PROVE  WillBeMovable(sn)
BY InvFacts DEF Grows, Movable, WillBeMovable, Finished

\* Where a message that is not new comes from.
LEMMA MessagesStayOK ==
  ASSUME Inv, Grows, \A m \in net' \ net : MessageOK(m)'
  PROVE  \A m \in net' : MessageOK(m)'
BY MessageStaysOK

----------------------------------------------------------------------------
(* A step of the transmitter.                                              *)

TxGrows ==
  /\ tx'.seqNum >= tx.seqNum /\ given \subseteq given'
  /\ \A n \in 1 .. Len(pdus) : pdus'[n] = pdus[n]

\* Why a step of the transmitter keeps the invariant.
TxStep ==
  /\ error = "none" /\ error' = "none"
  /\ UNCHANGED <<rx, taken, delivered, stale>>
  /\ sdus' \in 0 .. NumSdu /\ Len(pdus') >= Len(pdus)
  /\ TxGrows
  /\ QueueOver(tx', pdus') /\ tx'.seqNum = Fill(tx', pdus')
  /\ tx'.firstSeqNum <= rx.firstSeqNum
  /\ given' \ given \subseteq 0 .. tx'.seqNum - 1
  /\ ~stale => \A i \in Slot : tx'.received[i] => tx'.firstSeqNum + i \in Finished'
  /\ \A i \in Slot : tx'.discarded[i] => tx'.firstSeqNum + i \in given'
  /\ \A m \in net' \ net : m \in PduMessage /\ MessageOK(m)'
  /\ \A id \in MrwId : tx'.mrwRtxQueue[id] # NoMrw =>
       \/ tx'.mrwRtxQueue[id] = tx.mrwRtxQueue[id]
       \/ WillBeMovable(tx'.mrwRtxQueue[id])
  /\ AllWhole' =>
       /\ AllWhole /\ sdus' = Len(pdus')
       /\ \A n \in DOMAIN pdus' : pdus'[n].sdu = n - 1 /\ IsFirst(pdus'[n])

LEMMA TxStepKeepsInv ==
  ASSUME Inv, TxStep
  PROVE  Inv'
<1>1. /\ tx' \in TxQueueType /\ NumberedPdus(pdus') /\ InOrder(tx', pdus')
      /\ tx'.seqNum \in Nat /\ Len(pdus') \in Nat
      /\ tx'.firstSeqNum \in Nat
  BY DEF TxStep, QueueOver, NumberedPdus, TxQueueType
<1>2. rx' = rx /\ taken' = taken /\ delivered' = delivered /\ stale' = stale
  BY DEF TxStep
<1>3. Grows
  BY <1>1, <1>2, InvFacts DEF TxStep, TxGrows, Grows
<1>4. Finished \subseteq Finished'
  BY <1>3 DEF Grows, Finished
<1>5. TypeOK'
  <2>1. given' \subseteq Nat
    <3>1. given' \ given \subseteq Nat
      BY <1>1 DEF TxStep
    <3> QED BY <3>1 DEF Inv, TypeOK
  <2>2. net' \subseteq PduMessage
    BY DEF Inv, TypeOK, TxStep
  <2> QED BY <1>1, <1>2, <2>1, <2>2 DEF Inv, TypeOK, TxStep, NumberedPdus
<1>6. NeverThrows'
  BY DEF TxStep, NeverThrows
<1>7. TxOK'
  BY <1>1 DEF TxStep, TxOK, Numbered, NumberedPdus
<1>8. HistoryOK'
  <2>1. NothingSkipped'
    BY <1>2, <1>4 DEF Inv, HistoryOK, NothingSkipped, TxStep
  <2>2. Finished' \subseteq 0 .. tx'.seqNum - 1
    <3>1. Finished \subseteq 0 .. tx'.seqNum - 1
      BY <1>1, <1>3, InvFacts DEF Inv, HistoryOK, Grows
    <3>2. Finished' = Finished \cup (given' \ given)
      BY <1>2, <1>3 DEF Finished, Grows
    <3> QED BY <3>1, <3>2 DEF TxStep
  <2>3. \A i \in Slot : tx'.discarded[i] => tx'.firstSeqNum + i \in given'
    BY DEF TxStep
  <2> QED BY <2>1, <2>2, <2>3 DEF HistoryOK
<1>9. MessagesOK'
  <2>1. \A m \in net' : MessageOK(m)'
    BY <1>3, MessagesStayOK DEF TxStep
  <2>2. ASSUME NEW id \in MrwId, tx'.mrwRtxQueue[id] # NoMrw
        PROVE  WillBeMovable(tx'.mrwRtxQueue[id])
    <3>1. CASE tx'.mrwRtxQueue[id] = tx.mrwRtxQueue[id]
      <4>1. tx.mrwRtxQueue[id] \in Nat
        BY <2>2, <3>1 DEF Inv, TypeOK, TxQueueType, Number, NoMrw
      <4>2. Movable(tx.mrwRtxQueue[id])
        BY <2>2, <3>1 DEF Inv, MessagesOK
      <4> QED BY <1>3, <3>1, <4>1, <4>2, MovableStays
    <3> QED BY <2>2, <3>1 DEF TxStep
  <2> QED BY <2>1, <2>2 DEF MessagesOK, Movable, WillBeMovable
<1>10. RxOK'
  <2>1. WindowsOverlap'
    BY <1>2, <1>1, <1>3, InvFacts DEF WindowsOverlap, TxStep, Grows
  <2>2. StatusIsTrue'
    BY <1>2 DEF Inv, RxOK, StatusIsTrue
  <2>3. ASSUME NEW i \in RxSlot, rx.pduBuffer[i] # NoPdu
        PROVE  /\ rx.firstSeqNum + i < tx'.seqNum /\ rx.firstSeqNum + i \in taken
               /\ rx.pduBuffer[i] = pdus'[rx.firstSeqNum + i + 1]
    <3>1. /\ rx.firstSeqNum + i < tx.seqNum /\ rx.firstSeqNum + i \in taken
          /\ rx.pduBuffer[i] = pdus[rx.firstSeqNum + i + 1]
      BY <2>3 DEF Inv, RxOK
    <3>2. i \in Nat
      BY InvFacts, RxQueueFacts
    <3>3. rx.firstSeqNum + i + 1 \in 1 .. Len(pdus)
          /\ rx.firstSeqNum + i < tx'.seqNum
      <4> DEFINE sn == rx.firstSeqNum + i
                 len == Len(pdus)
                 before == tx.seqNum
                 after == tx'.seqNum
      <4>1. sn \in Nat /\ len \in Nat /\ before \in Nat /\ before <= len
        BY <3>2, InvFacts
      <4>2. after \in Nat /\ before <= after
        BY <1>3 DEF Grows
      <4>3. sn < before
        BY <3>1
      <4> HIDE DEF sn, len, before, after
      <4>4. sn + 1 \in 1 .. len /\ sn < after
        BY <4>1, <4>2, <4>3
      <4> QED BY <4>4 DEF sn, len, after
    <3> QED BY <1>3, <3>1, <3>3 DEF Grows
  <2> QED BY <1>2, <2>1, <2>2, <2>3 DEF RxOK
<1>11. WholeOK'
  BY <1>2 DEF Inv, WholeOK, TxStep, TxGrows
<1> QED BY <1>5, <1>6, <1>7, <1>8, <1>9, <1>10, <1>11 DEF Inv

----------------------------------------------------------------------------
(* The actions of the transmitter.                                         *)

\* checkForMrw, in a queue in which every settled PDU is in finished, if no
\* status is stale.
LEMMA CheckForMrwKeeps ==
  ASSUME Inv, NEW q, QueueOver(q, pdus), MrwBound(q),
         q.firstSeqNum = tx.firstSeqNum, q.seqNum = tx.seqNum,
         NEW finished, Finished \subseteq finished,
         ~stale => \A i \in Slot : Settled(q, i) => q.firstSeqNum + i \in finished
  PROVE  /\ QueueOver(CheckForMrw(q), pdus)
         /\ CheckForMrw(q).firstSeqNum = q.firstSeqNum
         /\ CheckForMrw(q).seqNum = q.seqNum
         /\ CheckForMrw(q).received = q.received
         /\ CheckForMrw(q).discarded = q.discarded
         /\ \A id \in MrwId :
              CheckForMrw(q).mrwRtxQueue[id] \in {q.mrwRtxQueue[id], MrwSeqNum(q)}
         /\ MrwSeqNum(q) \in Nat /\ MrwSeqNum(q) <= tx.seqNum
         /\ ~stale => 0 .. MrwSeqNum(q) - 1 \subseteq finished
         /\ \A m \in MrwSent(q) : m \in PduMessage /\ m.type = "MRW"
                                  /\ m.lastSn = MrwSeqNum(q)
<1>1. /\ MrwSeqNum(q) \in Nat /\ MrwSeqNum(q) <= tx.seqNum
      /\ \A sn \in q.firstSeqNum .. MrwSeqNum(q) - 1 :
              Index(q, sn) \in Slot /\ Settled(q, Index(q, sn))
  BY MrwFacts, InvFacts
<1>2. ASSUME ~stale, NEW sn \in 0 .. MrwSeqNum(q) - 1
      PROVE  sn \in finished
  <2>1. CASE sn < tx.firstSeqNum
    <3>1. sn \in 0 .. rx.firstSeqNum - 1
      BY <1>1, <2>1, InvFacts
    <3> QED BY <1>2, <3>1 DEF Inv, HistoryOK, NothingSkipped
  <2>2. CASE sn >= tx.firstSeqNum
    <3>1. sn \in q.firstSeqNum .. MrwSeqNum(q) - 1
          /\ q.firstSeqNum + Index(q, sn) = sn
      BY <1>1, <2>2, InvFacts DEF Index
    <3>2. Index(q, sn) \in Slot /\ Settled(q, Index(q, sn))
      BY <1>1, <3>1
    <3> QED BY <1>2, <3>1, <3>2
  <2> QED BY <1>1, <2>1, <2>2, InvFacts
<1>3. CASE ~MrwDue(q)
  BY <1>1, <1>2, <1>3 DEF CheckForMrw, MrwSent
<1>4. CASE MrwDue(q)
  <2>1. NextMrwId \in MrwId
    BY <1>4 DEF MrwBound, NextMrwId, FreshMrwIds
  <2> DEFINE id0 == NextMrwId
  <2>2. id0 \in MrwId /\ CheckForMrw(q) = SendMrw(q, id0)
        /\ MrwSent(q) = {Mrw(id0, MrwSeqNum(q))}
    BY <1>4, <2>1 DEF CheckForMrw, MrwSent
  <2> HIDE DEF id0
  <2>3. Mrw(id0, MrwSeqNum(q)) \in PduMessage
    BY <1>1, <2>2 DEF Mrw, PduMessage
  <2>4. q.mrwRtxQueue \in [MrwId -> Number]
    BY DEF QueueOver, TxQueueType
  <2>5. /\ QueueOver(SendMrw(q, id0), pdus)
        /\ SendMrw(q, id0).firstSeqNum = q.firstSeqNum
        /\ SendMrw(q, id0).seqNum = q.seqNum
        /\ SendMrw(q, id0).received = q.received
        /\ SendMrw(q, id0).discarded = q.discarded
        /\ SendMrw(q, id0).mrwRtxQueue =
             [q.mrwRtxQueue EXCEPT ![id0] = MrwSeqNum(q)]
    BY <2>2, SendMrwKeeps
  <2> QED BY <1>1, <1>2, <2>2, <2>3, <2>4, <2>5 DEF Mrw
<1> QED BY <1>3, <1>4

\* What addPdus sends is what it puts into the window.
LEMMA AddedOK ==
  ASSUME Inv, tx'.seqNum \in Nat, QueueOver(tx', pdus')
  PROVE  \A m \in Added : m \in PduMessage /\ MessageOK(m)'
<1> SUFFICES ASSUME NEW sn \in tx.seqNum .. tx'.seqNum - 1,
                    NEW m, m = DataPdu(pdus'[sn + 1])
             PROVE  m \in PduMessage /\ MessageOK(m)'
  BY DEF Added
<1>1. tx'.seqNum <= Len(pdus') /\ Len(pdus') \in Nat /\ NumberedPdus(pdus')
  BY QueueFacts DEF QueueOver, NumberedPdus
<1>2. sn \in Nat /\ sn \in 0 .. tx'.seqNum - 1 /\ sn + 1 \in 1 .. Len(pdus')
  BY <1>1, InvFacts
<1>3. pdus'[sn + 1] \in PduType /\ pdus'[sn + 1].sn = sn
  BY <1>1, <1>2 DEF NumberedPdus
<1>4. m.type = "DATA" /\ m.pdu = pdus'[sn + 1] /\ m \in PduMessage
  BY <1>3 DEF DataPdu, PduMessage
<1> QED BY <1>2, <1>3, <1>4 DEF MessageOK

\* What the history says of the queue.
LEMMA TxHistory ==
  ASSUME Inv
  PROVE  /\ \A i \in Slot : tx.discarded[i] => tx.firstSeqNum + i \in given
         /\ ~stale => \A i \in Slot :
              /\ tx.received[i] => tx.firstSeqNum + i \in Finished
              /\ Settled(tx, i) => tx.firstSeqNum + i \in Finished
BY DEF Inv, HistoryOK, NothingSkipped, Settled, Finished

\* A step that leaves the PDUs and the receiver's history alone.
LEMMA SamePdus ==
  ASSUME Inv, UNCHANGED <<pdus, sdus>>, Running
  PROVE  /\ error = "none" /\ sdus' \in 0 .. NumSdu /\ Len(pdus') >= Len(pdus)
         /\ \A n \in 1 .. Len(pdus) : pdus'[n] = pdus[n]
         /\ AllWhole' =>
              /\ AllWhole /\ sdus' = Len(pdus')
              /\ \A n \in DOMAIN pdus' : pdus'[n].sdu = n - 1 /\ IsFirst(pdus'[n])
<1>1. AllWhole' <=> AllWhole
  BY DEF AllWhole
<1> QED BY <1>1, InvFacts DEF Inv, TypeOK, WholeOK, Running

\* A run-time error leaves everything as it was; it has to be one that the
\* invariant allows.
LEMMA FailKeepsInv ==
  ASSUME Inv, Running, NEW what \in {"tx", "window", "buffer", "order", "null"},
         Fail(what),
         what \in {"tx", "buffer"} => stale,
         what = "window" => RxWindowSize < TxWindowSize,
         what = "order" => ~AllWhole
  PROVE  Inv'
<1>1. /\ error' = what
      /\ UNCHANGED <<pdus, sdus, tx, rx, net, taken, delivered, given, stale>>
  BY DEF Fail, history
<1>2. TypeOK' /\ NeverThrows'
  BY <1>1 DEF Inv, TypeOK, NeverThrows
<1>3. TxOK' /\ HistoryOK' /\ RxOK'
  BY <1>1 DEF Inv, TxOK, Numbered, HistoryOK, NothingSkipped, Finished, RxOK,
              WindowsOverlap, StatusIsTrue
<1>4. Finished' = Finished
  BY <1>1 DEF Finished
<1>5. MessagesOK'
  BY <1>1, <1>4 DEF Inv, MessagesOK, MessageOK, Movable
<1>6. AllWhole' <=> AllWhole
  BY <1>1 DEF AllWhole
<1>7. WholeOK'
  BY <1>1, <1>6 DEF Inv, WholeOK
<1> QED BY <1>2, <1>3, <1>5, <1>7 DEF Inv

\* No PDU that was not sent is acknowledged, unless a status is stale.
LEMMA NothingBehind ==
  ASSUME Inv, ~stale, NEW i \in Slot, i >= Used(tx)
  PROVE  ~tx.received[i]
<1>1. tx.received[i] => tx.firstSeqNum + i \in 0 .. tx.seqNum - 1
  BY DEF Inv, HistoryOK, NothingSkipped
<1> QED BY <1>1, InvFacts DEF Used, Slot

LEMMA EnqueKeepsInv ==
  ASSUME Inv, Running, NEW n \in 1 .. MaxPdus, Enque(n)
  PROVE  Inv'
<1> DEFINE new == [k \in 1 .. n |->
              [sn |-> Len(pdus) + k - 1, sdu |-> sdus,
               firstSn |-> Len(pdus), lastSn |-> Len(pdus) + n - 1]]
           all == pdus \o new
<1>1. n \in Nat /\ n > 0 /\ Len(pdus) \in Nat /\ sdus \in Nat /\ NumSdu \in Nat
  BY AmAssumption, InvFacts DEF Inv, TypeOK
<1>2. new \in Seq(PduType) /\ Len(new) = n
  <2>1. new \in [1 .. n -> PduType]
    BY <1>1 DEF PduType, Number
  <2> HIDE DEF new
  <2> QED BY <1>1, <2>1
<1>3. pdus \in Seq(PduType)
  BY DEF Inv, TypeOK
<1>4. \A k \in 1 .. n : /\ new[k].sn = Len(pdus) + k - 1 /\ new[k].sdu = sdus
                        /\ new[k].firstSn = Len(pdus)
                        /\ new[k].lastSn = Len(pdus) + n - 1
  OBVIOUS
<1> HIDE DEF new
<1>5. /\ all \in Seq(PduType) /\ Len(all) = Len(pdus) + n
      /\ DOMAIN all = 1 .. Len(pdus) + n
      /\ \A k \in 1 .. Len(pdus) : all[k] = pdus[k]
      /\ \A k \in 1 .. n : all[Len(pdus) + k] = new[k]
  <2>1. all \in Seq(PduType)
    BY <1>2, <1>3
  <2>2. Len(all) = Len(pdus) + n
    BY <1>2, <1>3
  <2>3. \A k \in 1 .. Len(pdus) : all[k] = pdus[k]
    BY <1>2, <1>3
  <2>4. \A k \in 1 .. n : all[Len(pdus) + k] = new[k]
    BY <1>2, <1>3
  <2> HIDE DEF all
  <2>5. DOMAIN all = 1 .. Len(pdus) + n
    BY <2>1, <2>2
  <2> QED BY <2>1, <2>2, <2>3, <2>4, <2>5
<1>a. Enque(n) <=>
        /\ sdus < NumSdu /\ Len(pdus) + n <= MaxPdus
        /\ IF AddPdusThrows(tx, all) THEN Fail("tx") ELSE
              /\ sdus' = sdus + 1 /\ pdus' = all /\ tx' = AddPdus(tx, all)
              /\ net' = net \cup Added
              /\ UNCHANGED <<rx, error, history>>
  BY DEF Enque, new
<1> HIDE DEF all
<1>6. \A k \in DOMAIN all : k \notin 1 .. Len(pdus) =>
         k - Len(pdus) \in 1 .. n /\ all[k] = new[k - Len(pdus)]
         /\ all[k].sn = k - 1
  <2> SUFFICES ASSUME NEW k \in DOMAIN all, k \notin 1 .. Len(pdus)
               PROVE  k - Len(pdus) \in 1 .. n /\ all[k] = new[k - Len(pdus)]
                      /\ all[k].sn = k - 1
    OBVIOUS
  <2>1. k - Len(pdus) \in 1 .. n /\ Len(pdus) + (k - Len(pdus)) = k
    BY <1>1, <1>5
  <2>2. all[k] = new[k - Len(pdus)]
    BY <1>5, <2>1
  <2>3. new[k - Len(pdus)].sn = Len(pdus) + (k - Len(pdus)) - 1
    BY <1>4, <2>1
  <2> QED BY <1>1, <2>1, <2>2, <2>3
<1>7. QueueOver(tx, all)
  <2>1. NumberedPdus(all)
    <3>1. \A k \in 1 .. Len(pdus) : pdus[k].sn = k - 1
      BY InvFacts DEF Inv, TxOK, Numbered
    <3> QED BY <1>5, <1>6, <3>1 DEF NumberedPdus
  <2>2. tx.seqNum <= Fill(tx, all)
    BY <1>1, <1>5, InvFacts DEF Fill
  <2>3. InTheirSlots(tx, all)
    <3>1. \A i \in Slot : i < Used(tx) => tx.firstSeqNum + i + 1 \in 1 .. Len(pdus)
      BY InvFacts, QueueFacts
    <3>2. InTheirSlots(tx, pdus)
      BY InvFacts DEF QueueOver, InOrder
    <3> QED BY <1>5, <3>1, <3>2 DEF InTheirSlots
  <2> QED BY <2>1, <2>2, <2>3, InvFacts DEF QueueOver, InOrder
<1>8. CASE AddPdusThrows(tx, all)
  <2>1. stale
    BY <1>7, <1>8, AddPdusFindsRoom, NothingBehind
  <2> QED BY <1>a, <1>8, <2>1, FailKeepsInv
<1>9. CASE ~AddPdusThrows(tx, all)
  <2>0. /\ pdus' = all /\ tx' = AddPdus(tx, all) /\ net' = net \cup Added
        /\ sdus' = sdus + 1 /\ sdus < NumSdu
        /\ UNCHANGED <<rx, error, history>>
    BY <1>a, <1>9
  <2>1. /\ QueueOver(tx', pdus')
        /\ tx'.seqNum = Fill(tx', pdus') /\ tx'.seqNum >= tx.seqNum
        /\ tx'.firstSeqNum = tx.firstSeqNum /\ tx'.received = tx.received
        /\ tx'.discarded = tx.discarded /\ tx'.mrwRtxQueue = tx.mrwRtxQueue
    BY <1>7, <1>9, <2>0, AddPdusKeeps
  <2>2. tx'.seqNum \in Nat
    BY <2>1 DEF QueueOver, TxQueueType
  <2>3. /\ error = "none" /\ error' = "none" /\ net' = net \cup Added
        /\ UNCHANGED <<rx, taken, delivered, given, stale>>
        /\ sdus' = sdus + 1 /\ sdus < NumSdu
    BY <2>0 DEF history, Running
  <2>4. AllWhole' =>
          /\ AllWhole /\ sdus' = Len(pdus')
          /\ \A k \in DOMAIN pdus' : pdus'[k].sdu = k - 1 /\ IsFirst(pdus'[k])
    <3> SUFFICES ASSUME AllWhole'
                 PROVE  /\ AllWhole /\ sdus' = Len(pdus')
                        /\ \A k \in DOMAIN pdus' :
                             pdus'[k].sdu = k - 1 /\ IsFirst(pdus'[k])
      OBVIOUS
    <3>1. AllWhole
      BY <1>1, <1>5, <2>0, InvFacts DEF AllWhole
    <3>2. sdus = Len(pdus) /\ \A k \in DOMAIN pdus : pdus[k].sdu = k - 1 /\ IsFirst(pdus[k])
      BY <3>1 DEF Inv, WholeOK
    <3>3. n = 1
      <4>1. IsWhole(pdus'[Len(pdus) + 1])
        BY <1>1, <1>5, <2>0 DEF AllWhole
      <4>2. pdus'[Len(pdus) + 1] = new[1] /\ 1 \in 1 .. n
        BY <1>1, <1>5, <2>0
      <4>3. Len(pdus) = Len(pdus) + n - 1
        BY <1>4, <4>1, <4>2 DEF IsWhole
      <4> QED BY <1>1, <4>3
    <3>4. ASSUME NEW k \in DOMAIN pdus', k \notin 1 .. Len(pdus)
          PROVE  pdus'[k].sdu = k - 1 /\ IsFirst(pdus'[k])
      <4>1. k = Len(pdus) + 1 /\ pdus'[k] = new[1]
        BY <1>1, <1>5, <1>6, <2>0, <3>3, <3>4
      <4>2. pdus'[k].sdu = sdus /\ pdus'[k].firstSn = Len(pdus) /\ pdus'[k].sn = Len(pdus)
        BY <1>1, <1>4, <3>3, <4>1
      <4> QED BY <1>1, <3>2, <4>1, <4>2 DEF IsFirst
    <3> QED BY <1>5, <2>0, <2>3, <3>1, <3>2, <3>3, <3>4, InvFacts
  <2>5. \A m \in net' \ net : m \in PduMessage /\ MessageOK(m)'
    BY <2>1, <2>2, <2>3, AddedOK
  <2>6. TxStep
    <3>1. Finished' = Finished
      BY <2>3 DEF Finished
    <3>2. sdus' \in 0 .. NumSdu /\ Len(pdus') >= Len(pdus)
      BY <1>1, <1>5, <2>0, <2>3
    <3>3. tx'.firstSeqNum <= rx.firstSeqNum
      BY <2>1, InvFacts
    <3> QED BY <1>5, <2>0, <2>1, <2>3, <2>4, <2>5, <3>1, <3>2, <3>3, TxHistory
        DEF TxStep, TxGrows
  <2> QED BY <2>6, TxStepKeepsInv
<1> QED BY <1>8, <1>9

\* What a queue q that a handler leaves behind has to be, and what it sends.
LEMMA QueueStep ==
  ASSUME Inv, Running,
         UNCHANGED <<pdus, sdus, rx, error, taken, delivered, stale>>,
         QueueOver(tx', pdus), tx'.seqNum = Fill(tx', pdus),
         tx'.seqNum >= tx.seqNum, tx'.firstSeqNum <= rx.firstSeqNum,
         given \subseteq given', given' \ given \subseteq 0 .. tx.seqNum - 1,
         ~stale => \A i \in Slot :
           tx'.received[i] => tx'.firstSeqNum + i \in Finished',
         \A i \in Slot : tx'.discarded[i] => tx'.firstSeqNum + i \in given',
         \A m \in net' \ net : m \in PduMessage /\ MessageOK(m)',
         \A id \in MrwId : tx'.mrwRtxQueue[id] # NoMrw =>
            \/ tx'.mrwRtxQueue[id] = tx.mrwRtxQueue[id]
            \/ WillBeMovable(tx'.mrwRtxQueue[id])
  PROVE  Inv'
<1>1. tx'.seqNum \in Nat
  BY DEF QueueOver, TxQueueType
<1>2. given' \ given \subseteq 0 .. tx'.seqNum - 1
  BY <1>1, InvFacts
<1>3. TxStep
  BY <1>2, SamePdus DEF TxStep, TxGrows
<1> QED BY <1>3, TxStepKeepsInv

\* Such a handler that leaves the PDUs of the window where they are.
LEMMA SameWindow ==
  ASSUME Inv, NEW q, q.firstSeqNum = tx.firstSeqNum, q.seqNum = tx.seqNum
  PROVE  q.seqNum = Fill(q, pdus) /\ q.seqNum >= tx.seqNum
         /\ q.firstSeqNum <= rx.firstSeqNum
BY InvFacts DEF Fill

LEMMA PduTimerKeepsInv ==
  ASSUME Inv, Running, NEW sn \in tx.pduTimer, PduTimer(sn)
  PROVE  Inv'
<1> DEFINE q == [tx EXCEPT !.pduTimer = @ \ {sn}]
           dropped == Discard(q, sn)
<1>1. /\ ~PduTimerThrows(tx, sn) /\ sn \in Nat /\ sn \in Window(tx)
      /\ sn + 1 \in DOMAIN pdus
      /\ tx.pduRtxQueue[Index(tx, sn)].pdu = pdus[sn + 1]
  BY InvFacts, TimerFindsPdu
<1>2. CASE /\ tx' = Retransmit(tx, sn)
           /\ net' = net \cup {DataPdu(tx.pduRtxQueue[Index(tx, sn)].pdu)}
           /\ UNCHANGED <<pdus, sdus, rx, error, history>>
  <2>1. /\ QueueOver(tx', pdus) /\ tx'.firstSeqNum = tx.firstSeqNum
        /\ tx'.seqNum = tx.seqNum /\ tx'.received = tx.received
        /\ tx'.discarded = tx.discarded /\ tx'.mrwRtxQueue = tx.mrwRtxQueue
    BY <1>2, InvFacts, RetransmitKeeps
  <2>2. DataPdu(pdus[sn + 1]) \in PduMessage /\ pdus[sn + 1].sn = sn
        /\ DataPdu(pdus[sn + 1]).type = "DATA"
        /\ DataPdu(pdus[sn + 1]).pdu = pdus[sn + 1]
    BY <1>1 DEF Inv, TypeOK, TxOK, Numbered, DataPdu, PduMessage
  <2>3. sn \in 0 .. tx'.seqNum - 1
    BY <1>1, <2>1, InvFacts DEF Window
  <2>4. \A m \in net' \ net : m \in PduMessage /\ MessageOK(m)'
    BY <1>1, <1>2, <2>2, <2>3 DEF MessageOK
  <2>5. Finished' = Finished /\ UNCHANGED <<taken, delivered, given, stale>>
    BY <1>2 DEF Finished, history
  <2> QED BY <1>2, <2>1, <2>4, <2>5, SameWindow, TxHistory, QueueStep
<1>3. CASE /\ MrwBound(dropped)
           /\ tx' = CheckForMrw(dropped)
           /\ net' = net \cup MrwSent(dropped)
           /\ given' = given \cup {s \in Window(tx) : dropped.discarded[Index(tx, s)]}
           /\ UNCHANGED <<pdus, sdus, rx, error, taken, delivered, stale>>
  <2>1. /\ QueueOver(dropped, pdus) /\ dropped.firstSeqNum = tx.firstSeqNum
        /\ dropped.seqNum = tx.seqNum /\ dropped.received = tx.received
        /\ dropped.mrwRtxQueue = tx.mrwRtxQueue
    BY InvFacts, DiscardKeeps
  <2> HIDE DEF dropped
  <2>2. given \subseteq given' /\ given' \ given \subseteq 0 .. tx.seqNum - 1
    BY <1>3, InvFacts DEF Window
  <2>3. Finished \subseteq Finished'
    BY <1>3, <2>2 DEF Finished
  <2>4. \A i \in Slot : dropped.discarded[i] => tx.firstSeqNum + i \in given'
    <3> SUFFICES ASSUME NEW i \in Slot, dropped.discarded[i]
                 PROVE  tx.firstSeqNum + i \in given'
      OBVIOUS
    <3>1. i \in Nat /\ i < Used(tx)
      <4>1. i \in Nat
        BY InvFacts DEF Slot
      <4>2. ~(i >= Used(dropped))
        BY <2>1 DEF QueueOver, InOrder, FreeBehind
      <4> QED BY <2>1, <4>1, <4>2, InvFacts DEF Used
    <3>2. tx.firstSeqNum + i \in Window(tx) /\ Index(tx, tx.firstSeqNum + i) = i
      BY <3>1, InvFacts DEF Window, Index, Used
    <3> QED BY <1>3, <3>2
  <2>5. ~stale => \A i \in Slot :
          Settled(dropped, i) => dropped.firstSeqNum + i \in Finished'
    BY <2>1, <2>3, <2>4, TxHistory DEF Settled, Finished
  <2>6. /\ QueueOver(tx', pdus) /\ tx'.firstSeqNum = tx.firstSeqNum
        /\ tx'.seqNum = tx.seqNum /\ tx'.received = tx.received
        /\ tx'.discarded = dropped.discarded
        /\ \A id \in MrwId :
              tx'.mrwRtxQueue[id] \in {tx.mrwRtxQueue[id], MrwSeqNum(dropped)}
        /\ MrwSeqNum(dropped) \in Nat /\ MrwSeqNum(dropped) <= tx.seqNum
        /\ ~stale => 0 .. MrwSeqNum(dropped) - 1 \subseteq Finished'
        /\ \A m \in MrwSent(dropped) :
              m \in PduMessage /\ m.type = "MRW" /\ m.lastSn = MrwSeqNum(dropped)
    BY <1>3, <2>1, <2>3, <2>5, CheckForMrwKeeps
  <2>7. \A m \in net' \ net : m \in PduMessage /\ MessageOK(m)'
    BY <1>3, <2>6 DEF MessageOK, Movable
  <2>8. \A id \in MrwId : tx'.mrwRtxQueue[id] # NoMrw =>
            \/ tx'.mrwRtxQueue[id] = tx.mrwRtxQueue[id]
            \/ WillBeMovable(tx'.mrwRtxQueue[id])
    BY <1>3, <2>6 DEF WillBeMovable
  <2>9. /\ ~stale => \A i \in Slot :
             tx'.received[i] => tx'.firstSeqNum + i \in Finished'
        /\ \A i \in Slot : tx'.discarded[i] => tx'.firstSeqNum + i \in given'
    BY <2>3, <2>4, <2>6, TxHistory
  <2>10. /\ tx'.seqNum = Fill(tx', pdus) /\ tx'.seqNum >= tx.seqNum
         /\ tx'.firstSeqNum <= rx.firstSeqNum
    BY <2>6, SameWindow
  <2> QED BY <1>3, <2>2, <2>6, <2>7, <2>8, <2>9, <2>10, QueueStep
<1> QED BY <1>1, <1>2, <1>3 DEF PduTimer

LEMMA MrwTimerKeepsInv ==
  ASSUME Inv, Running, NEW id \in MrwId, MrwTimer(id)
  PROVE  Inv'
<1>1. tx' = tx \/ tx' = RecvMrwAck(tx, id)
  BY DEF MrwTimer
<1>2. /\ QueueOver(tx', pdus) /\ tx'.firstSeqNum = tx.firstSeqNum
      /\ tx'.seqNum = tx.seqNum /\ tx'.received = tx.received
      /\ tx'.discarded = tx.discarded
      /\ \A k \in MrwId : tx'.mrwRtxQueue[k] \in {tx.mrwRtxQueue[k], NoMrw}
  <2>1. tx.mrwRtxQueue \in [MrwId -> Number]
    BY InvFacts DEF QueueOver, TxQueueType
  <2>2. /\ QueueOver(RecvMrwAck(tx, id), pdus)
        /\ RecvMrwAck(tx, id).firstSeqNum = tx.firstSeqNum
        /\ RecvMrwAck(tx, id).seqNum = tx.seqNum
        /\ RecvMrwAck(tx, id).received = tx.received
        /\ RecvMrwAck(tx, id).discarded = tx.discarded
        /\ RecvMrwAck(tx, id).mrwRtxQueue = [tx.mrwRtxQueue EXCEPT ![id] = NoMrw]
    BY InvFacts, RecvMrwAckKeeps
  <2>3. CASE tx' = tx
    BY <2>3, InvFacts
  <2>4. CASE tx' = RecvMrwAck(tx, id)
    BY <2>1, <2>2, <2>4
  <2> QED BY <1>1, <2>3, <2>4
<1>3. UNCHANGED <<pdus, sdus, rx, error, taken, delivered, given, stale>>
      /\ tx.mrwRtxQueue[id] # NoMrw
  BY DEF MrwTimer, history
<1>4. \A m \in net' \ net : m \in PduMessage /\ MessageOK(m)'
  <2> SUFFICES ASSUME NEW m \in net' \ net
               PROVE  m \in PduMessage /\ MessageOK(m)'
    OBVIOUS
  <2>1. m = Mrw(id, tx.mrwRtxQueue[id])
    BY DEF MrwTimer
  <2>2. tx.mrwRtxQueue[id] \in Nat /\ Movable(tx.mrwRtxQueue[id])
    BY <1>3 DEF Inv, MessagesOK, TypeOK, TxQueueType, Number, NoMrw
  <2>3. Finished' = Finished
    BY <1>3 DEF Finished
  <2> QED BY <1>2, <1>3, <2>1, <2>2, <2>3 DEF Mrw, PduMessage, MessageOK, Movable
<1>5. Finished' = Finished
  BY <1>3 DEF Finished
<1> QED BY <1>2, <1>3, <1>4, <1>5, SameWindow, TxHistory, QueueStep

LEMMA BufferStatusTimerKeepsInv ==
  ASSUME Inv, Running, BufferStatusTimer
  PROVE  Inv'
<1>1. /\ MrwBound(tx) /\ tx' = [CheckForMrw(tx) EXCEPT !.bufferStatusTimer = FALSE]
      /\ net' = net \cup MrwSent(tx)
      /\ UNCHANGED <<pdus, sdus, rx, error, taken, delivered, given, stale>>
  BY DEF BufferStatusTimer, history
<1>2. Finished' = Finished
  BY <1>1 DEF Finished
<1> DEFINE q == CheckForMrw(tx)
<1>3. /\ QueueOver(q, pdus) /\ q.firstSeqNum = tx.firstSeqNum
      /\ q.seqNum = tx.seqNum /\ q.received = tx.received
      /\ q.discarded = tx.discarded
      /\ \A id \in MrwId : q.mrwRtxQueue[id] \in {tx.mrwRtxQueue[id], MrwSeqNum(tx)}
      /\ MrwSeqNum(tx) \in Nat /\ MrwSeqNum(tx) <= tx.seqNum
      /\ ~stale => 0 .. MrwSeqNum(tx) - 1 \subseteq Finished
      /\ \A m \in MrwSent(tx) :
           m \in PduMessage /\ m.type = "MRW" /\ m.lastSn = MrwSeqNum(tx)
  BY <1>1, InvFacts, TxHistory, CheckForMrwKeeps
<1> HIDE DEF q
<1>4. /\ tx' \in TxQueueType
      /\ tx'.firstSeqNum = q.firstSeqNum /\ tx'.seqNum = q.seqNum
      /\ tx'.received = q.received /\ tx'.discarded = q.discarded
      /\ tx'.pduTimer = q.pduTimer /\ tx'.pduRtxQueue = q.pduRtxQueue
      /\ tx'.mrwRtxQueue = q.mrwRtxQueue
  <2>1. q \in TxQueueType /\ tx' = [q EXCEPT !.bufferStatusTimer = FALSE]
    BY <1>1, <1>3 DEF QueueOver, q
  <2> QED BY <2>1 DEF TxQueueType
<1>5. QueueOver(tx', pdus)
  BY <1>3, <1>4, SameOrder
<1>6. \A m \in net' \ net : m \in PduMessage /\ MessageOK(m)'
  BY <1>1, <1>2, <1>3, <1>4 DEF MessageOK, Movable
<1>7. \A id \in MrwId : tx'.mrwRtxQueue[id] # NoMrw =>
            \/ tx'.mrwRtxQueue[id] = tx.mrwRtxQueue[id]
            \/ WillBeMovable(tx'.mrwRtxQueue[id])
  BY <1>1, <1>2, <1>3, <1>4 DEF WillBeMovable
<1>8. /\ tx'.seqNum = Fill(tx', pdus) /\ tx'.seqNum >= tx.seqNum
      /\ tx'.firstSeqNum <= rx.firstSeqNum
  BY <1>3, <1>4, SameWindow
<1>9. /\ ~stale => \A i \in Slot :
           tx'.received[i] => tx'.firstSeqNum + i \in Finished'
      /\ \A i \in Slot : tx'.discarded[i] => tx'.firstSeqNum + i \in given'
  BY <1>1, <1>2, <1>3, <1>4, TxHistory
<1> QED BY <1>1, <1>5, <1>6, <1>7, <1>8, <1>9, QueueStep

\* A status report acknowledges nothing outside the window, unless a status is
\* stale.
LEMMA ReportInWindow ==
  ASSUME Inv, ~stale, NEW m \in net, m.type = "ACK"
  PROVE  ~CumulativeAckThrows(tx, m.lastSn) /\ ~BitmapAckThrows(tx, m.acked)
<1>1. 0 .. m.lastSn \cup m.acked \subseteq 0 .. tx.seqNum - 1 /\ m.lastSn \in Number
  BY DEF Inv, TypeOK, HistoryOK, MessagesOK, MessageOK, PduMessage
<1>2. m.lastSn < tx.seqNum /\ m.lastSn \in Int
  <2>1. CASE m.lastSn = -1
    BY <2>1, InvFacts
  <2>2. CASE m.lastSn \in Nat
    <3>1. m.lastSn \in 0 .. m.lastSn
      BY <2>2
    <3>2. m.lastSn \in 0 .. tx.seqNum - 1
      BY <1>1, <3>1
    <3> QED BY <2>2, <3>2, InvFacts
  <2> QED BY <1>1, <2>1, <2>2 DEF Number
<1>3. \A sn \in m.acked : sn \in Nat /\ sn < tx.seqNum
  <2>1. \A sn \in m.acked : sn \in 0 .. tx.seqNum - 1
    BY <1>1
  <2> QED BY <2>1, InvFacts
<1> QED BY <1>2, <1>3, InvFacts DEF CumulativeAckThrows, BitmapAckThrows, Index

LEMMA ReceiveAckKeepsInv ==
  ASSUME Inv, Running, NEW m \in net, ReceiveAck(m)
  PROVE  Inv'
<1> DEFINE ignored == CumulativeAckIgnored(tx, m.lastSn)
           q == RecvCumulativeAck(tx, m.lastSn)
           c == IF ignored THEN tx ELSE CheckForMrw(q)
           throws == CumulativeAckThrows(tx, m.lastSn) \/ BitmapAckThrows(tx, m.acked)
<1>1. m.type = "ACK" /\ m.lastSn \in Int
      /\ (~stale => 0 .. m.lastSn \cup m.acked \subseteq Finished)
  BY DEF ReceiveAck, Inv, TypeOK, MessagesOK, MessageOK, PduMessage, Number
<1>2. throws => Fail("tx") /\ stale
  BY <1>1, ReportInWindow DEF ReceiveAck
<1>3. CASE throws
  BY <1>2, <1>3, FailKeepsInv
<1>4. CASE ~throws
  <2>1. /\ ignored \/ MrwBound(q)
        /\ tx' = MarkReceived(c, m.acked)
        /\ net' = (net \ {m}) \cup (IF ignored THEN {} ELSE MrwSent(q))
        /\ UNCHANGED <<pdus, sdus, rx, error, taken, delivered, given, stale>>
    BY <1>4 DEF ReceiveAck, history
  <2>2. Finished' = Finished
    BY <2>1 DEF Finished
  <2>3. /\ QueueOver(c, pdus) /\ c.firstSeqNum = tx.firstSeqNum
        /\ c.seqNum = tx.seqNum /\ c.discarded = tx.discarded
        /\ ~stale => \A i \in Slot : c.received[i] => tx.firstSeqNum + i \in Finished
        /\ \A id \in MrwId :
             \/ c.mrwRtxQueue[id] = tx.mrwRtxQueue[id]
             \/ Movable(c.mrwRtxQueue[id])
        /\ ~ignored => \A k \in MrwSent(q) :
             k \in PduMessage /\ k.type = "MRW" /\ Movable(k.lastSn)
    <3>1. CASE ignored
      BY <3>1, InvFacts, TxHistory
    <3>2. CASE ~ignored
      <4> DEFINE acked == tx.firstSeqNum .. m.lastSn
      <4>1. ~stale => acked \subseteq Finished
        <5>1. acked \subseteq 0 .. m.lastSn
          BY <1>1, InvFacts
        <5> QED BY <1>1, <5>1
      <4> HIDE DEF acked
      <4>2. q = MarkReceived(tx, acked)
        BY DEF RecvCumulativeAck, acked
      <4>3. /\ QueueOver(q, pdus) /\ q.firstSeqNum = tx.firstSeqNum
            /\ q.seqNum = tx.seqNum /\ q.discarded = tx.discarded
            /\ q.mrwRtxQueue = tx.mrwRtxQueue
            /\ q.received =
                 [i \in Slot |-> tx.received[i] \/ tx.firstSeqNum + i \in acked]
        BY <4>2, InvFacts, MarkReceivedKeeps
      <4> HIDE DEF q
      <4>4. ~stale => \A i \in Slot :
              /\ q.received[i] => tx.firstSeqNum + i \in Finished
              /\ Settled(q, i) => q.firstSeqNum + i \in Finished
        BY <4>1, <4>3, TxHistory DEF Settled, Finished
      <4>5. /\ QueueOver(CheckForMrw(q), pdus)
            /\ CheckForMrw(q).firstSeqNum = q.firstSeqNum
            /\ CheckForMrw(q).seqNum = q.seqNum
            /\ CheckForMrw(q).received = q.received
            /\ CheckForMrw(q).discarded = q.discarded
            /\ \A id \in MrwId :
                 CheckForMrw(q).mrwRtxQueue[id] \in {q.mrwRtxQueue[id], MrwSeqNum(q)}
            /\ MrwSeqNum(q) \in Nat /\ MrwSeqNum(q) <= tx.seqNum
            /\ ~stale => 0 .. MrwSeqNum(q) - 1 \subseteq Finished
            /\ \A k \in MrwSent(q) : k \in PduMessage /\ k.type = "MRW"
                                     /\ k.lastSn = MrwSeqNum(q)
        BY <2>1, <3>2, <4>3, <4>4, CheckForMrwKeeps
      <4>6. c = CheckForMrw(q) /\ Movable(MrwSeqNum(q))
        BY <3>2, <4>5 DEF Movable
      <4> HIDE DEF c
      <4> QED BY <4>3, <4>4, <4>5, <4>6
    <3> QED BY <3>1, <3>2
  <2> HIDE DEF c, q
  <2>4. /\ QueueOver(tx', pdus) /\ tx'.firstSeqNum = tx.firstSeqNum
        /\ tx'.seqNum = tx.seqNum /\ tx'.discarded = tx.discarded
        /\ tx'.mrwRtxQueue = c.mrwRtxQueue
        /\ tx'.received =
             [i \in Slot |-> c.received[i] \/ tx.firstSeqNum + i \in m.acked]
    BY <2>1, <2>3, MarkReceivedKeeps
  <2>5. /\ ~stale => \A i \in Slot :
             tx'.received[i] => tx'.firstSeqNum + i \in Finished'
        /\ \A i \in Slot : tx'.discarded[i] => tx'.firstSeqNum + i \in given'
    BY <1>1, <2>1, <2>2, <2>3, <2>4, TxHistory
  <2>6. /\ tx'.seqNum = Fill(tx', pdus) /\ tx'.seqNum >= tx.seqNum
        /\ tx'.firstSeqNum <= rx.firstSeqNum
    BY <2>4, SameWindow
  <2>7. \A sn : Movable(sn) => Movable(sn)' /\ WillBeMovable(sn)
    BY <2>1, <2>2, <2>4 DEF Movable, WillBeMovable
  <2>8. \A k \in net' \ net : k \in PduMessage /\ MessageOK(k)'
    BY <2>1, <2>2, <2>3, <2>4 DEF MessageOK, Movable
  <2>9. \A id \in MrwId :
          \/ tx'.mrwRtxQueue[id] = tx.mrwRtxQueue[id]
          \/ WillBeMovable(tx'.mrwRtxQueue[id])
    BY <2>3, <2>4, <2>7
  <2> QED BY <2>1, <2>4, <2>5, <2>6, <2>8, <2>9, QueueStep
<1> QED BY <1>3, <1>4

\* The acknowledgement of an MRW command names a position the receiver has
\* reached, so moveTxWindow finds it in the window.
LEMMA ReceiveMrwAckMoves ==
  ASSUME Inv, NEW m \in net, m.type = "MRW_ACK"
  PROVE  /\ m \in PduMessage /\ m.id \in MrwId /\ m.sn \in Nat
         /\ m.sn <= rx.firstSeqNum /\ m.sn <= tx.seqNum
<1>1. m \in PduMessage /\ m.sn <= rx.firstSeqNum
  BY DEF Inv, TypeOK, MessagesOK, MessageOK
<1> QED BY <1>1, InvFacts DEF PduMessage

LEMMA ReceiveMrwAckKeepsInv ==
  ASSUME Inv, Running, NEW m \in net, ReceiveMrwAck(m)
  PROVE  Inv'
<1> DEFINE moves == m.sn > tx.firstSeqNum
           q == ShiftTxWindow(tx, m.sn)
           a == IF moves THEN AddPdus(q, pdus) ELSE tx
<1>1. /\ m.id \in MrwId /\ m.sn \in Nat
      /\ m.sn <= rx.firstSeqNum /\ m.sn <= tx.seqNum
  BY ReceiveMrwAckMoves DEF ReceiveMrwAck
<1>2. moves =>
        /\ ~MoveTxWindowThrows(tx, m.sn) /\ ~AddPdusThrows(q, pdus)
        /\ QueueOver(a, pdus) /\ a.firstSeqNum = m.sn /\ a.mrwRtxQueue = tx.mrwRtxQueue
        /\ a.seqNum = Fill(a, pdus) /\ a.seqNum >= tx.seqNum
        /\ ~stale => \A i \in Slot : a.received[i] => m.sn + i \in Finished
        /\ \A i \in Slot : a.discarded[i] => m.sn + i \in given
  <2> SUFFICES ASSUME moves
      PROVE
        /\ ~MoveTxWindowThrows(tx, m.sn) /\ ~AddPdusThrows(q, pdus)
        /\ QueueOver(a, pdus) /\ a.firstSeqNum = m.sn /\ a.mrwRtxQueue = tx.mrwRtxQueue
        /\ a.seqNum = Fill(a, pdus) /\ a.seqNum >= tx.seqNum
        /\ ~stale => \A i \in Slot : a.received[i] => m.sn + i \in Finished
        /\ \A i \in Slot : a.discarded[i] => m.sn + i \in given
    OBVIOUS
  <2>0. tx.firstSeqNum <= m.sn /\ a = AddPdus(q, pdus)
    BY <1>1, InvFacts
  <2>1. /\ ~MoveTxWindowThrows(tx, m.sn) /\ ~AddPdusThrows(q, pdus)
        /\ QueueOver(q, pdus) /\ q.firstSeqNum = m.sn /\ q.seqNum = tx.seqNum
        /\ q.mrwRtxQueue = tx.mrwRtxQueue
        /\ \A i \in Slot :
             /\ q.received[i] =>
                  i + Index(tx, m.sn) \in Slot /\ tx.received[i + Index(tx, m.sn)]
             /\ q.discarded[i] =>
                  i + Index(tx, m.sn) \in Slot /\ tx.discarded[i + Index(tx, m.sn)]
    BY <1>1, <2>0, InvFacts, ShiftKeeps
  <2> HIDE DEF q, a
  <2>2. /\ QueueOver(a, pdus)
        /\ a.seqNum = Fill(a, pdus) /\ a.seqNum >= tx.seqNum
        /\ a.firstSeqNum = m.sn /\ a.received = q.received
        /\ a.discarded = q.discarded /\ a.mrwRtxQueue = tx.mrwRtxQueue
    BY <2>0, <2>1, AddPdusKeeps
  <2>3. \A i \in Slot : tx.firstSeqNum + (i + Index(tx, m.sn)) = m.sn + i
    BY <1>1, InvFacts DEF Slot, Index
  <2>4. ~stale => \A i \in Slot : a.received[i] => m.sn + i \in Finished
    BY <2>1, <2>2, <2>3, TxHistory
  <2>5. \A i \in Slot : a.discarded[i] => m.sn + i \in given
    BY <2>1, <2>2, <2>3, TxHistory
  <2> QED BY <2>1, <2>2, <2>4, <2>5
<1>3. /\ tx' = RecvMrwAck(a, m.id)
      /\ UNCHANGED <<pdus, sdus, rx, error, taken, delivered, given, stale>>
      /\ net' = (net \ {m}) \cup Added
  BY <1>2 DEF ReceiveMrwAck, history
<1>4. /\ QueueOver(a, pdus) /\ a.mrwRtxQueue = tx.mrwRtxQueue
      /\ a.firstSeqNum <= rx.firstSeqNum
      /\ a.seqNum = Fill(a, pdus) /\ a.seqNum >= tx.seqNum
      /\ ~stale => \A i \in Slot : a.received[i] => a.firstSeqNum + i \in Finished
      /\ \A i \in Slot : a.discarded[i] => a.firstSeqNum + i \in given
  BY <1>1, <1>2, InvFacts, TxHistory
<1> HIDE DEF a, q
<1>5. /\ QueueOver(tx', pdus) /\ tx'.firstSeqNum = a.firstSeqNum
      /\ tx'.seqNum = a.seqNum /\ tx'.received = a.received
      /\ tx'.discarded = a.discarded
      /\ tx'.mrwRtxQueue = [tx.mrwRtxQueue EXCEPT ![m.id] = NoMrw]
  BY <1>1, <1>3, <1>4, RecvMrwAckKeeps
<1>6. tx.mrwRtxQueue \in [MrwId -> Number] /\ tx'.seqNum \in Nat
  BY <1>5, InvFacts DEF QueueOver, TxQueueType
<1>7. tx'.seqNum = Fill(tx', pdus)
  BY <1>4, <1>5 DEF Fill
<1>8. \A k \in net' \ net : k \in PduMessage /\ MessageOK(k)'
  BY <1>3, <1>5, <1>6, AddedOK
<1>9. \A id \in MrwId : tx'.mrwRtxQueue[id] # NoMrw =>
         tx'.mrwRtxQueue[id] = tx.mrwRtxQueue[id]
  BY <1>5, <1>6
<1>10. Finished' = Finished
  BY <1>3 DEF Finished
<1> QED BY <1>3, <1>4, <1>5, <1>7, <1>8, <1>9, <1>10, QueueStep

----------------------------------------------------------------------------
(* A step of the receiver.                                                 *)

\* The buffer r holds PDUs of arrived, at their places, and each with its
\* status; if no status is stale, there is no other.
BufferRight(r, arrived, isStale) ==
  /\ \A i \in RxSlot : r.pduBuffer[i] # NoPdu => r.received[i]
  /\ ~isStale => \A i \in RxSlot : r.received[i] => r.pduBuffer[i] # NoPdu
  /\ \A i \in RxSlot : r.pduBuffer[i] # NoPdu =>
       LET sn == r.firstSeqNum + i IN
       sn < tx.seqNum /\ sn \in arrived /\ r.pduBuffer[i] = pdus[sn + 1]

\* Of the whole SDUs, none is passed up twice, and if no status is stale, those
\* that arrived were passed up.
PassedUpRight(r, arrived, passed, isStale) ==
  \A s \in Sdu :
    /\ passed[s] <= 1
    /\ ~isStale /\ s \in arrived => passed[s] = 1 \/ s \in given
    /\ passed[s] = 1 =>
         \/ s < r.firstSeqNum
         \/ /\ s - r.firstSeqNum \in RxSlot
            /\ r.pduBuffer[s - r.firstSeqNum] # NoPdu

LEMMA BufferFacts ==
  ASSUME Inv
  PROVE  /\ BufferRight(rx, taken, stale)
         /\ AllWhole => PassedUpRight(rx, taken, delivered, stale)
         /\ \A n \in DOMAIN pdus :
              pdus[n] \in PduType /\ pdus[n].sn = n - 1 /\ pdus[n] # NoPdu
         /\ AllWhole => /\ sdus = Len(pdus)
                        /\ \A n \in DOMAIN pdus : pdus[n].sdu = n - 1
                             /\ IsFirst(pdus[n]) /\ IsWhole(pdus[n])
<1>1. BufferRight(rx, taken, stale)
  BY DEF Inv, RxOK, StatusIsTrue, BufferRight
<1>2. \A n \in DOMAIN pdus :
        pdus[n] \in PduType /\ pdus[n].sn = n - 1 /\ pdus[n] # NoPdu
  <2>1. \A n \in DOMAIN pdus : n \in 1 .. Len(pdus) /\ pdus[n] \in PduType
                               /\ pdus[n].sn = n - 1
    BY InvFacts DEF Inv, TypeOK, TxOK, Numbered
  <2>2. NoPdu.sn = -1
    BY DEF NoPdu
  <2> QED BY <2>1, <2>2, InvFacts
<1> QED BY <1>1, <1>2 DEF Inv, WholeOK, PassedUpRight, AllWhole

\* Why a step of the receiver keeps the invariant.
RxStep ==
  /\ UNCHANGED <<pdus, sdus, tx, given>>
  /\ error' = "none"
  /\ stale' \in BOOLEAN /\ (stale => stale')
  /\ stale' => RxWindowSize < 2 * TxWindowSize
  /\ rx' \in RxQueueType
  /\ rx.firstSeqNum <= rx'.firstSeqNum /\ rx'.firstSeqNum <= tx.seqNum
  /\ ~stale' => 0 .. rx'.firstSeqNum - 1 \subseteq Finished
  /\ taken \subseteq taken' /\ taken' \ taken \subseteq 0 .. tx.seqNum - 1
  /\ delivered' \in [Sdu -> Nat]
  /\ BufferRight(rx', taken', stale')
  /\ AllWhole => PassedUpRight(rx', taken', delivered', stale')
  /\ \A m \in net' \ net : m \in PduMessage /\ MessageOK(m)'

LEMMA RxStepKeepsInv ==
  ASSUME Inv, RxStep
  PROVE  Inv'
<1>1. UNCHANGED <<pdus, sdus, tx, given>> /\ rx'.firstSeqNum \in Nat
  BY RxQueueFacts DEF RxStep
<1>2. Grows
  BY <1>1, InvFacts DEF RxStep, Grows
<1>3. Finished \subseteq Finished' /\ Finished' \subseteq 0 .. tx.seqNum - 1
  BY <1>1 DEF RxStep, Finished, Inv, HistoryOK
<1>4. TypeOK'
  <2>1. taken' \subseteq Nat
    <3>1. taken' \ taken \subseteq Nat
      BY InvFacts DEF RxStep
    <3> QED BY <3>1 DEF Inv, TypeOK
  <2>2. net' \subseteq PduMessage
    BY DEF Inv, TypeOK, RxStep
  <2> QED BY <1>1, <2>1, <2>2 DEF Inv, TypeOK, RxStep
<1>5. NeverThrows'
  BY DEF NeverThrows, RxStep
<1>6. TxOK'
  BY <1>1 DEF Inv, TxOK, Numbered
<1>7. HistoryOK'
  BY <1>1, <1>3 DEF Inv, HistoryOK, NothingSkipped, RxStep
<1>8. MessagesOK'
  <2>1. \A m \in net' : MessageOK(m)'
    BY <1>2, MessagesStayOK DEF RxStep
  <2>2. \A id \in MrwId : tx.mrwRtxQueue[id] # NoMrw => Movable(tx.mrwRtxQueue[id])
    BY DEF Inv, MessagesOK
  <2> QED BY <1>1, <1>3, <2>1, <2>2 DEF MessagesOK, Movable, RxStep
<1>9. RxOK'
  <2>1. WindowsOverlap'
    BY <1>1, <1>2, InvFacts DEF WindowsOverlap, RxStep
  <2> QED BY <1>1, <2>1 DEF RxStep, BufferRight, RxOK, StatusIsTrue
<1>10. WholeOK'
  <2>1. AllWhole' <=> AllWhole
    BY <1>1 DEF AllWhole
  <2>2. error' # "order"
    BY DEF RxStep
  <2> QED BY <1>1, <2>1, <2>2, BufferFacts DEF RxStep, PassedUpRight, WholeOK
<1> QED BY <1>4, <1>5, <1>6, <1>7, <1>8, <1>9, <1>10 DEF Inv

\* A status report repeats what has arrived, if no status is stale.
LEMMA ReportOK ==
  ASSUME Inv, UNCHANGED <<tx, pdus, given>>,
         NEW r \in RxQueueType, BufferRight(r, taken', stale'),
         ~stale' => 0 .. r.firstSeqNum - 1 \subseteq Finished',
         NEW m \in ReportSent(r)
  PROVE  m \in PduMessage /\ MessageOK(m)'
<1>1. m = StatusReport(r)
  BY DEF ReportSent
<1>2. m \in PduMessage /\ m.type = "ACK" /\ m.lastSn = LastSn(r) /\ m.acked = Bitmap(r)
  BY <1>1, ReportFacts DEF StatusReport, PduMessage
<1>3. ~stale' => \A i \in RxSlot : r.received[i] => r.firstSeqNum + i \in Finished'
  BY DEF BufferRight, Finished
<1>4. ~stale' => Bitmap(r) \subseteq Finished'
  BY <1>3, ReportFacts
<1>5. ~stale' => 0 .. LastSn(r) \subseteq Finished'
  <2> SUFFICES ASSUME ~stale', NEW sn \in 0 .. LastSn(r) PROVE sn \in Finished'
    OBVIOUS
  <2>1. r.firstSeqNum \in Nat /\ LastSn(r) \in Int
    BY RxQueueFacts, ReportFacts DEF Number
  <2>2. CASE sn < r.firstSeqNum
    BY <2>1, <2>2
  <2>3. CASE sn >= r.firstSeqNum
    <3>1. sn \in r.firstSeqNum .. LastSn(r)
      BY <2>1, <2>3
    <3> QED BY <1>3, <3>1, ReportFacts
  <2> QED BY <2>1, <2>2, <2>3
<1> QED BY <1>2, <1>4, <1>5 DEF MessageOK

LEMMA StatusTimerKeepsInv ==
  ASSUME Inv, Running, StatusTimer
  PROVE  Inv'
<1>1. /\ rx' = [rx EXCEPT !.timer = \E i \in RxSlot : rx.pduBuffer[i] # NoPdu,
                          !.ackSent = TRUE]
      /\ net' = net \cup ReportSent(rx) /\ error' = "none"
      /\ UNCHANGED <<pdus, sdus, tx, taken, delivered, given, stale>>
  BY DEF StatusTimer, history, Running
<1>2. /\ rx' \in RxQueueType /\ rx'.firstSeqNum = rx.firstSeqNum
      /\ rx'.received = rx.received /\ rx'.pduBuffer = rx.pduBuffer
  <2>1. (\E i \in RxSlot : rx.pduBuffer[i] # NoPdu) \in BOOLEAN
    OBVIOUS
  <2> QED BY <1>1, <2>1, InvFacts DEF RxQueueType
<1>3. /\ delivered \in [Sdu -> Nat] /\ stale \in BOOLEAN
      /\ stale => RxWindowSize < 2 * TxWindowSize
      /\ ~stale => 0 .. rx.firstSeqNum - 1 \subseteq Finished
  BY DEF Inv, TypeOK, HistoryOK, NothingSkipped, RxOK, StatusIsTrue
<1>4. Finished' = Finished
  BY <1>1 DEF Finished
<1>5. \A m \in ReportSent(rx) : m \in PduMessage /\ MessageOK(m)'
  BY <1>1, <1>3, <1>4, InvFacts, BufferFacts, ReportOK
<1>6. /\ BufferRight(rx', taken', stale')
      /\ AllWhole => PassedUpRight(rx', taken', delivered', stale')
  BY <1>1, <1>2, BufferFacts DEF BufferRight, PassedUpRight
<1>7. RxStep
  BY <1>1, <1>2, <1>3, <1>5, <1>6, InvFacts DEF RxStep
<1> QED BY <1>7, RxStepKeepsInv

LEMMA ReportIntervalKeepsInv ==
  ASSUME Inv, Running, ReportInterval
  PROVE  Inv'
<1>1. /\ rx' = [rx EXCEPT !.ackSent = FALSE] /\ net' = net /\ error' = "none"
      /\ UNCHANGED <<pdus, sdus, tx, taken, delivered, given, stale>>
  BY DEF ReportInterval, history, Running
<1>2. /\ rx' \in RxQueueType /\ rx'.firstSeqNum = rx.firstSeqNum
      /\ rx'.received = rx.received /\ rx'.pduBuffer = rx.pduBuffer
  BY <1>1, InvFacts DEF RxQueueType
<1>3. /\ delivered \in [Sdu -> Nat] /\ stale \in BOOLEAN
      /\ stale => RxWindowSize < 2 * TxWindowSize
      /\ ~stale => 0 .. rx.firstSeqNum - 1 \subseteq Finished
  BY DEF Inv, TypeOK, HistoryOK, NothingSkipped, RxOK, StatusIsTrue
<1>4. /\ BufferRight(rx', taken', stale')
      /\ AllWhole => PassedUpRight(rx', taken', delivered', stale')
  BY <1>1, <1>2, BufferFacts DEF BufferRight, PassedUpRight
<1>5. RxStep
  BY <1>1, <1>2, <1>3, <1>4, InvFacts DEF RxStep
<1> QED BY <1>5, RxStepKeepsInv

\* An MRW command never asks for a move of more than the transmit window.
LEMMA MrwInReach ==
  ASSUME Inv, NEW sn \in Nat, Movable(sn)
  PROVE  sn - rx.firstSeqNum <= TxWindowSize
BY InvFacts DEF Movable

\* Where the receive window moves to sn, it keeps what the invariant says of it.
LEMMA MoveKeepsRight ==
  ASSUME Inv, NEW sn \in Nat, Movable(sn), sn > rx.firstSeqNum,
         ~MoveRxWindowThrows(rx, sn), NEW r, r = MoveRxWindow(rx, sn),
         NEW isStale \in BOOLEAN, isStale <=> stale \/ LeavesStale(rx, sn)
  PROVE  /\ ~MoveRxWindowIgnored(rx, sn)
         /\ r \in RxQueueType /\ r.firstSeqNum = sn
         /\ BufferRight(r, taken, isStale)
         /\ AllWhole => PassedUpRight(r, taken, delivered, isStale)
<1> DEFINE pos == sn - rx.firstSeqNum
<1>1. pos \in Nat /\ pos <= RxWindowSize
  BY InvFacts DEF MoveRxWindowThrows
<1>2. /\ ~MoveRxWindowIgnored(rx, sn)
      /\ r \in RxQueueType /\ r.firstSeqNum = sn
      /\ \A i \in RxSlot :
           /\ i + pos \in RxSlot => (r.received[i] <=> rx.received[i + pos])
           /\ i + pos \notin RxSlot /\ ~LeavesStale(rx, sn) => ~r.received[i]
           /\ r.pduBuffer[i] =
                IF i + pos \in RxSlot THEN rx.pduBuffer[i + pos] ELSE NoPdu
  BY <1>1, InvFacts, MoveRxKeeps
<1>3. /\ BufferRight(rx, taken, stale)
      /\ AllWhole => PassedUpRight(rx, taken, delivered, stale)
  BY BufferFacts
<1>4. \A i \in RxSlot : i \in Nat /\ rx.firstSeqNum + (i + pos) = sn + i
  BY InvFacts, RxQueueFacts
<1>p. pos = sn - rx.firstSeqNum
  OBVIOUS
<1> HIDE DEF pos
<1>5. BufferRight(r, taken, isStale)
  <2>1. \A i \in RxSlot : r.pduBuffer[i] # NoPdu => r.received[i]
    BY <1>2, <1>3 DEF BufferRight
  <2>2. ~isStale => \A i \in RxSlot : r.received[i] => r.pduBuffer[i] # NoPdu
    BY <1>2, <1>3 DEF BufferRight
  <2>3. ASSUME NEW i \in RxSlot, r.pduBuffer[i] # NoPdu
        PROVE  /\ r.firstSeqNum + i < tx.seqNum /\ r.firstSeqNum + i \in taken
               /\ r.pduBuffer[i] = pdus[r.firstSeqNum + i + 1]
    <3> DEFINE j == i + pos
    <3>1. j \in RxSlot /\ rx.pduBuffer[j] # NoPdu /\ r.pduBuffer[i] = rx.pduBuffer[j]
          /\ rx.firstSeqNum + j = r.firstSeqNum + i
      BY <1>2, <1>4, <2>3
    <3> HIDE DEF j
    <3>2. /\ rx.firstSeqNum + j < tx.seqNum /\ rx.firstSeqNum + j \in taken
          /\ rx.pduBuffer[j] = pdus[rx.firstSeqNum + j + 1]
      BY <1>3, <3>1 DEF BufferRight
    <3> QED BY <3>1, <3>2
  <2> QED BY <2>1, <2>2, <2>3 DEF BufferRight
<1>6. ASSUME AllWhole, NEW s \in Sdu, delivered[s] = 1
      PROVE  \/ s < r.firstSeqNum
             \/ /\ s - r.firstSeqNum \in RxSlot
                /\ r.pduBuffer[s - r.firstSeqNum] # NoPdu
  <2>1. s \in Nat /\ rx.firstSeqNum \in Nat /\ sn > rx.firstSeqNum
    BY <1>6, AmAssumption, InvFacts DEF Sdu
  <2>2. CASE s >= sn
    <3>1. s - rx.firstSeqNum \in RxSlot /\ rx.pduBuffer[s - rx.firstSeqNum] # NoPdu
      <4>1. ~(s < rx.firstSeqNum)
        BY <2>1, <2>2
      <4> QED BY <1>3, <1>6, <4>1 DEF PassedUpRight
    <3> DEFINE i == s - sn
               k == s - rx.firstSeqNum
    <3>2. i \in RxSlot /\ i + pos = k
      <4>1. i \in Nat /\ i <= k /\ i + pos = k
        BY <1>p, <2>1, <2>2
      <4>2. k \in RxSlot
        BY <3>1
      <4> HIDE DEF i, k
      <4>3. i \in RxSlot
        BY <4>1, <4>2, AmRxAssumption DEF RxSlot
      <4> QED BY <4>1, <4>3
    <3> HIDE DEF i
    <3>3. r.pduBuffer[i] # NoPdu
      BY <1>2, <3>1, <3>2
    <3> QED BY <1>2, <3>2, <3>3 DEF i
  <2> QED BY <1>2, <2>1, <2>2
<1>7. AllWhole => PassedUpRight(r, taken, delivered, isStale)
  BY <1>3, <1>6 DEF PassedUpRight
<1> QED BY <1>2, <1>5, <1>7

LEMMA ReceiveMrwKeepsInv ==
  ASSUME Inv, Running, NEW m \in net, ReceiveMrw(m)
  PROVE  Inv'
<1> DEFINE ignored == MoveRxWindowIgnored(rx, m.lastSn)
           throws == ~ignored /\ MoveRxWindowThrows(rx, m.lastSn)
           r == IF ignored THEN rx ELSE MoveRxWindow(rx, m.lastSn)
           leaves == stale \/ (~ignored /\ LeavesStale(rx, m.lastSn))
<1>1. /\ m.type = "MRW" /\ m.id \in MrwId /\ m.lastSn \in Nat /\ Movable(m.lastSn)
  BY DEF ReceiveMrw, Inv, TypeOK, PduMessage, MessagesOK, MessageOK
<1>2. m.lastSn - rx.firstSeqNum <= TxWindowSize
  BY <1>1, MrwInReach
<1>3. CASE throws
  <2>1. RxWindowSize < TxWindowSize
    BY <1>1, <1>2, <1>3, InvFacts DEF MoveRxWindowThrows
  <2> QED BY <1>3, <2>1, FailKeepsInv DEF ReceiveMrw
<1>4. ASSUME ~throws
      PROVE  /\ r \in RxQueueType /\ rx.firstSeqNum <= r.firstSeqNum
             /\ r.firstSeqNum <= tx.seqNum
             /\ ~leaves => 0 .. r.firstSeqNum - 1 \subseteq Finished
             /\ leaves => RxWindowSize < 2 * TxWindowSize
             /\ BufferRight(r, taken, leaves)
             /\ AllWhole => PassedUpRight(r, taken, delivered, leaves)
  <2>1. stale => RxWindowSize < 2 * TxWindowSize
    BY DEF Inv, RxOK, StatusIsTrue
  <2>2. CASE ignored
    <3>1. r = rx /\ (leaves <=> stale)
      BY <2>2
    <3>2. BufferRight(r, taken, leaves)
      BY <3>1, BufferFacts DEF BufferRight
    <3>3. AllWhole => PassedUpRight(r, taken, delivered, leaves)
      BY <3>1, BufferFacts DEF PassedUpRight
    <3>4. ~stale => 0 .. rx.firstSeqNum - 1 \subseteq Finished
      BY DEF Inv, HistoryOK, NothingSkipped
    <3> QED BY <2>1, <3>1, <3>2, <3>3, <3>4, InvFacts
  <2>3. CASE ~ignored
    <3>1. m.lastSn > rx.firstSeqNum /\ ~MoveRxWindowThrows(rx, m.lastSn)
      BY <1>1, <1>4, <2>3, InvFacts DEF MoveRxWindowIgnored
    <3>2. r = MoveRxWindow(rx, m.lastSn)
          /\ (leaves <=> stale \/ LeavesStale(rx, m.lastSn)) /\ leaves \in BOOLEAN
      BY <2>3
    <3>3. leaves => RxWindowSize < 2 * TxWindowSize
      BY <1>1, <1>2, <2>1, <3>2, InvFacts, StaleOnlyIfSmall
    <3> HIDE DEF r, leaves
    <3>4. /\ r \in RxQueueType /\ r.firstSeqNum = m.lastSn
          /\ BufferRight(r, taken, leaves)
          /\ AllWhole => PassedUpRight(r, taken, delivered, leaves)
      BY <1>1, <3>1, <3>2, MoveKeepsRight
    <3> QED BY <1>1, <3>1, <3>2, <3>3, <3>4, InvFacts DEF Movable
  <2> QED BY <2>2, <2>3
<1>5. CASE ~throws /\ ~rx.flowControlInfo /\ Fail("null")
  BY <1>5, FailKeepsInv
<1>6. CASE /\ ~throws /\ rx' = r
           /\ net' = (net \ {m}) \cup {MrwAck(m.id, r.firstSeqNum)}
           /\ stale' = leaves
           /\ UNCHANGED <<pdus, sdus, tx, error, taken, delivered, given>>
  <2> HIDE DEF r
  <2>1. error' = "none" /\ stale' \in BOOLEAN /\ (stale => stale')
        /\ delivered \in [Sdu -> Nat]
    BY <1>6 DEF Running, Inv, TypeOK
  <2> HIDE DEF leaves
  <2>2. \A k \in net' \ net : k \in PduMessage /\ MessageOK(k)'
    <3> SUFFICES ASSUME NEW k, k = MrwAck(m.id, r.firstSeqNum)
                 PROVE  k \in PduMessage /\ MessageOK(k)'
      BY <1>6
    <3>1. r.firstSeqNum \in Nat
      BY <1>4, <1>6, RxQueueFacts
    <3> QED BY <1>1, <1>6, <3>1 DEF MrwAck, PduMessage, MessageOK
  <2>3. RxStep
    BY <1>4, <1>6, <2>1, <2>2 DEF RxStep
  <2> QED BY <2>3, RxStepKeepsInv
<1> QED BY <1>3, <1>5, <1>6 DEF ReceiveMrw

\* enque: a PDU is noted, whatever becomes of it.
LEMMA NotedFacts ==
  ASSUME Inv, NEW pdu \in PduType, pdu.sn \in Nat, NEW early \in BOOLEAN,
         NEW r, r = [NoteArrival(rx, pdu) EXCEPT !.ackSent = @ \/ early]
  PROVE  /\ NoteArrival(rx, pdu) \in RxQueueType
         /\ NoteArrival(rx, pdu).firstSeqNum = rx.firstSeqNum
         /\ NoteArrival(rx, pdu).received = rx.received
         /\ NoteArrival(rx, pdu).pduBuffer = rx.pduBuffer
         /\ r \in RxQueueType
         /\ r.firstSeqNum = rx.firstSeqNum
         /\ r.received = rx.received /\ r.pduBuffer = rx.pduBuffer
<1>1. rx \in RxQueueType
  BY InvFacts
<1> DEFINE n == NoteArrival(rx, pdu)
<1>2. /\ n \in RxQueueType /\ n.firstSeqNum = rx.firstSeqNum
      /\ n.received = rx.received /\ n.pduBuffer = rx.pduBuffer
  <2> DEFINE seq == IF Position(rx, pdu) \in RxSlot THEN pdu.sn + 1 ELSE rx.seqNum
  <2>1. seq \in Nat
    BY <1>1 DEF RxQueueType
  <2>2. n = [rx EXCEPT !.timer = TRUE, !.flowControlInfo = TRUE, !.seqNum = seq]
    BY <1>1 DEF NoteArrival, RxQueueType
  <2> HIDE DEF seq, n
  <2> QED BY <1>1, <2>1, <2>2 DEF RxQueueType
<1> HIDE DEF n
<1>3. r = [n EXCEPT !.ackSent = @ \/ early]
  BY DEF n
<1>4. (n.ackSent \/ early) \in BOOLEAN
  OBVIOUS
<1>5. /\ r \in RxQueueType
      /\ r.firstSeqNum = n.firstSeqNum
      /\ r.received = n.received /\ r.pduBuffer = n.pduBuffer
  BY <1>2, <1>3, <1>4 DEF RxQueueType
<1> QED BY <1>2, <1>5 DEF n

LEMMA SameBuffer ==
  ASSUME NEW r, NEW q, NEW arrived, NEW more, NEW isStale,
         BufferRight(q, arrived, isStale),
         r.firstSeqNum = q.firstSeqNum, r.received = q.received,
         r.pduBuffer = q.pduBuffer, arrived \subseteq more
  PROVE  BufferRight(r, more, isStale)
BY DEF BufferRight

LEMMA ReceiveDataKeepsInv ==
  ASSUME Inv, Running, NEW m \in net, ReceiveData(m)
  PROVE  Inv'
<1> DEFINE pdu == m.pdu
           i == Position(rx, pdu)
           early == OutOfSequence(rx, pdu)
           noted == NoteArrival(rx, pdu)
           r == [noted EXCEPT !.ackSent = @ \/ early]
           new == BufferPdu(r, pdu)
           verdict == Verdict(new, i)
           up == PassedUp(new, i)
           earlyReport == IF early THEN ReportSent(noted) ELSE {}
           more == taken \cup {pdu.sn}
<1>1. /\ m.type = "DATA" /\ pdu \in PduType /\ pdu.sn \in 0 .. tx.seqNum - 1
      /\ pdu = pdus[pdu.sn + 1]
  BY DEF ReceiveData, Inv, TypeOK, PduMessage, MessagesOK, MessageOK
<1>2. /\ pdu.sn \in Nat /\ pdu.sn < tx.seqNum /\ pdu.sn + 1 \in DOMAIN pdus
      /\ i \in Int /\ rx.firstSeqNum + i = pdu.sn /\ i < TxWindowSize
  <2>1. /\ tx.seqNum \in Nat /\ Len(pdus) \in Nat /\ tx.seqNum <= Len(pdus)
        /\ rx.firstSeqNum \in Nat /\ tx.seqNum <= tx.firstSeqNum + TxWindowSize
        /\ tx.firstSeqNum \in Nat /\ tx.firstSeqNum <= rx.firstSeqNum
        /\ TxWindowSize \in Nat /\ RxWindowSize \in Nat
        /\ DOMAIN pdus = 1 .. Len(pdus)
    BY InvFacts
  <2>2. i = pdu.sn - rx.firstSeqNum
    BY DEF Position
  <2> DEFINE sn == pdu.sn
  <2>3. sn \in 0 .. tx.seqNum - 1
    BY <1>1
  <2> HIDE DEF i, pdu
  <2>4. sn \in Nat /\ sn < tx.seqNum /\ sn + 1 \in DOMAIN pdus
    BY <2>1, <2>3
  <2>5. i \in Int /\ rx.firstSeqNum + i = sn
    BY <2>1, <2>2, <2>4
  <2>6. i < TxWindowSize
    BY <2>1, <2>2, <2>4
  <2> QED BY <2>1, <2>4, <2>5, <2>6
<1>3. i >= 0 /\ ~(i >= RxWindowSize) => i \in RxSlot
  BY <1>2, InvFacts DEF RxSlot
<1>4. /\ noted \in RxQueueType /\ noted.firstSeqNum = rx.firstSeqNum
      /\ noted.received = rx.received /\ noted.pduBuffer = rx.pduBuffer
      /\ r \in RxQueueType /\ r.firstSeqNum = rx.firstSeqNum
      /\ r.received = rx.received /\ r.pduBuffer = rx.pduBuffer
  <2>1. early \in BOOLEAN
    BY DEF OutOfSequence
  <2> QED BY <1>1, <1>2, <2>1, NotedFacts
<1>5. /\ ~stale => 0 .. rx.firstSeqNum - 1 \subseteq Finished
      /\ stale \in BOOLEAN /\ (stale => RxWindowSize < 2 * TxWindowSize)
      /\ BufferRight(rx, taken, stale)
      /\ AllWhole => PassedUpRight(rx, taken, delivered, stale)
      /\ delivered \in [Sdu -> Nat] /\ taken \subseteq Nat
  BY BufferFacts DEF Inv, TypeOK, HistoryOK, NothingSkipped, RxOK, StatusIsTrue
<1>w. CASE i >= RxWindowSize
  <2>1. Fail("window")
    BY <1>w DEF ReceiveData
  <2>2. RxWindowSize < TxWindowSize
    BY <1>2, <1>w, InvFacts
  <2> QED BY <2>1, <2>2, FailKeepsInv
<1> SUFFICES ASSUME ~(i >= RxWindowSize) PROVE Inv'
  BY <1>w
<1>6. /\ UNCHANGED <<pdus, sdus, tx, given, stale>>
      /\ \/ /\ i < 0
            /\ rx' = noted
            /\ net' = net \ {m}
            /\ taken' = more
            /\ UNCHANGED <<error, delivered>>
         \/ /\ i >= 0 /\ rx.received[i]
            /\ IF rx.pduBuffer[i].sdu # pdu.sdu THEN Fail("buffer")
               ELSE /\ rx' = r
                    /\ net' = (net \ {m}) \cup earlyReport
                    /\ UNCHANGED <<error, taken, delivered>>
         \/ /\ i >= 0 /\ ~rx.received[i]
            /\ verdict = "error" \/ (verdict = "found" /\ PassUpThrows(new, up))
            /\ Fail("order")
         \/ /\ i >= 0 /\ ~rx.received[i]
            /\ verdict = "missing"
            /\ rx' = new
            /\ net' = (net \ {m}) \cup earlyReport
            /\ taken' = more
            /\ UNCHANGED <<error, delivered>>
         \/ /\ i >= 0 /\ ~rx.received[i]
            /\ verdict = "found" /\ ~PassUpThrows(new, up)
            /\ rx' = [new EXCEPT !.ackSent = TRUE]
            /\ net' = (net \ {m}) \cup earlyReport \cup ReportSent(new)
            /\ delivered' = [delivered EXCEPT ![new.pduBuffer[up].sdu] = @ + 1]
            /\ taken' = more
            /\ UNCHANGED error
  BY DEF ReceiveData
<1>7. AllWhole =>
        /\ pdu.sdu = pdu.sn /\ IsFirst(pdu) /\ IsWhole(pdu)
        /\ pdu.sn \in Sdu
  <2> SUFFICES ASSUME AllWhole
               PROVE  /\ pdu.sdu = pdu.sn /\ IsFirst(pdu) /\ IsWhole(pdu)
                      /\ pdu.sn \in Sdu
    OBVIOUS
  <2>1. /\ pdu.sdu = (pdu.sn + 1) - 1 /\ IsFirst(pdu) /\ IsWhole(pdu)
        /\ sdus = Len(pdus)
    BY <1>1, <1>2, BufferFacts
  <2>2. sdus \in 0 .. NumSdu
    BY DEF Inv, TypeOK
  <2>3. pdu.sn \in Nat /\ pdu.sn < sdus
    <3> DEFINE sn == pdu.sn
    <3>1. sn \in Nat /\ sn + 1 \in 1 .. Len(pdus)
      BY <1>2, InvFacts
    <3> HIDE DEF sn
    <3>2. sn < Len(pdus)
      BY <3>1, InvFacts
    <3> QED BY <2>1, <3>1, <3>2 DEF sn
  <2> HIDE DEF pdu
  <2>4. pdu.sdu = pdu.sn
    BY <2>1, <2>3
  <2>5. pdu.sn \in 0 .. NumSdu - 1
    BY <2>2, <2>3, AmAssumption
  <2> QED BY <2>1, <2>4, <2>5 DEF Sdu
<1>8. taken \subseteq more /\ more \ taken \subseteq 0 .. tx.seqNum - 1
  BY <1>1
<1>9. UNCHANGED <<tx, pdus, given, stale>>
  BY <1>6
<1> HIDE DEF noted, r, i, early, pdu, more
<1>10. ASSUME taken \subseteq taken', NEW k \in earlyReport
       PROVE  k \in PduMessage /\ MessageOK(k)'
  <2>1. k \in ReportSent(noted)
    BY <1>10
  <2>2. BufferRight(noted, taken', stale')
    BY <1>4, <1>5, <1>9, <1>10, SameBuffer
  <2>3. ~stale' => 0 .. noted.firstSeqNum - 1 \subseteq Finished'
    BY <1>4, <1>5, <1>9, <1>10 DEF Finished
  <2> QED BY <1>4, <1>9, <2>1, <2>2, <2>3, ReportOK
<1>11. /\ rx.firstSeqNum <= rx.firstSeqNum /\ rx.firstSeqNum <= tx.seqNum
       /\ error = "none"
  BY InvFacts DEF Running
<1>12. CASE i < 0 /\ rx' = noted /\ net' = net \ {m} /\ taken' = more
            /\ UNCHANGED <<error, delivered>>
  <2>1. BufferRight(rx', taken', stale')
    BY <1>4, <1>5, <1>8, <1>9, <1>12, SameBuffer
  <2>2. ~stale => pdu.sn \in Finished
    <3>1. pdu.sn \in 0 .. rx.firstSeqNum - 1
      BY <1>2, <1>12, InvFacts
    <3> QED BY <1>5, <3>1
  <2>3. AllWhole => PassedUpRight(rx', taken', delivered', stale')
    <3>1. ~stale =>
            taken' = taken \/ (taken' = taken \cup {pdu.sn} /\ pdu.sn \in given)
      BY <1>12, <2>2 DEF Finished, more
    <3> QED BY <1>4, <1>5, <1>9, <1>12, <3>1 DEF PassedUpRight
  <2>4. RxStep
    BY <1>4, <1>5, <1>6, <1>8, <1>11, <1>12, <2>1, <2>3 DEF RxStep
  <2> QED BY <2>4, RxStepKeepsInv
<1>13. CASE /\ i >= 0 /\ rx.received[i]
            /\ IF rx.pduBuffer[i].sdu # pdu.sdu THEN Fail("buffer")
               ELSE /\ rx' = r
                    /\ net' = (net \ {m}) \cup earlyReport
                    /\ UNCHANGED <<error, taken, delivered>>
  <2>1. ~stale => rx.pduBuffer[i] = pdu
    <3>1. ~stale => rx.pduBuffer[i] = pdus[rx.firstSeqNum + i + 1]
      BY <1>3, <1>5, <1>13 DEF BufferRight
    <3> QED BY <1>1, <1>2, <3>1 DEF pdu
  <2>2. CASE rx.pduBuffer[i].sdu # pdu.sdu
    BY <1>13, <2>1, <2>2, FailKeepsInv
  <2>3. CASE rx' = r /\ net' = (net \ {m}) \cup earlyReport
             /\ UNCHANGED <<error, taken, delivered>>
    <3>1. \A k \in net' \ net : k \in PduMessage /\ MessageOK(k)'
      BY <1>10, <2>3
    <3>2. BufferRight(rx', taken', stale')
      BY <1>4, <1>5, <1>9, <2>3, SameBuffer
    <3>3. AllWhole => PassedUpRight(rx', taken', delivered', stale')
      BY <1>4, <1>5, <1>9, <2>3 DEF PassedUpRight
    <3>4. RxStep
      BY <1>4, <1>5, <1>6, <1>11, <2>3, <3>1, <3>2, <3>3 DEF RxStep
    <3> QED BY <3>4, RxStepKeepsInv
  <2> QED BY <1>13, <2>2, <2>3
<1>14. ASSUME i >= 0, ~rx.received[i]
       PROVE  /\ i \in RxSlot /\ new \in RxQueueType
              /\ new.firstSeqNum = rx.firstSeqNum
              /\ new.received = [rx.received EXCEPT ![i] = TRUE]
              /\ new.pduBuffer = [rx.pduBuffer EXCEPT ![i] = pdu]
              /\ new.received \in [RxSlot -> BOOLEAN]
              /\ new.pduBuffer[i] = pdu
              /\ \A n \in RxSlot : n # i => /\ new.received[n] = rx.received[n]
                                            /\ new.pduBuffer[n] = rx.pduBuffer[n]
              /\ new.received[i] /\ pdu # NoPdu
              /\ BufferRight(new, more, stale)
  <2>1. i \in RxSlot /\ i = Position(r, pdu)
    BY <1>3, <1>4, <1>14 DEF Position, i
  <2>2. /\ new \in RxQueueType /\ new.firstSeqNum = r.firstSeqNum
        /\ new.received = [r.received EXCEPT ![i] = TRUE]
        /\ new.pduBuffer = [r.pduBuffer EXCEPT ![i] = pdu]
    BY <1>1, <1>4, <2>1, BufferKeeps DEF pdu
  <2> HIDE DEF new
  <2>3. rx.received \in [RxSlot -> BOOLEAN] /\ rx.pduBuffer \in [RxSlot -> PduType]
    BY InvFacts DEF RxQueueType
  <2>4. /\ new.received = [rx.received EXCEPT ![i] = TRUE]
        /\ new.pduBuffer = [rx.pduBuffer EXCEPT ![i] = pdu]
        /\ new.firstSeqNum = rx.firstSeqNum
    BY <1>4, <2>2
  <2>5. /\ new.received[i] /\ new.pduBuffer[i] = pdu
        /\ \A n \in RxSlot : n # i => /\ new.received[n] = rx.received[n]
                                      /\ new.pduBuffer[n] = rx.pduBuffer[n]
    BY <2>1, <2>3, <2>4
  <2>6. pdu # NoPdu
    BY <1>1, <1>2, BufferFacts DEF pdu
  <2>7. new.firstSeqNum + i = pdu.sn /\ pdu = pdus[pdu.sn + 1]
        /\ pdu.sn \in more /\ pdu.sn < tx.seqNum
    BY <1>1, <1>2, <2>4 DEF more, pdu
  <2>8. BufferRight(new, more, stale)
    <3>1. /\ \A n \in RxSlot : new.pduBuffer[n] # NoPdu => new.received[n]
          /\ ~stale => \A n \in RxSlot : new.received[n] => new.pduBuffer[n] # NoPdu
      BY <1>5, <2>5, <2>6 DEF BufferRight
    <3>2. ASSUME NEW n \in RxSlot, new.pduBuffer[n] # NoPdu
          PROVE  /\ new.firstSeqNum + n < tx.seqNum /\ new.firstSeqNum + n \in more
                 /\ new.pduBuffer[n] = pdus[new.firstSeqNum + n + 1]
      <4>1. CASE n = i
        BY <2>5, <2>7, <4>1
      <4>2. CASE n # i
        BY <1>5, <1>8, <2>4, <2>5, <3>2, <4>2 DEF BufferRight
      <4> QED BY <4>1, <4>2
    <3> QED BY <3>1, <3>2 DEF BufferRight
  <2>9. new.received \in [RxSlot -> BOOLEAN]
    BY <2>2 DEF RxQueueType
  <2> QED BY <2>1, <2>2, <2>4, <2>5, <2>6, <2>8, <2>9
<1>15. ASSUME i >= 0, ~rx.received[i], AllWhole
       PROVE  verdict = "found" /\ up = i /\ ~PassUpThrows(new, up)
  <2>1. /\ i \in RxSlot /\ new \in RxQueueType /\ new.pduBuffer[i] = pdu
    BY <1>14, <1>15
  <2>2. IsWhole(pdu) /\ pdu.sn = pdu.firstSn /\ pdu # NoPdu
    BY <1>1, <1>2, <1>7, <1>15, BufferFacts DEF IsFirst, pdu
  <2> HIDE DEF new
  <2>3. Verdict(new, i) = "found" /\ PassedUp(new, i) = i /\ ~PassUpThrows(new, i)
    BY <2>1, <2>2, WholePduGoesUp
  <2> QED BY <2>3
<1>16. CASE /\ i >= 0 /\ ~rx.received[i]
            /\ verdict = "error" \/ (verdict = "found" /\ PassUpThrows(new, up))
            /\ Fail("order")
  BY <1>15, <1>16, FailKeepsInv
<1>17. CASE /\ i >= 0 /\ ~rx.received[i]
            /\ verdict = "missing"
            /\ rx' = new
            /\ net' = (net \ {m}) \cup earlyReport
            /\ taken' = more
            /\ UNCHANGED <<error, delivered>>
  <2>1. ~AllWhole
    BY <1>15, <1>17
  <2>2. /\ rx' \in RxQueueType /\ rx'.firstSeqNum = rx.firstSeqNum
        /\ BufferRight(rx', taken', stale')
    BY <1>9, <1>14, <1>17
  <2>3. \A k \in net' \ net : k \in PduMessage /\ MessageOK(k)'
    BY <1>8, <1>10, <1>17
  <2>4. RxStep
    BY <1>5, <1>6, <1>8, <1>11, <1>17, <2>1, <2>2, <2>3 DEF RxStep
  <2> QED BY <2>4, RxStepKeepsInv
<1>18. CASE /\ i >= 0 /\ ~rx.received[i]
            /\ verdict = "found" /\ ~PassUpThrows(new, up)
            /\ rx' = [new EXCEPT !.ackSent = TRUE]
            /\ net' = (net \ {m}) \cup earlyReport \cup ReportSent(new)
            /\ delivered' = [delivered EXCEPT ![new.pduBuffer[up].sdu] = @ + 1]
            /\ taken' = more
            /\ UNCHANGED error
  <2>1. /\ i \in RxSlot /\ new \in RxQueueType /\ new.firstSeqNum = rx.firstSeqNum
        /\ BufferRight(new, more, stale) /\ new.pduBuffer[i] = pdu /\ pdu # NoPdu
        /\ \A n \in RxSlot : n # i => new.pduBuffer[n] = rx.pduBuffer[n]
    BY <1>14, <1>18
  <2>2. AllWhole => up = i
    BY <1>15, <1>18
  <2> DEFINE x == new.pduBuffer[up].sdu
  <2>3. delivered' = [delivered EXCEPT ![x] = @ + 1]
    BY <1>18
  <2>4. AllWhole => x = pdu.sn /\ pdu.sn \in Sdu
    BY <1>7, <2>1, <2>2
  <2> HIDE DEF x, new, earlyReport
  <2>5. /\ rx' \in RxQueueType /\ rx'.firstSeqNum = rx.firstSeqNum
        /\ rx'.received = new.received /\ rx'.pduBuffer = new.pduBuffer
    BY <1>18, <2>1 DEF RxQueueType
  <2>6. BufferRight(rx', taken', stale')
    BY <1>9, <1>18, <2>1, <2>5, SameBuffer
  <2>7. delivered' \in [Sdu -> Nat]
    <3>1. delivered' = [s \in Sdu |->
                          IF s = x THEN delivered[s] + 1 ELSE delivered[s]]
      BY <1>5, <2>3
    <3>2. \A s \in Sdu : delivered[s] \in Nat
      BY <1>5
    <3> QED BY <3>1, <3>2
  <2>8. AllWhole => PassedUpRight(rx', taken', delivered', stale')
    <3> SUFFICES ASSUME AllWhole, NEW s \in Sdu
                 PROVE  /\ delivered'[s] <= 1
                        /\ ~stale /\ s \in taken' =>
                             delivered'[s] = 1 \/ s \in given
                        /\ delivered'[s] = 1 =>
                             \/ s < rx'.firstSeqNum
                             \/ /\ s - rx'.firstSeqNum \in RxSlot
                                /\ rx'.pduBuffer[s - rx'.firstSeqNum] # NoPdu
      BY <1>6 DEF PassedUpRight
    <3>1. x = pdu.sn /\ PassedUpRight(rx, taken, delivered, stale)
      BY <1>5, <2>4
    <3>2. CASE s = pdu.sn
      <4>1. s - rx.firstSeqNum = i /\ ~(s < rx.firstSeqNum)
        BY <1>2, <1>18, <3>2, InvFacts
      <4>2. delivered[s] # 1 /\ delivered[s] <= 1 /\ delivered[s] \in Nat
        BY <1>5, <1>18, <2>1, <3>1, <4>1 DEF PassedUpRight, BufferRight
      <4>3. delivered'[s] = 1
        BY <1>5, <2>3, <3>1, <3>2, <4>2
      <4> QED BY <2>1, <2>5, <4>1, <4>3
    <3>3. CASE s # pdu.sn
      <4>1. delivered'[s] = delivered[s] /\ (s \in taken' <=> s \in taken)
        BY <1>5, <1>18, <2>3, <3>1, <3>3 DEF more
      <4>2. s \in Nat
        BY AmAssumption DEF Sdu
      <4>3. s - rx.firstSeqNum # i
        BY <1>2, <3>3, <4>2, InvFacts
      <4> QED BY <2>1, <2>5, <3>1, <4>1, <4>3 DEF PassedUpRight
    <3> QED BY <3>2, <3>3
  <2>9. \A k \in net' \ net : k \in PduMessage /\ MessageOK(k)'
    <3>1. /\ BufferRight(new, taken', stale')
          /\ ~stale' => 0 .. new.firstSeqNum - 1 \subseteq Finished'
      BY <1>5, <1>8, <1>9, <1>18, <2>1 DEF Finished
    <3>2. \A k \in ReportSent(new) : k \in PduMessage /\ MessageOK(k)'
      BY <1>9, <2>1, <3>1, ReportOK
    <3>3. \A k \in earlyReport : k \in PduMessage /\ MessageOK(k)'
      BY <1>8, <1>10, <1>18
    <3> QED BY <1>18, <3>2, <3>3
  <2>10. RxStep
    BY <1>5, <1>6, <1>8, <1>11, <1>18, <2>5, <2>6, <2>7, <2>8, <2>9 DEF RxStep
  <2> QED BY <2>10, RxStepKeepsInv
<1> QED BY <1>6, <1>12, <1>13, <1>16, <1>17, <1>18

----------------------------------------------------------------------------
(* The invariant.                                                          *)

LEMMA InitInv == Init => Inv
<1> SUFFICES ASSUME Init PROVE Inv
  OBVIOUS
<1>1. /\ pdus = <<>> /\ sdus = 0 /\ net = {} /\ error = "none"
      /\ taken = {} /\ given = {} /\ delivered = [s \in Sdu |-> 0] /\ stale = FALSE
      /\ tx = NewTxQueue /\ rx = NewRxQueue
  BY DEF Init
<1>2. Len(pdus) = 0 /\ DOMAIN pdus = {} /\ pdus \in Seq(PduType)
  BY <1>1
<1>3. TxWindowSize \in Nat /\ TxWindowSize > 0 /\ NumSdu \in Nat
  BY AmTxAssumption, AmAssumption
<1>4. NoPdu \in PduType /\ FreeSlot \in [pdu : PduType, txNumber : Nat]
  BY DEF NoPdu, FreeSlot, PduType, Number
<1>5. tx \in TxQueueType
  BY <1>1, <1>4 DEF NewTxQueue, TxQueueType, NoMrw, Number
<1>6. rx \in RxQueueType
  BY <1>1, <1>4 DEF NewRxQueue, RxQueueType, NoMrw, Number
<1>7. /\ tx.firstSeqNum = 0 /\ tx.seqNum = 0 /\ tx.pduTimer = {}
      /\ tx.pduRtxQueue = [i \in Slot |-> FreeSlot]
      /\ tx.received = [i \in Slot |-> FALSE]
      /\ tx.discarded = [i \in Slot |-> FALSE]
      /\ tx.mrwRtxQueue = [id \in MrwId |-> NoMrw]
  BY <1>1 DEF NewTxQueue
<1>8. /\ rx.firstSeqNum = 0 /\ rx.received = [i \in RxSlot |-> FALSE]
      /\ rx.pduBuffer = [i \in RxSlot |-> NoPdu]
  BY <1>1 DEF NewRxQueue
<1>9. TypeOK
  <2>1. delivered \in [Sdu -> Nat] /\ stale \in BOOLEAN
    BY <1>1
  <2> QED BY <1>1, <1>2, <1>3, <1>5, <1>6, <2>1 DEF TypeOK
<1>10. TxOK
  <2>1. Fill(tx, pdus) = 0
    BY <1>2, <1>3, <1>7 DEF Fill
  <2>2. \A i \in Slot : i \in Nat /\ ~(i < Used(tx))
    BY <1>3, <1>7 DEF Slot, Used
  <2>3. InTheirSlots(tx, pdus)
    BY <1>7, <2>2 DEF InTheirSlots, FreeSlot
  <2>4. Window(tx) = {}
    BY <1>7 DEF Window
  <2>5. TimersRight(tx)
    BY <1>7, <2>4 DEF TimersRight
  <2>6. FreeBehind(tx)
    BY <1>7 DEF FreeBehind
  <2> QED BY <1>2, <1>7, <2>1, <2>3, <2>5, <2>6 DEF TxOK, Numbered, InOrder
<1>11. HistoryOK
  BY <1>1, <1>7, <1>8 DEF HistoryOK, NothingSkipped, Finished
<1>12. MessagesOK
  BY <1>1, <1>7 DEF MessagesOK
<1>13. RxOK
  BY <1>1, <1>7, <1>8 DEF RxOK, WindowsOverlap, StatusIsTrue
<1>14. WholeOK
  BY <1>1, <1>2 DEF WholeOK
<1> QED BY <1>1, <1>9, <1>10, <1>11, <1>12, <1>13, <1>14 DEF Inv, NeverThrows

LEMMA StepKeepsInv ==
  ASSUME Inv, [Next]_vars
  PROVE  Inv'
<1>1. CASE UNCHANGED vars
  BY <1>1 DEF vars, history, Inv, TypeOK, NeverThrows, TxOK, Numbered, HistoryOK,
     NothingSkipped, Finished, MessagesOK, MessageOK, Movable, RxOK, WindowsOverlap,
     StatusIsTrue, WholeOK, AllWhole
<1>2. ASSUME Running, NEW n \in 1 .. MaxPdus, Enque(n) PROVE Inv'
  BY <1>2, EnqueKeepsInv
<1>3. ASSUME Running, NEW sn \in tx.pduTimer, PduTimer(sn) PROVE Inv'
  BY <1>3, PduTimerKeepsInv
<1>4. ASSUME Running, NEW id \in MrwId, MrwTimer(id) PROVE Inv'
  BY <1>4, MrwTimerKeepsInv
<1>5. CASE Running /\ BufferStatusTimer
  BY <1>5, BufferStatusTimerKeepsInv
<1>6. CASE Running /\ StatusTimer
  BY <1>6, StatusTimerKeepsInv
<1>7. CASE Running /\ ReportInterval
  BY <1>7, ReportIntervalKeepsInv
<1>8. ASSUME Running, NEW m \in net, Receive(m) PROVE Inv'
  <2>1. CASE ReceiveData(m)
    BY <1>8, <2>1, ReceiveDataKeepsInv
  <2>2. CASE ReceiveAck(m)
    BY <1>8, <2>2, ReceiveAckKeepsInv
  <2>3. CASE ReceiveMrw(m)
    BY <1>8, <2>3, ReceiveMrwKeepsInv
  <2>4. CASE ReceiveMrwAck(m)
    BY <1>8, <2>4, ReceiveMrwAckKeepsInv
  <2> QED BY <1>8, <2>1, <2>2, <2>3, <2>4 DEF Receive
<1> QED BY <1>1, <1>2, <1>3, <1>4, <1>5, <1>6, <1>7, <1>8 DEF Next

\* The inductive invariant of RLC AM holds in every reachable state, whichever
\* window is larger.
THEOREM InvInvariant == Spec => []Inv
<1>1. Inv /\ [Next]_vars => Inv'
  BY StepKeepsInv
<1> QED BY InitInv, <1>1, PTL DEF Spec

\* The two queues and the messages keep their types.
THEOREM TypeInvariant == Spec => []TypeOK
<1>1. Inv => TypeOK
  BY DEF Inv
<1> QED BY InvInvariant, <1>1, PTL

\* As long as no status is stale, no run-time error of AmTxQueue is reached, nor
\* that of AmRxQueue about a PDU in the place of another; and unless the receive
\* window is smaller than the transmit window, none about a PDU or a move outside it.
THEOREM AmNeverThrows == Spec => []NeverThrows
<1>1. Inv => NeverThrows
  BY DEF Inv
<1> QED BY InvInvariant, <1>1, PTL

\* The PDUs of the window stay in their slots, through retransmissions,
\* discards and window moves.
THEOREM PdusStayInSlot == Spec => []PdusKeepTheirSlot
<1>1. Inv => PdusKeepTheirSlot
  BY DEF Inv, TxOK, InOrder, PdusKeepTheirSlot
<1> QED BY InvInvariant, <1>1, PTL

\* A retransmission timer runs exactly for the PDUs that still need one.
THEOREM TimersMatch == Spec => []TimerIffOutstanding
<1>1. Inv => TimerIffOutstanding
  BY DEF Inv, TxOK, InOrder, TimerIffOutstanding
<1> QED BY InvInvariant, <1>1, PTL

\* The windows of the two ends overlap.
THEOREM AmWindowsOverlap == Spec => []WindowsOverlap
<1>1. Inv => WindowsOverlap
  BY DEF Inv, RxOK
<1> QED BY InvInvariant, <1>1, PTL

\* As long as no status is stale, neither window passes a PDU that neither arrived
\* nor was given up.
THEOREM AmNothingSkipped == Spec => []NothingSkipped
<1>1. Inv => NothingSkipped
  BY DEF Inv, HistoryOK
<1> QED BY InvInvariant, <1>1, PTL

\* Every PDU in the receive buffer has its status; every status has its PDU, until
\* a move leaves a stale one, and none does in a receive window of at least twice
\* the transmit window.
THEOREM AmStatusIsTrue == Spec => []StatusIsTrue
<1>1. Inv => StatusIsTrue
  BY DEF Inv, RxOK
<1> QED BY InvInvariant, <1>1, PTL

\* SDUs that fit in one PDU go up at most once, and as long as no status is stale,
\* those the window has passed did go up unless they were given up.
THEOREM AmWholeSdusGoUp == Spec => []WholeSdusGoUp
<1>1. Inv => WholeSdusGoUp
  <2> SUFFICES ASSUME Inv, AllWhole, ~stale, NEW sn \in 0 .. rx.firstSeqNum - 1
               PROVE  delivered[pdus[sn + 1].sdu] = 1 \/ sn \in given
    BY DEF Inv, WholeOK, WholeSdusGoUp
  <2>1. sn \in Nat /\ sn < rx.firstSeqNum /\ sn + 1 \in DOMAIN pdus
    BY InvFacts
  <2>2. pdus[sn + 1].sdu = (sn + 1) - 1 /\ sdus = Len(pdus)
    BY <2>1, BufferFacts
  <2>3. sn \in Sdu
    BY <2>1, <2>2, InvFacts, AmAssumption DEF Sdu, Inv, TypeOK
  <2>4. sn \in taken \cup given
    BY DEF Inv, HistoryOK, NothingSkipped, Finished
  <2> QED BY <2>1, <2>2, <2>3, <2>4, BufferFacts DEF PassedUpRight
<1> QED BY InvInvariant, <1>1, PTL

----------------------------------------------------------------------------
(* The two queues implement one sliding window.                            *)

ServiceStep == [Service!Next]_(Service!vars)

\* A step that moves neither window nor adds PDUs only settles PDUs.
LEMMA SettleStep ==
  ASSUME Inv, Inv', UNCHANGED <<pdus, tx>>, taken \subseteq taken', given' = given,
         taken' \ taken \subseteq 0 .. tx.seqNum - 1, stale' = stale
  PROVE  ServiceStep
<1>1. Finished \subseteq Finished'
  BY DEF Finished
<1>2. Finished' \ Finished
        \subseteq (IF stale THEN 0 ELSE tx.firstSeqNum) .. tx.seqNum - 1
  <2> SUFFICES ASSUME NEW sn \in Finished', sn \notin Finished
               PROVE  sn \in (IF stale THEN 0 ELSE tx.firstSeqNum) .. tx.seqNum - 1
    OBVIOUS
  <2>1. sn \in 0 .. tx.seqNum - 1
    BY DEF Finished
  <2>2. ~stale => sn \notin 0 .. rx.firstSeqNum - 1
    BY DEF Inv, HistoryOK, NothingSkipped
  <2>3. CASE stale
    BY <2>1, <2>3
  <2>4. CASE ~stale
    BY <2>1, <2>2, <2>4, InvFacts
  <2> QED BY <2>3, <2>4
<1> QED BY <1>1, <1>2 DEF ServiceStep, Service!Next, Service!Settle

\* A step that leaves the numbers of the window alone.
LEMMA QuietStep ==
  ASSUME UNCHANGED <<pdus, taken, given, stale, tx.firstSeqNum, tx.seqNum>>
  PROVE  ServiceStep
BY DEF ServiceStep, Service!vars, Finished

LEMMA EnqueImplements ==
  ASSUME Inv, Inv', NEW n \in 1 .. MaxPdus, Enque(n)
  PROVE  ServiceStep
<1> DEFINE new == [k \in 1 .. n |->
              [sn |-> Len(pdus) + k - 1, sdu |-> sdus,
               firstSn |-> Len(pdus), lastSn |-> Len(pdus) + n - 1]]
<1>1. /\ n \in Nat /\ n > 0 /\ Len(pdus) \in Nat /\ sdus \in Nat
      /\ pdus \in Seq(PduType)
  BY AmAssumption, InvFacts DEF Inv, TypeOK
<1>2. new \in [1 .. n -> PduType]
  BY <1>1 DEF PduType, Number
<1> HIDE DEF new
<1>3. Len(new) = n /\ new \in Seq(PduType)
  BY <1>1, <1>2
<1>4. Len(pdus \o new) = Len(pdus) + n /\ Len(pdus \o new) \in Nat
  <2>1. pdus \in Seq(PduType) /\ new \in Seq(PduType)
    BY <1>1, <1>3
  <2>2. Len(pdus \o new) = Len(pdus) + Len(new)
    BY <2>1
  <2> QED BY <1>1, <1>3, <2>2
<1>5. Fail("tx") \/ (/\ pdus' = pdus \o new /\ tx' = AddPdus(tx, pdus')
                    /\ UNCHANGED history)
  BY DEF Enque, new
<1>6. CASE Fail("tx")
  BY <1>6, QuietStep DEF Fail, history
<1>7. CASE pdus' = pdus \o new /\ tx' = AddPdus(tx, pdus') /\ UNCHANGED history
  <2>1. tx'.firstSeqNum = tx.firstSeqNum
    BY <1>7 DEF AddPdus, Inv, TypeOK, TxQueueType
  <2>2. tx'.seqNum = Fill(tx', pdus')
    BY DEF Inv, TxOK
  <2>3. tx'.seqNum = Service!Filled(tx.firstSeqNum, Len(pdus'))
    BY <2>1, <2>2 DEF Fill, Service!Filled
  <2>4. Finished' = Finished /\ stale' = stale
    BY <1>7 DEF history, Finished
  <2>5. Len(pdus') \in Nat /\ Len(pdus') > Len(pdus)
    BY <1>1, <1>4, <1>7
  <2> QED BY <2>1, <2>3, <2>4, <2>5 DEF ServiceStep, Service!Next, Service!Offer
<1> QED BY <1>5, <1>6, <1>7

LEMMA PduTimerImplements ==
  ASSUME Inv, Inv', NEW sn \in tx.pduTimer, PduTimer(sn)
  PROVE  ServiceStep
<1> DEFINE q == [tx EXCEPT !.pduTimer = @ \ {sn}]
           dropped == Discard(q, sn)
<1>1. /\ ~PduTimerThrows(tx, sn)
      /\ Retransmit(tx, sn).firstSeqNum = tx.firstSeqNum
      /\ Retransmit(tx, sn).seqNum = tx.seqNum
  BY InvFacts, TimerFindsPdu, RetransmitKeeps
<1>2. CASE tx' = Retransmit(tx, sn) /\ UNCHANGED <<pdus, sdus, rx, error, history>>
  BY <1>1, <1>2, QuietStep DEF history
<1>3. CASE /\ tx' = CheckForMrw(dropped)
           /\ given' = given \cup {s \in Window(tx) : dropped.discarded[Index(tx, s)]}
           /\ UNCHANGED <<pdus, sdus, rx, error, taken, delivered, stale>>
  <2>1. /\ QueueOver(dropped, pdus) /\ dropped.firstSeqNum = tx.firstSeqNum
        /\ dropped.seqNum = tx.seqNum
    BY InvFacts, DiscardKeeps
  <2> HIDE DEF dropped
  <2>2. tx'.firstSeqNum = tx.firstSeqNum /\ tx'.seqNum = tx.seqNum
    <3>1. dropped \in TxQueueType
      BY <2>1 DEF QueueOver
    <3>2. CheckForMrw(dropped).firstSeqNum = dropped.firstSeqNum
          /\ CheckForMrw(dropped).seqNum = dropped.seqNum
      BY <3>1 DEF CheckForMrw, SendMrw, TxQueueType
    <3> QED BY <1>3, <2>1, <3>2
  <2>3. Finished \subseteq Finished' /\ Finished' \ Finished \subseteq Window(tx)
    BY <1>3 DEF Finished
  <2>4. Window(tx) \subseteq (IF stale THEN 0 ELSE tx.firstSeqNum) .. tx.seqNum - 1
    BY InvFacts DEF Window
  <2> QED BY <1>3, <2>2, <2>3, <2>4 DEF ServiceStep, Service!Next, Service!Settle
<1> QED BY <1>1, <1>2, <1>3 DEF PduTimer

LEMMA ReceiveMrwAckImplements ==
  ASSUME Inv, Inv', NEW m \in net, ReceiveMrwAck(m)
  PROVE  ServiceStep
<1> DEFINE moves == m.sn > tx.firstSeqNum
           q == ShiftTxWindow(tx, m.sn)
<1>1. /\ m.id \in MrwId /\ m.sn \in Nat
      /\ m.sn <= rx.firstSeqNum /\ m.sn <= tx.seqNum
  BY ReceiveMrwAckMoves DEF ReceiveMrwAck
<1>2. /\ tx' = tx \/ tx' = RecvMrwAck(IF moves THEN AddPdus(q, pdus) ELSE tx, m.id)
      /\ UNCHANGED <<pdus, sdus, rx, history>>
  BY DEF ReceiveMrwAck, Fail
<1>3. Finished' = Finished /\ UNCHANGED <<pdus, taken, given, stale>>
  BY <1>2 DEF Finished, history
<1>4. CASE tx' = tx
  BY <1>3, <1>4, QuietStep
<1>5. CASE ~moves /\ tx' = RecvMrwAck(tx, m.id)
  BY <1>3, <1>5, QuietStep DEF RecvMrwAck, Inv, TypeOK, TxQueueType
<1>6. CASE moves /\ tx' = RecvMrwAck(AddPdus(q, pdus), m.id)
  <2>1. tx'.firstSeqNum = m.sn
    BY <1>6 DEF RecvMrwAck, AddPdus, ShiftTxWindow, Inv, TypeOK, TxQueueType
  <2>2. tx'.seqNum = Service!Filled(m.sn, Len(pdus))
    BY <1>3, <2>1 DEF Inv, TxOK, Fill, Service!Filled
  <2>3. m.sn \in tx.firstSeqNum + 1 .. tx.seqNum
    BY <1>1, <1>6, InvFacts
  <2>4. ~stale => tx.firstSeqNum .. m.sn - 1 \subseteq Finished
    <3>1. tx.firstSeqNum .. m.sn - 1 \subseteq 0 .. rx.firstSeqNum - 1
      BY <1>1, InvFacts
    <3> QED BY <3>1 DEF Inv, HistoryOK, NothingSkipped
  <2> QED BY <1>3, <2>1, <2>2, <2>3, <2>4 DEF ServiceStep, Service!Next, Service!Slide
<1> QED BY <1>2, <1>4, <1>5, <1>6

LEMMA ReceiveDataImplements ==
  ASSUME Inv, Inv', NEW m \in net, ReceiveData(m)
  PROVE  ServiceStep
<1>1. UNCHANGED <<pdus, tx, given, stale>>
  BY DEF ReceiveData, Fail, history
<1>2. taken' = taken \/ taken' = taken \cup {m.pdu.sn}
  BY DEF ReceiveData, Fail, history
<1>3. m.pdu.sn \in 0 .. tx.seqNum - 1
  BY DEF ReceiveData, Inv, MessagesOK, MessageOK
<1> QED BY <1>1, <1>2, <1>3, SettleStep

\* Where the move of the receive window leaves a stale status, the service breaks.
LEMMA ReceiveMrwImplements ==
  ASSUME Inv, Inv', NEW m \in net, ReceiveMrw(m)
  PROVE  ServiceStep
<1>1. UNCHANGED <<pdus, tx, taken, given>> /\ (stale => stale')
  BY DEF ReceiveMrw, Fail, history
<1>2. CASE stale' = stale
  BY <1>1, <1>2, QuietStep
<1>3. CASE stale' # stale
  <2>1. stale' = TRUE /\ RxWindowSize < 2 * TxWindowSize
    BY <1>1, <1>3 DEF Inv, TypeOK, RxOK, StatusIsTrue
  <2>2. Finished' = Finished
    BY <1>1 DEF Finished
  <2> QED BY <1>1, <2>1, <2>2 DEF ServiceStep, Service!Next, Service!Break
<1> QED BY <1>2, <1>3

\* Every step of the two queues is one of the service, or changes nothing of it.
LEMMA StepImplements ==
  ASSUME Inv, Inv', [Next]_vars
  PROVE  ServiceStep
<1>1. CASE UNCHANGED vars
  BY <1>1, QuietStep DEF vars, history
<1>2. ASSUME NEW n \in 1 .. MaxPdus, Enque(n) PROVE ServiceStep
  BY <1>2, EnqueImplements
<1>3. ASSUME NEW sn \in tx.pduTimer, PduTimer(sn) PROVE ServiceStep
  BY <1>3, PduTimerImplements
<1>4. ASSUME NEW id \in MrwId, MrwTimer(id) PROVE ServiceStep
  BY <1>4, QuietStep DEF MrwTimer, history, RecvMrwAck, Inv, TypeOK, TxQueueType
<1>5. CASE BufferStatusTimer
  <2>1. tx \in TxQueueType /\ UNCHANGED <<pdus, taken, given, stale>>
        /\ tx' = [CheckForMrw(tx) EXCEPT !.bufferStatusTimer = FALSE]
    BY <1>5 DEF BufferStatusTimer, history, Inv, TypeOK
  <2>2. tx'.firstSeqNum = tx.firstSeqNum /\ tx'.seqNum = tx.seqNum
    BY <2>1 DEF CheckForMrw, SendMrw, TxQueueType
  <2> QED BY <2>1, <2>2, QuietStep
<1>6. CASE StatusTimer
  BY <1>6, QuietStep DEF StatusTimer, history
<1>7. CASE ReportInterval
  BY <1>7, QuietStep DEF ReportInterval, history
<1>8. ASSUME NEW m \in net, Receive(m) PROVE ServiceStep
  <2>1. CASE ReceiveData(m)
    BY <1>8, <2>1, ReceiveDataImplements
  <2>2. CASE ReceiveAck(m)
    <3>1. UNCHANGED <<pdus, taken, given, stale>> /\ tx \in TxQueueType
      BY <2>2 DEF ReceiveAck, Fail, history, Inv, TypeOK
    <3>2. tx' = tx \/ tx' = MarkReceived(tx, m.acked)
          \/ tx' = MarkReceived(CheckForMrw(RecvCumulativeAck(tx, m.lastSn)), m.acked)
      BY <2>2 DEF ReceiveAck, Fail
    <3>3. tx'.firstSeqNum = tx.firstSeqNum /\ tx'.seqNum = tx.seqNum
      BY <3>1, <3>2 DEF MarkReceived, RecvCumulativeAck, CheckForMrw, SendMrw, TxQueueType
    <3> QED BY <3>1, <3>3, QuietStep
  <2>3. CASE ReceiveMrw(m)
    BY <1>8, <2>3, ReceiveMrwImplements
  <2>4. CASE ReceiveMrwAck(m)
    BY <1>8, <2>4, ReceiveMrwAckImplements
  <2> QED BY <1>8, <2>1, <2>2, <2>3, <2>4 DEF Receive
<1> QED BY <1>1, <1>2, <1>3, <1>4, <1>5, <1>6, <1>7, <1>8 DEF Next

LEMMA InitImplements == Init => Service!Init
BY DEF Init, NewTxQueue, Finished, Service!Init

\* RLC AM implements one sliding window over the PDUs of the flow, which may only
\* break if the receive window is less than twice the transmit window.
THEOREM Implementation == Spec => ImplementsService
<1>1. Inv /\ Inv' /\ [Next]_vars => [Service!Next]_(Service!vars)
  BY StepImplements DEF ServiceStep
<1>2. Spec => []Inv
  BY InvInvariant
<1> QED BY InitImplements, <1>1, <1>2, PTL DEF Spec, ImplementsService, Service!Spec
=============================================================================
