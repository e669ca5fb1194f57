-------------------------- MODULE LteDlHarqProofs --------------------------
(* Inv of LteDlHarq is an inductive invariant, for any number of           *)
(* processes, PDUs, retransmissions and any length of the evaluation; the  *)
(* safety properties of LteDlHarq follow from it.                          *)
EXTENDS LteDlHarq, LteHarqProofs

\* Assumptions about the constants, and what the type invariant says of the
\* receive processes and of the transmit units, in the form the proofs use.
LEMMA TypeFacts ==
  ASSUME TypeOK
  PROVE  /\ tx.unit \in [Acid -> TxUnit]
         /\ \A a \in Acid : /\ tx.unit[a].status \in TxStatus
                            /\ tx.unit[a].pdu \in Pdu \cup {NoPdu}
                            /\ tx.unit[a].transmissions \in Nat
         /\ \A f \in dlSent \cup dlAir : f.acid \in Acid /\ f.pdu \in Pdu
         /\ \A fb \in fbSent \cup fbAir :
              fb.acid \in Acid /\ fb.pdu \in Pdu /\ fb.ack \in BOOLEAN
  BY DEF TypeOK, TxBuffer, TxUnit, DataFrame, Feedback

\* A process that does not wait for feedback has nothing under way.
LEMMA NothingUnderway ==
  ASSUME TypeOK, ExchangesOK, NEW a \in Acid, Status(tx, a) # "WAITING"
  PROVE  ~DataUnderway(a) /\ ~Evaluating(a) /\ ~FeedbackUnderway(a)
  BY DEF ExchangesOK, WaitsFor, DataUnderway, FeedbackUnderway

\* The invariant holds when the simulation starts: nothing is held, nothing
\* is on the air and every PDU is still in the MAC buffers.
LEMMA InitInv == Init => Inv
<1> SUFFICES ASSUME Init PROVE Inv
  OBVIOUS
<1>1. tx.unit = [a \in Acid |-> ResetUnit] /\ tx.selectedAcid = HarqNone
      /\ tx.numEmptyUnits = [a \in Acid |-> MaxCodewords]
      /\ tx.numSelected = [a \in Acid |-> 0]
  BY DEF Init, InitTxBuffer
<1>2. ResetUnit \in TxUnit /\ MaxCodewords \in Int
  BY DEF ResetUnit, TxUnit, TxStatus, MaxCodewords
<1>3. tx \in TxBuffer
  BY <1>2 DEF Init, InitTxBuffer, TxBuffer
<1>4. rx \in [Acid -> RxProcess] /\ RxOK
  BY ResetCodewordType DEF Init, InitRxBuffer, RxOK
<1>5. TypeOK
  BY <1>3, <1>4 DEF Init, TypeOK
<1>6. NoRuntimeError
  BY DEF Init, NoRuntimeError
<1>7. \A a \in Acid : /\ Status(tx, a) = "EMPTY"
                      /\ tx.unit[a].pdu = NoPdu
                      /\ ~IsReady(tx, a)
  BY <1>1 DEF Status, IsReady, ResetUnit
<1>8. UnitsOK
  <2>1. CountersMatchUnits(tx)
    BY <1>1, <1>7 DEF CountersMatchUnits
  <2> QED BY <1>1, <1>7, <2>1 DEF UnitsOK, BookkeepingOK
<1>9. \A a \in Acid : ~Evaluating(a)
  BY DEF Init, InitRxBuffer, ResetCodeword, Evaluating
<1>10. ExchangesOK
  BY <1>7, <1>9 DEF Init, ExchangesOK
<1>11. HistoryOK
  BY <1>7, NoPduAssumption DEF Init, HistoryOK, SettledOnce, Held
<1>12. OneFramePerTti
  BY <1>9 DEF Init, OneFramePerTti
<1> QED BY <1>4, <1>5, <1>6, <1>8, <1>10, <1>11, <1>12 DEF Inv

----------------------------------------------------------------------------
(* The steps of the eNodeB.                                                *)

\* PDU p goes into frame f, for the n-th time, from process a, which had
\* nothing under way and held no other PDU.
Sends(a, p, n, f) ==
  /\ "enb" \notin ticked
  /\ Status(tx, a) # "WAITING"
  /\ Status(tx, a) # "EMPTY" => tx.unit[a].pdu = p
  /\ \A b \in Acid : b # a => tx.unit[b].pdu # p
  /\ f.acid = a /\ f.pdu = p
  /\ tx' \in TxBuffer /\ CountersMatchUnits(tx') /\ tx'.selectedAcid = HarqNone
  /\ tx'.unit = [tx.unit EXCEPT ![a] = [status |-> "WAITING", pdu |-> p,
                                        transmissions |-> n]]
  /\ attempts[p] + 1 = n /\ delivered[p] = 0
  /\ p \notin discarded /\ p \notin dropped
  /\ backlog' = backlog \ {p}
  /\ dlSent' = dlSent \cup {f}
  /\ attempts' = [attempts EXCEPT ![p] = @ + 1]
  /\ err' = FALSE /\ ticked' = ticked \cup {"enb"}
  /\ UNCHANGED <<rx, dlAir, fbSent, fbAir, delivered, discarded, dropped>>

\* What sending the selected PDU of one process does to every exchange: the
\* process waits, its frame is on the air, and the others are untouched.
LEMMA SendStep ==
  ASSUME Inv,
         NEW a \in Acid, NEW p \in Pdu, NEW n \in 1 .. MaxHarqRtx + 1,
         NEW f \in DataFrame, Sends(a, p, n, f)
  PROVE  Inv'
<1> USE DEF Inv, Sends
<1>1. ~DataUnderway(a) /\ ~Evaluating(a) /\ ~FeedbackUnderway(a)
  BY NothingUnderway
<1>2. tx.unit \in [Acid -> TxUnit]
  BY TypeFacts
<1>3. /\ Status(tx', a) = "WAITING" /\ tx'.unit[a].pdu = p
      /\ tx'.unit[a].transmissions = n
      /\ \A b \in Acid : b # a => tx'.unit[b] = tx.unit[b]
      /\ \A b \in Acid : b # a => Status(tx', b) = Status(tx, b)
  BY <1>2 DEF Status
<1>4. TypeOK'
  <2>1. attempts' \in [Pdu -> Nat]
    BY DEF TypeOK
  <2> QED BY <2>1 DEF TypeOK, Node
<1>5. NoRuntimeError'
  BY DEF NoRuntimeError
<1>6. UnitsOK'
  <2>1. \A b \in Acid :
          /\ Status(tx, b)' = "EMPTY" <=> tx'.unit[b].pdu = NoPdu
          /\ Status(tx, b)' = "WAITING" =>
               tx'.unit[b].transmissions \in 1 .. MaxHarqRtx + 1
          /\ IsReady(tx, b)' => tx'.unit[b].transmissions \in 1 .. MaxHarqRtx
    BY <1>3, NoPduAssumption DEF UnitsOK, IsReady
  <2>2. \A b, c \in Acid :
          tx'.unit[b].pdu = tx'.unit[c].pdu /\ tx'.unit[b].pdu # NoPdu => b = c
    BY <1>3 DEF UnitsOK
  <2> QED BY <2>1, <2>2 DEF UnitsOK, BookkeepingOK
<1>7. RxOK'
  BY DEF RxOK, Evaluating
<1>8. ExchangesOK'
  <2>1. \A b \in Acid, q \in Pdu, k \in {0, 1} :
          b # a /\ WaitsFor(b, q, k) => WaitsFor(b, q, k)'
    BY <1>3 DEF WaitsFor
  <2>2. \A g \in dlSent \cup dlAir : g.acid # a
    BY <1>1 DEF DataUnderway
  <2>3. \A fb \in fbSent \cup fbAir : fb.acid # a
    BY <1>1 DEF FeedbackUnderway
  <2>4. WaitsFor(a, p, 0)'
    BY <1>3 DEF WaitsFor
  <2>5. \A b \in Acid : Evaluating(b)' <=> Evaluating(b)
    BY DEF Evaluating
  <2>6. \A g \in (dlSent \cup dlAir)' :
          WaitsFor(g.acid, g.pdu, 0)' /\ ~Evaluating(g.acid)'
    BY <1>1, <2>1, <2>2, <2>4, <2>5, TypeFacts DEF ExchangesOK
  <2>7. \A b \in Acid : Evaluating(b)' => WaitsFor(b, rx[b].pdu, 0)'
    <3>1. \A b \in Acid : Evaluating(b) => WaitsFor(b, rx[b].pdu, 0)
      BY DEF ExchangesOK
    <3> QED BY <1>1, <1>3, <2>5, <3>1 DEF WaitsFor
  <2>8. \A b \in Acid : DataUnderway(b)' <=> DataUnderway(b) \/ b = a
    BY DEF DataUnderway
  <2>9. \A b \in Acid : FeedbackUnderway(b)' <=> FeedbackUnderway(b)
    BY DEF FeedbackUnderway
  <2>10. \A fb \in (fbSent \cup fbAir)' :
          /\ WaitsFor(fb.acid, fb.pdu, IF fb.ack THEN 1 ELSE 0)'
          /\ ~Evaluating(fb.acid)' /\ ~DataUnderway(fb.acid)'
    BY <2>1, <2>3, <2>5, <2>8, TypeFacts DEF ExchangesOK
  <2>11. \A b \in Acid : Status(tx, b)' = "WAITING" =>
           DataUnderway(b)' \/ Evaluating(b)' \/ FeedbackUnderway(b)'
    BY <1>3, <2>5, <2>8, <2>9 DEF ExchangesOK
  <2>12. \A g, h \in (dlSent \cup dlAir)' : g.acid = h.acid => g = h
    BY <2>2 DEF ExchangesOK
  <2>13. (dlSent \cap dlAir)' = {}
    BY <2>2 DEF ExchangesOK
  <2>14. /\ \A g, h \in (fbSent \cup fbAir)' : g.acid = h.acid => g = h
         /\ (fbSent \cap fbAir)' = {}
    BY DEF ExchangesOK
  <2> QED BY <2>6, <2>7, <2>10, <2>11, <2>12, <2>13, <2>14 DEF ExchangesOK
<1>9. HistoryOK'
  <2>1. attempts \in [Pdu -> Nat] /\ attempts'[p] = n
        /\ \A q \in Pdu : q # p => attempts'[q] = attempts[q]
    BY DEF TypeOK
  <2>2. \A q \in Pdu : q # p => (Held(q)' <=> Held(q))
    <3>1. \A q \in Pdu : q # p => tx.unit[a].pdu # q
      BY <1>2, NoPduAssumption DEF UnitsOK
    <3> QED BY <1>3, <3>1 DEF Held
  <2>3. Held(p)'
    BY <1>3 DEF Held
  <2>4. \A q \in (backlog \cup dropped)' :
          attempts'[q] = 0 /\ delivered'[q] = 0 /\ q \notin discarded' /\ ~Held(q)'
    BY <2>1, <2>2 DEF HistoryOK, TypeOK
  <2>5. \A b \in Acid : Status(tx, b)' # "EMPTY" =>
       /\ attempts'[tx'.unit[b].pdu] = tx'.unit[b].transmissions
       /\ tx'.unit[b].pdu \notin discarded'
       /\ IsReady(tx, b)' => delivered'[tx'.unit[b].pdu] = 0
    <3> SUFFICES ASSUME NEW b \in Acid, Status(tx, b)' # "EMPTY"
                 PROVE  /\ attempts'[tx'.unit[b].pdu] = tx'.unit[b].transmissions
                        /\ tx'.unit[b].pdu \notin discarded'
                        /\ IsReady(tx, b)' => delivered'[tx'.unit[b].pdu] = 0
      OBVIOUS
    <3>1. CASE b = a
      BY <1>3, <2>1, <3>1 DEF IsReady
    <3>2. CASE b # a
      <4>1. tx.unit[b].pdu \in Pdu /\ tx.unit[b].pdu # p
        BY <1>3, <3>2, TypeFacts DEF UnitsOK
      <4> QED BY <1>3, <2>1, <3>2, <4>1 DEF IsReady, HistoryOK
    <3> QED BY <3>1, <3>2
  <2>6. SettledOnce'
    BY <2>1, <2>2, <2>3 DEF HistoryOK, SettledOnce
  <2> QED BY <2>4, <2>5, <2>6 DEF HistoryOK
<1>10. OneFramePerTti'
  <2>1. dlSent = {}
    BY DEF OneFramePerTti
  <2>2. \A b \in Acid : Evaluating(b)' <=> Evaluating(b)
    BY DEF Evaluating
  <2> QED BY <2>1, <2>2 DEF OneFramePerTti
<1> QED BY <1>4, <1>5, <1>6, <1>7, <1>8, <1>9, <1>10

\* What the eNodeB does when it sends a frame.
SendsFrame ==
  \E a \in Acid, p \in Pdu, n \in 1 .. MaxHarqRtx + 1, f \in DataFrame :
    Sends(a, p, n, f)

\* A retransmission sends a frame: the unit was ready, so no exchange of its
\* process was underway and its PDU was not delivered.
LEMMA RetransmitsSends ==
  ASSUME Inv, NEW a \in Acid, EnbTickRetransmits(a) PROVE SendsFrame
<1> USE DEF Inv
<1> DEFINE p == tx.unit[a].pdu
           n == tx.unit[a].transmissions + 1
           f == [acid |-> a, pdu |-> p, ndi |-> FALSE]
           marked == MarkSelected(tx, a)
<1>1. /\ Status(tx, a) = "BUFFERED" /\ IsReady(tx, a)
      /\ tx.unit[a].transmissions \in 1 .. MaxHarqRtx
  BY DEF EnbTickRetransmits, IsReady, UnitsOK
<1>2. p \in Pdu /\ n \in 1 .. MaxHarqRtx + 1 /\ f \in DataFrame
  BY <1>1, TypeFacts, MaxHarqRtxAssumption DEF UnitsOK, DataFrame
<1>3. tx \in TxBuffer /\ CountersMatchUnits(tx) /\ tx.selectedAcid = HarqNone
  BY DEF TypeOK, UnitsOK, BookkeepingOK
<1>4. tx.unit[a].transmissions # 0
  BY <1>1
<1>5. SentFrom(tx, marked, a, p, n, FALSE) /\ ~MarkThrows(tx, a) /\ ~ExtractThrows(marked)
  <2> HIDE DEF Inv
  <2> QED BY <1>1, <1>3, <1>4, MarkAndSend
<1>f. FramesDown(marked) = {f}
  BY <1>5 DEF SentFrom
<1>6. tx' = SendSelectedDown(marked) /\ dlSent' = dlSent \cup {f} /\ err' = FALSE
  BY <1>5, <1>f DEF EnbTickRetransmits
<1>7. attempts' = [attempts EXCEPT ![p] = @ + 1]
  <2>1. CountAttempts({f})
    BY <1>f DEF EnbTickRetransmits
  <2>2. \A q \in Pdu : (\E g \in {f} : g.pdu = q) <=> q = p
    OBVIOUS
  <2> QED BY <1>2, <2>1, <2>2 DEF CountAttempts, TypeOK
<1>8. \A b \in Acid : b # a => tx.unit[b].pdu # p
  BY <1>2, NoPduAssumption DEF UnitsOK
<1>9. /\ attempts[p] + 1 = n /\ delivered[p] = 0 /\ p \notin discarded
      /\ p \notin dropped /\ p \notin backlog
  BY <1>1 DEF HistoryOK, Held
<1>10. /\ backlog' = backlog \ {p} /\ ticked' = ticked \cup {"enb"}
       /\ "enb" \notin ticked
       /\ UNCHANGED <<rx, dlAir, fbSent, fbAir, delivered, discarded, dropped>>
  BY <1>9 DEF EnbTickRetransmits, EnbTick
<1>11. CountersMatchUnits(tx')
  BY <1>5, <1>6 DEF SentFrom
<1> HIDE DEF Inv, p, n, f, marked
<1>12. f.acid = a /\ f.pdu = p
  BY DEF f
<1>13. /\ tx' \in TxBuffer /\ tx'.selectedAcid = HarqNone
       /\ tx'.unit = [tx.unit EXCEPT ![a] = [status |-> "WAITING", pdu |-> p,
                                             transmissions |-> n]]
  BY <1>5, <1>6 DEF SentFrom
<1>14. tx.unit[a].pdu = p
  BY DEF p
<1>15. Sends(a, p, n, f)
  BY <1>1, <1>6, <1>7, <1>8, <1>9, <1>10, <1>11, <1>12, <1>13, <1>14 DEF Sends
<1> QED BY <1>2, <1>15 DEF SendsFrame

\* A first transmission sends a frame: the PDU goes to an empty process and had
\* no history.
LEMMA TransmitsSends ==
  ASSUME Inv, NEW p \in Pdu, EnbTickTransmits(p) PROVE SendsFrame
<1> USE DEF Inv
<1>1. PICK a \in Acid :
        LET inserted == InsertPdu(tx, a, p) IN
        /\ EnbTick
        /\ p \in backlog
        /\ IsFirstAvailable(tx, a)
        /\ 0 \in EmptyUnitsIds(tx, a)
        /\ backlog' = backlog \ {p}
        /\ err' = (InsertThrows(tx, a) \/ ExtractThrows(inserted))
        /\ tx' = SendSelectedDown(inserted)
        /\ dlSent' = dlSent \cup FramesDown(inserted)
        /\ CountAttempts(FramesDown(inserted))
        /\ UNCHANGED dropped
  BY DEF EnbTickTransmits
<1> DEFINE f == [acid |-> a, pdu |-> p, ndi |-> TRUE]
           inserted == InsertPdu(tx, a, p)
<1>2. Status(tx, a) = "EMPTY"
  BY <1>1 DEF EmptyUnitsIds
<1>3. tx \in TxBuffer /\ CountersMatchUnits(tx) /\ tx.selectedAcid = HarqNone
  BY DEF TypeOK, UnitsOK, BookkeepingOK
<1>4. SentFrom(tx, inserted, a, p, 1, TRUE) /\ ~InsertThrows(tx, a) /\ ~ExtractThrows(inserted)
  <2> HIDE DEF Inv
  <2> QED BY <1>2, <1>3, InsertAndSend
<1>f. FramesDown(inserted) = {f}
  BY <1>4 DEF SentFrom
<1>5. tx' = SendSelectedDown(inserted) /\ dlSent' = dlSent \cup {f} /\ err' = FALSE
  BY <1>1, <1>4, <1>f
<1>6. attempts' = [attempts EXCEPT ![p] = @ + 1]
  <2>1. CountAttempts({f})
    BY <1>1, <1>f
  <2>2. \A q \in Pdu : (\E g \in {f} : g.pdu = q) <=> q = p
    OBVIOUS
  <2> QED BY <2>1, <2>2 DEF CountAttempts, TypeOK
<1>7. \A b \in Acid : b # a => tx.unit[b].pdu # p
  BY <1>1 DEF HistoryOK, Held
<1>8. /\ attempts[p] + 1 = 1 /\ delivered[p] = 0 /\ p \notin discarded
      /\ p \notin dropped
  BY <1>1 DEF HistoryOK
<1>9. /\ backlog' = backlog \ {p} /\ ticked' = ticked \cup {"enb"}
      /\ "enb" \notin ticked
      /\ UNCHANGED <<rx, dlAir, fbSent, fbAir, delivered, discarded, dropped>>
  BY <1>1 DEF EnbTick
<1>10. 1 \in 1 .. MaxHarqRtx + 1
  BY MaxHarqRtxAssumption
<1> HIDE DEF Inv, f, inserted
<1>11. f \in DataFrame /\ f.acid = a /\ f.pdu = p
  BY DEF f, DataFrame
<1>12. /\ tx' \in TxBuffer /\ tx'.selectedAcid = HarqNone
       /\ CountersMatchUnits(tx')
       /\ tx'.unit = [tx.unit EXCEPT ![a] = [status |-> "WAITING", pdu |-> p,
                                             transmissions |-> 1]]
  BY <1>4, <1>5 DEF SentFrom
<1>13. Sends(a, p, 1, f)
  BY <1>2, <1>5, <1>6, <1>7, <1>8, <1>9, <1>11, <1>12 DEF Sends
<1> QED BY <1>10, <1>11, <1>13 DEF SendsFrame

\* A step that sends a frame keeps the invariant.
LEMMA SendsInv == ASSUME Inv, SendsFrame PROVE Inv'
BY SendStep DEF SendsFrame

\* A PDU that macPduMake deletes for want of a process keeps the invariant.
LEMMA DropsInv ==
  ASSUME Inv, NEW p \in Pdu, EnbTickDrops(p) PROVE Inv'
<1> USE DEF Inv, EnbTickDrops, EnbTick
<1>1. TypeOK' /\ NoRuntimeError'
  BY DEF TypeOK, NoRuntimeError, Node
<1>2. UnitsOK'
  BY DEF UnitsOK, BookkeepingOK
<1>3. RxOK'
  BY DEF RxOK, Evaluating
<1>4. ExchangesOK'
  BY DEF ExchangesOK, WaitsFor, Evaluating, DataUnderway, FeedbackUnderway
<1>5. HistoryOK'
  BY DEF HistoryOK, SettledOnce, Held
<1>6. OneFramePerTti'
  BY DEF OneFramePerTti, Evaluating
<1> QED BY <1>1, <1>2, <1>3, <1>4, <1>5, <1>6

\* A tick that schedules nothing for this UE keeps the invariant.
LEMMA IdleInv == ASSUME Inv, EnbTickIdle PROVE Inv'
<1> USE DEF Inv, EnbTickIdle, EnbTick
<1>1. TypeOK' /\ NoRuntimeError'
  BY DEF TypeOK, NoRuntimeError, Node
<1>2. UnitsOK'
  BY DEF UnitsOK, BookkeepingOK
<1>3. RxOK'
  BY DEF RxOK, Evaluating
<1>4. ExchangesOK'
  BY DEF ExchangesOK, WaitsFor, Evaluating, DataUnderway, FeedbackUnderway
<1>5. HistoryOK'
  BY DEF HistoryOK, SettledOnce, Held
<1>6. OneFramePerTti'
  BY DEF OneFramePerTti, Evaluating
<1> QED BY <1>1, <1>2, <1>3, <1>4, <1>5, <1>6

----------------------------------------------------------------------------
(* The step of the UE, and the arrivals.                                   *)

LEMMA UeTickInv == ASSUME Inv, UeTick PROVE Inv'
<1> USE DEF Inv
<1> DEFINE older == OneTtiLater(rx)
           Ends(a) == IsEvaluated(older[a])
<1>1. /\ rx \in [Acid -> RxProcess]
      /\ \A a \in Acid : /\ older[a] = GrowOlder(rx[a])
                         /\ older[a] \in RxProcess
                         /\ older[a].status = rx[a].status
                         /\ older[a].pdu = rx[a].pdu
                         /\ older[a].result = rx[a].result
  BY GrowOlderKeepsPdu DEF TypeOK, OneTtiLater
<1>2. \A a \in Acid : rx[a].status \in {"EMPTY", "EVALUATING"}
  BY DEF RxOK, ResetCodeword, Evaluating
<1>3. \A a \in Acid :
        /\ rx'[a] = IF Ends(a) THEN ResetCodeword ELSE older[a]
        /\ Ends(a) => Evaluating(a)
        /\ Answer(older[a]).status = "CORRECT" <=> Ends(a) /\ rx[a].result
  <2> SUFFICES ASSUME NEW a \in Acid
               PROVE  /\ rx'[a] = IF Ends(a) THEN ResetCodeword ELSE older[a]
                      /\ Ends(a) => Evaluating(a)
                      /\ Answer(older[a]).status = "CORRECT"
                           <=> Ends(a) /\ rx[a].result
    OBVIOUS
  <2>1. rx'[a] = Purge(Extract(Answer(older[a])))
    BY DEF UeTick, PurgeCorruptedPdus, ExtractCorrectPdus
  <2>2. rx[a] \in RxProcess
    BY <1>1
  <2> HIDE DEF older
  <2>3. /\ Ends(a) => /\ rx[a].status = "EVALUATING"
                      /\ rx'[a] = ResetCodeword
                      /\ Answer(older[a]).status = "CORRECT" <=> rx[a].result
        /\ ~Ends(a) => rx'[a] = older[a] /\ Answer(older[a]) = older[a]
    BY <1>1, <1>2, <2>1, <2>2, ReceptionTick
  <2>4. older[a].status # "CORRECT"
    BY <1>1, <1>2
  <2> QED BY <2>3, <2>4 DEF Evaluating
<1>4. \A a \in Acid : Evaluating(a)' <=> Evaluating(a) /\ ~Ends(a)
  BY <1>1, <1>3 DEF Evaluating, ResetCodeword
<1>5. fbSent' = fbSent \cup {[acid |-> a, pdu |-> rx[a].pdu, ack |-> rx[a].result]
                              : a \in {b \in Acid : Ends(b)}}
  BY <1>1 DEF UeTick, FeedbackSent
<1>6. \A p \in Pdu : delivered'[p] =
        IF \E a \in Acid : Ends(a) /\ rx[a].result /\ rx[a].pdu = p
        THEN delivered[p] + 1 ELSE delivered[p]
  <2>1. CorrectPdus(older) =
          {rx[a].pdu : a \in {b \in Acid : Ends(b) /\ rx[b].result}}
    BY <1>1, <1>3 DEF CorrectPdus
  <2> QED BY <2>1 DEF UeTick
<1>7. /\ delivered' \in [Pdu -> Nat]
      /\ err' = err /\ tx' = tx /\ ticked' = ticked \cup {"ue"}
      /\ UNCHANGED <<backlog, dlSent, dlAir, fbAir, attempts, discarded, dropped>>
  BY DEF UeTick, TypeOK
<1>8. rx' \in [Acid -> RxProcess]
  <2>1. rx' = [a \in Acid |-> rx'[a]]
    BY DEF UeTick, PurgeCorruptedPdus
  <2> HIDE DEF older
  <2> QED BY <1>1, <1>3, <2>1, ResetCodewordType
\* The processes whose evaluation ends wait for the PDU evaluated.
<1>9. \A a \in Acid : Ends(a) =>
        /\ WaitsFor(a, rx[a].pdu, 0)
        /\ rx[a].pdu \in Pdu
        /\ ~DataUnderway(a) /\ ~FeedbackUnderway(a)
  <2>1. \A a \in Acid : Ends(a) => WaitsFor(a, rx[a].pdu, 0)
    BY <1>3 DEF ExchangesOK
  <2>2. \A a \in Acid : Ends(a) => ~DataUnderway(a) /\ ~FeedbackUnderway(a)
    BY <1>3, TypeFacts DEF ExchangesOK, DataUnderway, FeedbackUnderway
  <2>3. \A a \in Acid : Ends(a) => rx[a].pdu \in Pdu
    BY <2>1, TypeFacts DEF WaitsFor, UnitsOK
  <2> QED BY <2>1, <2>2, <2>3
\* One TTI older, those that stay under evaluation are still too young.
<1>ages. \A a \in Acid : Evaluating(a) =>
           /\ rx[a].age \in Nat /\ older[a].age = rx[a].age + 1
           /\ ~Ends(a) => older[a].age < FbInterval
  <2> SUFFICES ASSUME NEW a \in Acid, Evaluating(a)
               PROVE  /\ rx[a].age \in Nat /\ older[a].age = rx[a].age + 1
                      /\ ~Ends(a) => older[a].age < FbInterval
    OBVIOUS
  <2>1. /\ rx[a] \in RxProcess /\ rx[a].status = "EVALUATING"
        /\ rx[a].age < FbInterval /\ older[a] = GrowOlder(rx[a])
    BY <1>1 DEF OneFramePerTti, Evaluating
  <2> HIDE DEF older, Inv
  <2>2. rx[a].age \in Nat /\ FbInterval \in Nat
    BY <2>1, FbIntervalAssumption DEF RxProcess
  <2>3. older[a] = [rx[a] EXCEPT !.age = rx[a].age + 1]
    BY <2>1 DEF GrowOlder
  <2>4. older[a].age = rx[a].age + 1 /\ older[a].status = "EVALUATING"
    BY <2>1, <2>3 DEF RxProcess
  <2> QED BY <2>2, <2>4 DEF IsEvaluated
<1> HIDE DEF older, Ends
<1>10. \A a \in Acid : Status(tx, a) # "EMPTY" /\ ~Ends(a) =>
         delivered'[tx.unit[a].pdu] = delivered[tx.unit[a].pdu]
  <2> SUFFICES ASSUME NEW a \in Acid, Status(tx, a) # "EMPTY", ~Ends(a)
               PROVE  delivered'[tx.unit[a].pdu] = delivered[tx.unit[a].pdu]
    OBVIOUS
  <2>1. tx.unit[a].pdu \in Pdu /\ tx.unit[a].pdu # NoPdu
    BY TypeFacts DEF UnitsOK
  <2>2. \A b \in Acid : Ends(b) => rx[b].pdu # tx.unit[a].pdu
    BY <1>9, <2>1 DEF WaitsFor, UnitsOK
  <2> QED BY <1>6, <2>1, <2>2
<1>11. \A a \in Acid : Ends(a) =>
         delivered'[rx[a].pdu] = IF rx[a].result THEN 1 ELSE 0
  <2> SUFFICES ASSUME NEW a \in Acid, Ends(a)
               PROVE  delivered'[rx[a].pdu] = IF rx[a].result THEN 1 ELSE 0
    OBVIOUS
  <2>1. /\ rx[a].pdu \in Pdu /\ rx[a].pdu # NoPdu
        /\ tx.unit[a].pdu = rx[a].pdu /\ delivered[rx[a].pdu] = 0
    BY <1>9, NoPduAssumption DEF WaitsFor
  <2>2. \A b \in Acid : Ends(b) /\ rx[b].pdu = rx[a].pdu => b = a
    BY <1>9, <2>1 DEF WaitsFor, UnitsOK
  <2> QED BY <1>6, <2>1, <2>2
<1>12. \A p \in Pdu : ~Held(p) => delivered'[p] = delivered[p]
  BY <1>6, <1>9 DEF WaitsFor, Held
<1>13. TypeOK'
  <2>1. fbSent' \subseteq Feedback
    <3>1. \A a \in Acid : Ends(a) =>
            [acid |-> a, pdu |-> rx[a].pdu, ack |-> rx[a].result] \in Feedback
      BY <1>1, <1>9 DEF RxProcess, Feedback
    <3> QED BY <1>5, <3>1 DEF TypeOK
  <2> QED BY <1>7, <1>8, <2>1 DEF TypeOK, Node
<1>14. NoRuntimeError'
  BY <1>7 DEF NoRuntimeError
<1>15. UnitsOK'
  BY <1>7 DEF UnitsOK, BookkeepingOK
<1>16. RxOK'
  <2> SUFFICES ASSUME NEW a \in Acid
               PROVE  rx'[a] = ResetCodeword \/ Evaluating(a)'
    BY DEF RxOK
  <2>1. CASE Ends(a)
    BY <1>3, <2>1
  <2>2. CASE ~Ends(a) /\ Evaluating(a)
    BY <1>4, <2>2
  <2>3. CASE ~Ends(a) /\ ~Evaluating(a)
    <3>1. rx[a] = ResetCodeword /\ rx[a].status # "EVALUATING"
      BY <2>3 DEF RxOK, Evaluating
    <3>2. rx'[a] = older[a] /\ older[a] = GrowOlder(rx[a])
      BY <1>1, <1>3, <2>3
    <3>3. GrowOlder(rx[a]) = rx[a]
      BY <3>1 DEF GrowOlder
    <3> QED BY <3>1, <3>2, <3>3
  <2> QED BY <2>1, <2>2, <2>3
<1>17. ExchangesOK'
  <2>1. \A a \in Acid, p \in Pdu, n \in {0, 1} :
          ~Ends(a) /\ WaitsFor(a, p, n) => WaitsFor(a, p, n)'
    BY <1>7, <1>10 DEF WaitsFor
  <2>2. \A f \in dlSent \cup dlAir : ~Ends(f.acid) /\ f.acid \in Acid
    BY <1>9, TypeFacts DEF DataUnderway
  <2>3. \A fb \in fbSent \cup fbAir : ~Ends(fb.acid) /\ fb.acid \in Acid
    BY <1>9, TypeFacts DEF FeedbackUnderway
  <2>4. \A f \in (dlSent \cup dlAir)' :
          WaitsFor(f.acid, f.pdu, 0)' /\ ~Evaluating(f.acid)'
    BY <1>4, <1>7, <2>1, <2>2, TypeFacts DEF ExchangesOK
  <2>5. \A a \in Acid : Evaluating(a)' => WaitsFor(a, rx[a].pdu, 0)'
    <3> SUFFICES ASSUME NEW a \in Acid, Evaluating(a)'
                 PROVE  WaitsFor(a, rx[a].pdu, 0)'
      OBVIOUS
    <3>1. Evaluating(a) /\ ~Ends(a) /\ rx'[a].pdu = rx[a].pdu
      BY <1>1, <1>3, <1>4
    <3>2. WaitsFor(a, rx[a].pdu, 0)
      BY <3>1 DEF ExchangesOK
    <3> QED BY <1>7, <1>10, <3>1, <3>2 DEF WaitsFor
  <2>6. \A a \in Acid : DataUnderway(a)' <=> DataUnderway(a)
    BY <1>7 DEF DataUnderway
  <2>7. \A fb \in (fbSent \cup fbAir)' :
          /\ WaitsFor(fb.acid, fb.pdu, IF fb.ack THEN 1 ELSE 0)'
          /\ ~Evaluating(fb.acid)' /\ ~DataUnderway(fb.acid)'
    <3> SUFFICES ASSUME NEW fb \in (fbSent \cup fbAir)'
                 PROVE  /\ WaitsFor(fb.acid, fb.pdu, IF fb.ack THEN 1 ELSE 0)'
                        /\ ~Evaluating(fb.acid)' /\ ~DataUnderway(fb.acid)'
      OBVIOUS
    <3>1. CASE fb \in fbSent \cup fbAir
      BY <1>4, <2>1, <2>3, <2>6, <3>1, TypeFacts DEF ExchangesOK
    <3>2. CASE fb \notin fbSent \cup fbAir
      <4>1. PICK a \in Acid : /\ Ends(a)
                              /\ fb = [acid |-> a, pdu |-> rx[a].pdu,
                                       ack |-> rx[a].result]
        BY <1>5, <1>7, <3>2
      <4>2. fb.acid = a /\ fb.pdu = rx[a].pdu /\ fb.ack = rx[a].result
        BY <4>1
      <4>3. /\ Status(tx, a) = "WAITING" /\ tx.unit[a].pdu = fb.pdu
            /\ delivered'[fb.pdu] = IF fb.ack THEN 1 ELSE 0
        BY <1>9, <1>11, <4>1, <4>2 DEF WaitsFor
      <4>4. WaitsFor(fb.acid, fb.pdu, IF fb.ack THEN 1 ELSE 0)'
        BY <1>7, <4>2, <4>3 DEF WaitsFor, Status
      <4>5. ~Evaluating(a)' /\ ~DataUnderway(a)'
        BY <1>4, <1>9, <2>6, <4>1
      <4> QED BY <4>2, <4>4, <4>5
    <3> QED BY <3>1, <3>2
  <2>8. \A a \in Acid : Status(tx, a)' = "WAITING" =>
          DataUnderway(a)' \/ Evaluating(a)' \/ FeedbackUnderway(a)'
    <3>1. \A a \in Acid : FeedbackUnderway(a) => FeedbackUnderway(a)'
      BY <1>5, <1>7 DEF FeedbackUnderway
    <3>2. ASSUME NEW a \in Acid, Ends(a) PROVE FeedbackUnderway(a)'
      <4> DEFINE fb == [acid |-> a, pdu |-> rx[a].pdu, ack |-> rx[a].result]
      <4>1. fb \in fbSent' /\ fb.acid = a
        BY <1>5, <3>2
      <4> QED BY <4>1 DEF FeedbackUnderway
    <3> QED BY <1>4, <1>7, <2>6, <3>1, <3>2 DEF ExchangesOK
  <2>9. /\ \A f, g \in (dlSent \cup dlAir)' : f.acid = g.acid => f = g
        /\ (dlSent \cap dlAir)' = {}
    BY <1>7 DEF ExchangesOK
  <2>10. /\ \A f, g \in (fbSent \cup fbAir)' : f.acid = g.acid => f = g
         /\ (fbSent \cap fbAir)' = {}
    BY <1>5, <1>7, <2>3 DEF ExchangesOK
  <2> QED BY <2>4, <2>5, <2>7, <2>8, <2>9, <2>10 DEF ExchangesOK
<1>18. HistoryOK'
  <2>1. \A p \in Pdu : Held(p)' <=> Held(p)
    BY <1>7 DEF Held
  <2>2. \A p \in (backlog \cup dropped)' :
          attempts'[p] = 0 /\ delivered'[p] = 0 /\ p \notin discarded' /\ ~Held(p)'
    BY <1>7, <1>12, <2>1 DEF HistoryOK, TypeOK
  <2>3. \A a \in Acid : Status(tx, a)' # "EMPTY" =>
          /\ attempts'[tx'.unit[a].pdu] = tx'.unit[a].transmissions
          /\ tx'.unit[a].pdu \notin discarded'
          /\ IsReady(tx, a)' => delivered'[tx'.unit[a].pdu] = 0
    BY <1>7, <1>9, <1>10 DEF HistoryOK, IsReady, WaitsFor
  <2>4. SettledOnce'
    BY <1>7, <1>12, <2>1 DEF HistoryOK, SettledOnce
  <2> QED BY <1>7, <2>2, <2>3, <2>4 DEF HistoryOK
<1>19. OneFramePerTti'
  <2>1. \A a \in Acid : Evaluating(a)' =>
          /\ Evaluating(a) /\ rx[a].age \in Nat
          /\ rx'[a].age = rx[a].age + 1 /\ rx'[a].age < FbInterval
    BY <1>3, <1>4, <1>ages
  <2>2. \A a, b \in Acid :
          Evaluating(a)' /\ Evaluating(b)' /\ rx'[a].age = rx'[b].age => a = b
    <3> SUFFICES ASSUME NEW a \in Acid, NEW b \in Acid, Evaluating(a)',
                        Evaluating(b)', rx'[a].age = rx'[b].age
                 PROVE  a = b
      OBVIOUS
    <3>1. Evaluating(a) /\ Evaluating(b) /\ rx[a].age = rx[b].age
      BY <2>1
    <3> QED BY <3>1 DEF OneFramePerTti
  <2>3. \A a \in Acid : Evaluating(a)' => rx'[a].age > 0
    BY <2>1
  <2> QED BY <1>7, <2>1, <2>2, <2>3 DEF OneFramePerTti
<1> QED BY <1>13, <1>14, <1>15, <1>16, <1>17, <1>18, <1>19

\* The frame received was the one exchange of its process, which is now
\* under evaluation.
LEMMA UeReceivesDataInv ==
  ASSUME Inv, NEW f \in dlAir, UeReceivesData(f) PROVE Inv'
<1> USE DEF Inv
<1>1. /\ f \in DataFrame /\ f.acid \in Acid /\ f.pdu \in Pdu
      /\ rx \in [Acid -> RxProcess]
  BY DEF TypeOK, DataFrame
<1>2. PICK ok \in BOOLEAN : rx' = RxInsert(rx, f, ok)
  BY DEF UeReceivesData
<1>3. /\ rx' \in [Acid -> RxProcess]
      /\ \A a \in Acid : a # f.acid => rx'[a] = rx[a]
      /\ rx'[f.acid].status = "EVALUATING" /\ rx'[f.acid].pdu = f.pdu
  BY <1>1, <1>2, FrameInserted
<1>4. /\ WaitsFor(f.acid, f.pdu, 0) /\ ~Evaluating(f.acid)
      /\ DataUnderway(f.acid)
      /\ ~FeedbackUnderway(f.acid)
  BY <1>1, TypeFacts DEF ExchangesOK, DataUnderway, FeedbackUnderway
<1>5. err' = FALSE
  <2>1. rx[f.acid].status = "EMPTY"
    BY <1>1, <1>4 DEF RxOK, ResetCodeword
  <2> QED BY <2>1 DEF UeReceivesData, RxInsertThrows
<1>6. /\ dlAir' = dlAir \ {f} /\ tx' = tx
      /\ UNCHANGED <<backlog, dlSent, fbSent, fbAir, ticked,
                     attempts, delivered, discarded, dropped>>
  BY DEF UeReceivesData, historyVars
<1>7. TypeOK' /\ NoRuntimeError'
  BY <1>3, <1>5, <1>6 DEF TypeOK, NoRuntimeError
<1>8. UnitsOK'
  BY <1>6 DEF UnitsOK, BookkeepingOK
<1>9. \A a \in Acid : Evaluating(a)' <=> Evaluating(a) \/ a = f.acid
  BY <1>1, <1>3 DEF Evaluating
<1>10. RxOK'
  BY <1>3, <1>9 DEF RxOK
<1>11. ExchangesOK'
  <2>1. \A a \in Acid, p \in Pdu, n \in {0, 1} :
          WaitsFor(a, p, n)' <=> WaitsFor(a, p, n)
    BY <1>6 DEF WaitsFor
  <2>2. (dlSent \cup dlAir)' = (dlSent \cup dlAir) \ {f}
    BY <1>6 DEF ExchangesOK
  <2>3. \A g \in (dlSent \cup dlAir)' : g \in dlSent \cup dlAir /\ g.acid # f.acid
    BY <2>2 DEF ExchangesOK
  <2>4. \A a \in Acid : DataUnderway(a)' <=> DataUnderway(a) /\ a # f.acid
    BY <2>2, <2>3 DEF DataUnderway
  <2>5. \A a \in Acid : FeedbackUnderway(a)' <=> FeedbackUnderway(a)
    BY <1>6 DEF FeedbackUnderway
  <2>6. \A g \in (dlSent \cup dlAir)' :
          WaitsFor(g.acid, g.pdu, 0)' /\ ~Evaluating(g.acid)'
    BY <1>9, <2>1, <2>3, TypeFacts DEF ExchangesOK
  <2>7. \A a \in Acid : Evaluating(a)' => WaitsFor(a, rx[a].pdu, 0)'
    <3> SUFFICES ASSUME NEW a \in Acid, Evaluating(a)'
                 PROVE  WaitsFor(a, rx[a].pdu, 0)'
      OBVIOUS
    <3>1. CASE a = f.acid
      BY <1>3, <1>4, <1>6, <3>1 DEF WaitsFor
    <3>2. CASE a # f.acid
      <4>1. WaitsFor(a, rx[a].pdu, 0) /\ rx'[a] = rx[a]
        BY <1>3, <1>9, <3>2 DEF ExchangesOK
      <4> QED BY <1>6, <4>1 DEF WaitsFor
    <3> QED BY <3>1, <3>2
  <2>8. \A fb \in (fbSent \cup fbAir)' :
          /\ WaitsFor(fb.acid, fb.pdu, IF fb.ack THEN 1 ELSE 0)'
          /\ ~Evaluating(fb.acid)' /\ ~DataUnderway(fb.acid)'
    <3>1. \A fb \in fbSent \cup fbAir : fb.acid # f.acid
      BY <1>4 DEF FeedbackUnderway
    <3> QED BY <1>6, <1>9, <2>1, <2>4, <3>1, TypeFacts DEF ExchangesOK
  <2>9. \A a \in Acid : Status(tx, a)' = "WAITING" =>
          DataUnderway(a)' \/ Evaluating(a)' \/ FeedbackUnderway(a)'
    BY <1>6, <1>9, <2>4, <2>5 DEF ExchangesOK
  <2>10. /\ \A g, h \in (dlSent \cup dlAir)' : g.acid = h.acid => g = h
         /\ (dlSent \cap dlAir)' = {}
    BY <1>6, <2>2 DEF ExchangesOK
  <2>11. /\ \A g, h \in (fbSent \cup fbAir)' : g.acid = h.acid => g = h
         /\ (fbSent \cap fbAir)' = {}
    BY <1>6 DEF ExchangesOK
  <2> QED BY <2>6, <2>7, <2>8, <2>9, <2>10, <2>11 DEF ExchangesOK
<1>12. HistoryOK'
  BY <1>6 DEF HistoryOK, SettledOnce, Held
<1>13. OneFramePerTti'
  <2>1. \A a \in Acid : Evaluating(a) => rx[a].age > 0
    BY DEF OneFramePerTti, UeReceivesData, Node
  <2>2. rx'[f.acid].age = 0 /\ 0 < FbInterval
    BY <1>1, <1>2, FbIntervalAssumption DEF RxInsert
  <2>3. dlAir' = {}
    BY <1>6 DEF OneFramePerTti
  <2> QED BY <1>3, <1>6, <1>9, <2>1, <2>2, <2>3 DEF OneFramePerTti
<1> QED BY <1>7, <1>8, <1>10, <1>11, <1>12, <1>13

\* The feedback received ends the exchange of its process: acknowledged, it
\* was delivered; not acknowledged, it was not, and it is sent again or
\* discarded after the last attempt.
LEMMA EnbReceivesFeedbackInv ==
  ASSUME Inv, NEW fb \in fbAir, EnbReceivesFeedback(fb) PROVE Inv'
<1> USE DEF Inv
<1> DEFINE a == fb.acid
           p == fb.pdu
           n == tx.unit[a].transmissions
           resets == FeedbackResets(tx, fb)
<1>1. /\ fb \in Feedback /\ a \in Acid /\ p \in Pdu /\ fb.ack \in BOOLEAN
      /\ tx \in TxBuffer /\ CountersMatchUnits(tx) /\ tx.selectedAcid = HarqNone
      /\ tx.unit \in [Acid -> TxUnit]
  BY TypeFacts DEF TypeOK, UnitsOK, BookkeepingOK
<1>2. /\ WaitsFor(a, p, IF fb.ack THEN 1 ELSE 0)
      /\ ~Evaluating(a) /\ ~DataUnderway(a)
  BY DEF ExchangesOK
<1>3. /\ Status(tx, a) = "WAITING" /\ tx.unit[a].pdu = p
      /\ n \in 1 .. MaxHarqRtx + 1
      /\ delivered[p] = IF fb.ack THEN 1 ELSE 0
      /\ attempts[p] = n /\ p \notin discarded
      /\ p \notin backlog /\ p \notin dropped
  BY <1>1, <1>2 DEF WaitsFor, UnitsOK, HistoryOK, Held
<1>4. /\ ReceiveFeedback(tx, fb).unit =
           [tx.unit EXCEPT ![a] =
              IF resets THEN ResetUnit
              ELSE [status |-> "BUFFERED", pdu |-> p, transmissions |-> n]]
      /\ ReceiveFeedback(tx, fb) \in TxBuffer
      /\ ReceiveFeedback(tx, fb).selectedAcid = HarqNone
      /\ CountersMatchUnits(ReceiveFeedback(tx, fb))
      /\ ~FeedbackThrows(tx, fb)
  BY <1>1, <1>3, FeedbackAccepted
<1>5. /\ tx' = ReceiveFeedback(tx, fb) /\ err' = FALSE
      /\ fbAir' = fbAir \ {fb}
      /\ discarded' = IF FeedbackDiscards(tx, fb)
                      THEN discarded \cup {p} ELSE discarded
      /\ UNCHANGED <<backlog, rx, dlSent, dlAir, fbSent, ticked,
                     attempts, delivered, dropped>>
  BY <1>4 DEF EnbReceivesFeedback
<1>6. /\ resets <=> fb.ack \/ n = MaxHarqRtx + 1
      /\ FeedbackDiscards(tx, fb) <=> ~fb.ack /\ n = MaxHarqRtx + 1
  BY DEF FeedbackResets, FeedbackDiscards, IsLastAttempt
<1> HIDE DEF n, resets
<1>7. /\ \A b \in Acid : b # a => tx'.unit[b] = tx.unit[b]
      /\ resets => tx'.unit[a] = ResetUnit
      /\ ~resets => tx'.unit[a] = [status |-> "BUFFERED", pdu |-> p,
                                   transmissions |-> n]
  BY <1>1, <1>4, <1>5
<1>8. /\ \A b \in Acid : b # a => Status(tx, b)' = Status(tx, b)
      /\ resets => Status(tx, a)' = "EMPTY" /\ tx'.unit[a].pdu = NoPdu
      /\ ~resets => /\ Status(tx, a)' = "BUFFERED" /\ tx'.unit[a].pdu = p
                    /\ tx'.unit[a].transmissions = n
  BY <1>7 DEF Status, ResetUnit
<1>9. TypeOK' /\ NoRuntimeError'
  BY <1>1, <1>4, <1>5 DEF TypeOK, NoRuntimeError
<1>10. UnitsOK'
  <2>1. n \in Nat /\ (~resets => n \in 1 .. MaxHarqRtx)
    BY <1>3, <1>6, MaxHarqRtxAssumption
  <2>2. \A b \in Acid :
          /\ Status(tx, b)' = "EMPTY" <=> tx'.unit[b].pdu = NoPdu
          /\ Status(tx, b)' = "WAITING" =>
               tx'.unit[b].transmissions \in 1 .. MaxHarqRtx + 1
          /\ IsReady(tx, b)' => tx'.unit[b].transmissions \in 1 .. MaxHarqRtx
    <3> SUFFICES ASSUME NEW b \in Acid
                 PROVE  /\ Status(tx, b)' = "EMPTY" <=> tx'.unit[b].pdu = NoPdu
                        /\ Status(tx, b)' = "WAITING" =>
                             tx'.unit[b].transmissions \in 1 .. MaxHarqRtx + 1
                        /\ IsReady(tx, b)' =>
                             tx'.unit[b].transmissions \in 1 .. MaxHarqRtx
      OBVIOUS
    <3>1. CASE b = a
      BY <1>1, <1>8, <2>1, <3>1, NoPduAssumption DEF IsReady
    <3>2. CASE b # a
      BY <1>7, <1>8, <3>2 DEF UnitsOK, IsReady
    <3> QED BY <3>1, <3>2
  <2>3. \A b, c \in Acid :
          tx'.unit[b].pdu = tx'.unit[c].pdu /\ tx'.unit[b].pdu # NoPdu => b = c
    <3>1. \A b \in Acid : tx'.unit[b].pdu \in {tx.unit[b].pdu, NoPdu}
      BY <1>3, <1>7, <1>8
    <3> QED BY <3>1 DEF UnitsOK
  <2> QED BY <1>4, <1>5, <2>2, <2>3 DEF UnitsOK, BookkeepingOK
<1>11. \A b \in Acid : Evaluating(b)' <=> Evaluating(b)
  BY <1>5 DEF Evaluating
<1>12. RxOK'
  BY <1>5, <1>11 DEF RxOK
<1>13. ExchangesOK'
  <2>1. \A b \in Acid, q \in Pdu, k \in {0, 1} :
          b # a /\ WaitsFor(b, q, k) => WaitsFor(b, q, k)'
    BY <1>5, <1>7, <1>8 DEF WaitsFor
  <2>2. \A f \in dlSent \cup dlAir : f.acid # a
    BY <1>2 DEF DataUnderway
  <2>3. (fbSent \cup fbAir)' = (fbSent \cup fbAir) \ {fb}
    BY <1>5 DEF ExchangesOK
  <2>4. \A g \in (fbSent \cup fbAir)' : g \in fbSent \cup fbAir /\ g.acid # a
    BY <2>3 DEF ExchangesOK
  <2>5. \A b \in Acid : DataUnderway(b)' <=> DataUnderway(b)
    BY <1>5 DEF DataUnderway
  <2>6. \A b \in Acid : FeedbackUnderway(b)' <=> FeedbackUnderway(b) /\ b # a
    BY <2>3, <2>4 DEF FeedbackUnderway
  <2>7. \A f \in (dlSent \cup dlAir)' :
          WaitsFor(f.acid, f.pdu, 0)' /\ ~Evaluating(f.acid)'
    BY <1>5, <1>11, <2>1, <2>2, TypeFacts DEF ExchangesOK
  <2>8. \A b \in Acid : Evaluating(b)' => WaitsFor(b, rx[b].pdu, 0)'
    <3> SUFFICES ASSUME NEW b \in Acid, Evaluating(b)'
                 PROVE  WaitsFor(b, rx[b].pdu, 0)'
      OBVIOUS
    <3>1. WaitsFor(b, rx[b].pdu, 0) /\ b # a
      BY <1>2, <1>11 DEF ExchangesOK
    <3> QED BY <1>5, <1>7, <1>8, <3>1 DEF WaitsFor
  <2>9. \A g \in (fbSent \cup fbAir)' :
          /\ WaitsFor(g.acid, g.pdu, IF g.ack THEN 1 ELSE 0)'
          /\ ~Evaluating(g.acid)' /\ ~DataUnderway(g.acid)'
    BY <1>11, <2>1, <2>4, <2>5, TypeFacts DEF ExchangesOK
  <2>10. \A b \in Acid : Status(tx, b)' = "WAITING" =>
           DataUnderway(b)' \/ Evaluating(b)' \/ FeedbackUnderway(b)'
    BY <1>8, <1>11, <2>5, <2>6 DEF ExchangesOK
  <2>11. /\ \A f, g \in (dlSent \cup dlAir)' : f.acid = g.acid => f = g
         /\ (dlSent \cap dlAir)' = {}
    BY <1>5 DEF ExchangesOK
  <2>12. /\ \A g, h \in (fbSent \cup fbAir)' : g.acid = h.acid => g = h
         /\ (fbSent \cap fbAir)' = {}
    BY <1>5, <2>4 DEF ExchangesOK
  <2> QED BY <2>7, <2>8, <2>9, <2>10, <2>11, <2>12 DEF ExchangesOK
<1>14. HistoryOK'
  <2>1. \A q \in Pdu : q # p => (Held(q)' <=> Held(q))
    <3>1. \A q \in Pdu : q # p => tx.unit[a].pdu # q /\ tx'.unit[a].pdu # q
      BY <1>3, <1>8, NoPduAssumption
    <3> QED BY <1>7, <3>1 DEF Held
  <2>2. ~resets => Held(p)'
    BY <1>1, <1>8 DEF Held
  <2>3. \A q \in (backlog \cup dropped)' :
          attempts'[q] = 0 /\ delivered'[q] = 0 /\ q \notin discarded' /\ ~Held(q)'
    BY <1>3, <1>5, <2>1 DEF HistoryOK, TypeOK
  <2>4. \A b \in Acid : Status(tx, b)' # "EMPTY" =>
          /\ attempts'[tx'.unit[b].pdu] = tx'.unit[b].transmissions
          /\ tx'.unit[b].pdu \notin discarded'
          /\ IsReady(tx, b)' => delivered'[tx'.unit[b].pdu] = 0
    <3> SUFFICES ASSUME NEW b \in Acid, Status(tx, b)' # "EMPTY"
                 PROVE  /\ attempts'[tx'.unit[b].pdu] = tx'.unit[b].transmissions
                        /\ tx'.unit[b].pdu \notin discarded'
                        /\ IsReady(tx, b)' => delivered'[tx'.unit[b].pdu] = 0
      OBVIOUS
    <3>1. CASE b = a
      BY <1>3, <1>5, <1>6, <1>8, <3>1
    <3>2. CASE b # a
      <4>1. tx.unit[b].pdu # p /\ tx'.unit[b] = tx.unit[b]
        BY <1>1, <1>3, <1>7, <3>2, NoPduAssumption DEF UnitsOK
      <4> QED BY <1>5, <1>8, <3>2, <4>1 DEF HistoryOK, IsReady
    <3> QED BY <3>1, <3>2
  <2>5. SettledOnce'
    <3> SUFFICES ASSUME NEW q \in Pdu \ (backlog \cup dropped), ~Held(q)'
                 PROVE  \/ delivered[q] = 1 /\ q \notin discarded'
                        \/ /\ delivered[q] = 0 /\ q \in discarded'
                           /\ attempts[q] = MaxHarqRtx + 1
      BY <1>5 DEF SettledOnce
    <3>1. CASE q = p
      BY <1>3, <1>5, <1>6, <2>2, <3>1
    <3>2. CASE q # p
      BY <1>5, <2>1, <3>2 DEF HistoryOK, SettledOnce
    <3> QED BY <3>1, <3>2
  <2> QED BY <1>5, <2>3, <2>4, <2>5 DEF HistoryOK
<1>15. OneFramePerTti'
  BY <1>5, <1>11 DEF OneFramePerTti
<1> QED BY <1>9, <1>10, <1>12, <1>13, <1>14, <1>15

\* The frames sent become the frames that arrive: no exchange is lost or
\* doubled.
LEMMA NextTtiInv == ASSUME Inv, NextTti PROVE Inv'
<1> USE DEF Inv
<1>1. /\ (dlSent \cup dlAir)' = dlSent \cup dlAir
      /\ (fbSent \cup fbAir)' = fbSent \cup fbAir
      /\ (dlSent \cap dlAir)' = {} /\ (fbSent \cap fbAir)' = {}
      /\ UNCHANGED <<backlog, tx, rx, err, attempts, delivered, discarded, dropped>>
  BY DEF NextTti, harqVars, historyVars
<1>2. TypeOK' /\ NoRuntimeError'
  BY <1>1 DEF NextTti, TypeOK, NoRuntimeError
<1>3. UnitsOK' /\ RxOK'
  BY <1>1 DEF UnitsOK, BookkeepingOK, RxOK, Evaluating
<1>4. ExchangesOK'
  BY <1>1 DEF ExchangesOK, WaitsFor, Evaluating, DataUnderway, FeedbackUnderway
<1>5. HistoryOK'
  BY <1>1 DEF HistoryOK, SettledOnce, Held
<1>6. OneFramePerTti'
  BY <1>1 DEF NextTti, OneFramePerTti, Evaluating
<1> QED BY <1>2, <1>3, <1>4, <1>5, <1>6

\* A stuttering step keeps the invariant.
LEMMA StutterInv == ASSUME Inv, UNCHANGED vars PROVE Inv'
<1> USE DEF Inv, vars, harqVars, airVars, historyVars
<1>1. TypeOK' /\ NoRuntimeError'
  BY DEF TypeOK, NoRuntimeError
<1>2. UnitsOK' /\ RxOK'
  BY DEF UnitsOK, BookkeepingOK, RxOK, Evaluating
<1>3. ExchangesOK'
  BY DEF ExchangesOK, WaitsFor, Evaluating, DataUnderway, FeedbackUnderway
<1>4. HistoryOK'
  BY DEF HistoryOK, SettledOnce, Held
<1>5. OneFramePerTti'
  BY DEF OneFramePerTti, Evaluating
<1> QED BY <1>1, <1>2, <1>3, <1>4, <1>5

----------------------------------------------------------------------------
(* The theorems.                                                           *)

\* The strengthening holds in every reachable state.
THEOREM InvInvariant == Spec => []Inv
<1>1. Inv /\ [Next]_vars => Inv'
  <2> SUFFICES ASSUME Inv, [Next]_vars PROVE Inv'
    OBVIOUS
  <2>1. ASSUME NEW a \in Acid, EnbTickRetransmits(a) PROVE Inv'
    BY <2>1, RetransmitsSends, SendsInv
  <2>2. ASSUME NEW p \in Pdu, EnbTickTransmits(p) PROVE Inv'
    BY <2>2, TransmitsSends, SendsInv
  <2>3. ASSUME NEW p \in Pdu, EnbTickDrops(p) PROVE Inv'
    BY <2>3, DropsInv
  <2>4. CASE EnbTickIdle
    BY <2>4, IdleInv
  <2>5. CASE UeTick
    BY <2>5, UeTickInv
  <2>6. ASSUME NEW f \in dlAir, UeReceivesData(f) PROVE Inv'
    BY <2>6, UeReceivesDataInv
  <2>7. ASSUME NEW fb \in fbAir, EnbReceivesFeedback(fb) PROVE Inv'
    BY <2>7, EnbReceivesFeedbackInv
  <2>8. CASE NextTti
    BY <2>8, NextTtiInv
  <2>9. CASE UNCHANGED vars
    BY <2>9, StutterInv
  <2> QED BY <2>1, <2>2, <2>3, <2>4, <2>5, <2>6, <2>7, <2>8, <2>9
          DEF Next, EnbStep
<1> QED BY InitInv, <1>1, PTL DEF Spec

\* Every variable keeps its type: the buffers of both sides, the frames on
\* the air and the history.
THEOREM TypeInvariant == Spec => []TypeOK
<1>1. Inv => TypeOK
  BY DEF Inv
<1> QED BY InvInvariant, <1>1, PTL

\* No cRuntimeError of LteHarqUnitTx, LteHarqProcessTx, LteHarqBufferTx or
\* LteHarqProcessRx is ever thrown, whatever the channel and the scheduler do.
THEOREM NeverThrows == Spec => []NoRuntimeError
<1>1. Inv => NoRuntimeError
  BY DEF Inv
<1> QED BY InvInvariant, <1>1, PTL

\* A unit waits for feedback exactly while its data frame, its evaluation or
\* its feedback is under way, and only one of them is.
THEOREM StopAndWaitInvariant == Spec => []StopAndWait
<1>1. Inv => StopAndWait
  <2> SUFFICES ASSUME Inv, NEW a \in Acid
               PROVE  /\ Status(tx, a) = "WAITING"
                           <=> DataUnderway(a) \/ Evaluating(a) \/ FeedbackUnderway(a)
                      /\ ~(DataUnderway(a) /\ Evaluating(a))
                      /\ ~(DataUnderway(a) /\ FeedbackUnderway(a))
                      /\ ~(Evaluating(a) /\ FeedbackUnderway(a))
    BY DEF StopAndWait
  <2>1. ExchangesOK
    BY DEF Inv
  <2>2. DataUnderway(a) => Status(tx, a) = "WAITING" /\ ~Evaluating(a)
    BY <2>1 DEF ExchangesOK, DataUnderway, WaitsFor
  <2>3. Evaluating(a) => Status(tx, a) = "WAITING"
    BY <2>1 DEF ExchangesOK, WaitsFor
  <2>4. FeedbackUnderway(a) =>
          Status(tx, a) = "WAITING" /\ ~Evaluating(a) /\ ~DataUnderway(a)
    BY <2>1 DEF ExchangesOK, FeedbackUnderway, WaitsFor
  <2> QED BY <2>1, <2>2, <2>3, <2>4 DEF ExchangesOK
<1> QED BY InvInvariant, <1>1, PTL

\* After every tick of the eNodeB no unit is left selected, and the counters of
\* the processes say what their units say.
THEOREM BookkeepingInvariant == Spec => []BookkeepingOK
<1>1. Inv => BookkeepingOK
  BY DEF Inv, UnitsOK
<1> QED BY InvInvariant, <1>1, PTL

\* A PDU that no process holds any more was delivered once, or was discarded
\* undelivered after maxHarqRtx + 1 attempts.
THEOREM SettledOnceInvariant == Spec => []SettledOnce
<1>1. Inv => SettledOnce
  BY DEF Inv, HistoryOK
<1> QED BY InvInvariant, <1>1, PTL

\* macPduUnmake never sees a PDU twice.
THEOREM AtMostOnceInvariant == Spec => []DeliveredAtMostOnce
<1>1. Inv => DeliveredAtMostOnce
  <2> SUFFICES ASSUME Inv, NEW p \in Pdu PROVE delivered[p] <= 1
    BY DEF DeliveredAtMostOnce
  <2>1. delivered[p] \in Nat
    BY DEF Inv, TypeOK
  <2>2. CASE p \in backlog \cup dropped
    BY <2>1, <2>2 DEF Inv, HistoryOK
  <2>3. CASE p \notin backlog \cup dropped /\ ~Held(p)
    BY <2>1, <2>3 DEF Inv, HistoryOK, SettledOnce
  <2>4. CASE Held(p)
    <3>1. PICK a \in Acid : tx.unit[a].pdu = p
      BY <2>4 DEF Held
    <3>2. Status(tx, a) \in {"BUFFERED", "WAITING"}
      <4>1. Status(tx, a) # "EMPTY" /\ Status(tx, a) # "SELECTED"
        BY <3>1, NoPduAssumption
           DEF Inv, UnitsOK, BookkeepingOK, CountersMatchUnits, HarqNone, Acid
      <4> QED BY <4>1, TypeFacts DEF Inv, Status, TxStatus
    <3>3. CASE Status(tx, a) = "BUFFERED"
      BY <3>1, <3>3 DEF Inv, HistoryOK, IsReady
    <3>4. CASE Status(tx, a) = "WAITING"
      <4>1. CASE DataUnderway(a)
        BY <3>1, <4>1 DEF Inv, ExchangesOK, DataUnderway, WaitsFor
      <4>2. CASE Evaluating(a)
        BY <3>1, <4>2 DEF Inv, ExchangesOK, WaitsFor
      <4>3. CASE FeedbackUnderway(a)
        BY <3>1, <4>3 DEF Inv, ExchangesOK, FeedbackUnderway, WaitsFor
      <4> QED BY <3>4, <4>1, <4>2, <4>3 DEF Inv, ExchangesOK
    <3> QED BY <3>2, <3>3, <3>4
  <2> QED BY <2>2, <2>3, <2>4
<1> QED BY InvInvariant, <1>1, PTL

----------------------------------------------------------------------------
(* The downlink implements the MAC PDU service.                            *)

ServiceStep == [Service!Next]_(Service!vars)

\* A PDU that a process holds is in no buffer and was not deleted.
LEMMA HeldFate ==
  ASSUME Inv, NEW a \in Acid, Status(tx, a) = "WAITING"
  PROVE  LET p == tx.unit[a].pdu IN
         /\ p \in Pdu /\ p \notin backlog /\ p \notin discarded \cup dropped
         /\ attempts[p] = tx.unit[a].transmissions
         /\ tx.unit[a].transmissions \in 1 .. MaxHarqRtx + 1
<1>1. tx.unit[a].pdu \in Pdu
  BY TypeFacts DEF Inv, UnitsOK
<1> QED BY <1>1 DEF Inv, HistoryOK, Held, UnitsOK

LEMMA InitImplements == Init => Service!Init
BY DEF Init, Service!Init, fateBar, FateOf

\* Nothing that the users see.
LEMMA NothingSeen ==
  ASSUME UNCHANGED <<backlog, attempts, delivered, discarded, dropped>>
  PROVE  ServiceStep
BY DEF ServiceStep, Service!vars, fateBar, FateOf

\* A step that changes the fate of PDU p only.
LEMMA OneFateChanges ==
  ASSUME NEW p \in Pdu, \A q \in Pdu : q # p => FateOf(q)' = FateOf(q)
  PROVE  fateBar' = [fateBar EXCEPT ![p] = FateOf(p)']
<1>1. fateBar' = [q \in Pdu |-> FateOf(q)']
  BY DEF fateBar
<1> QED BY <1>1 DEF fateBar

\* A frame sent is one more transmission of its PDU.
LEMMA SendsTransmits == ASSUME Inv, SendsFrame PROVE ServiceStep
<1>1. PICK a \in Acid, p \in Pdu, n \in 1 .. MaxHarqRtx + 1, f \in DataFrame :
        Sends(a, p, n, f)
  BY DEF SendsFrame
<1>2. fateBar[p] \in {"queued", "pending"}
  BY <1>1 DEF Sends, fateBar, FateOf
<1>3. attempts[p] <= MaxHarqRtx
  <2>1. attempts[p] \in Nat /\ MaxHarqRtx \in Nat
    BY MaxHarqRtxAssumption DEF Inv, TypeOK
  <2> QED BY <1>1, <2>1 DEF Sends
<1>4. attempts' = [attempts EXCEPT ![p] = @ + 1]
  BY <1>1 DEF Sends
<1>5. fateBar' = [fateBar EXCEPT ![p] = "pending"]
  <2>1. FateOf(p)' = "pending"
    BY <1>1 DEF Sends, FateOf
  <2>2. \A q \in Pdu : q # p => FateOf(q)' = FateOf(q)
    BY <1>1 DEF Sends, FateOf
  <2> QED BY <2>1, <2>2, OneFateChanges
<1>6. Service!Transmit(p)
  BY <1>2, <1>3, <1>4, <1>5 DEF Service!Transmit
<1> QED BY <1>6 DEF ServiceStep, Service!Next

\* A PDU deleted for want of a process is lost.
LEMMA DropsLoses ==
  ASSUME Inv, NEW p \in Pdu, EnbTickDrops(p) PROVE ServiceStep
<1>1. /\ p \in backlog /\ backlog' = backlog \ {p} /\ dropped' = dropped \cup {p}
      /\ UNCHANGED <<attempts, delivered, discarded>> /\ delivered[p] = 0
  BY DEF Inv, HistoryOK, EnbTickDrops, EnbTick
<1>2. fateBar[p] = "queued" /\ fateBar' = [fateBar EXCEPT ![p] = "lost"]
  <2>1. fateBar[p] = "queued" /\ FateOf(p)' = "lost"
    BY <1>1 DEF fateBar, FateOf
  <2>2. \A q \in Pdu : q # p => FateOf(q)' = FateOf(q)
    BY <1>1 DEF FateOf
  <2> QED BY <2>1, <2>2, OneFateChanges
<1>3. Service!Lose(p)
  BY <1>1, <1>2 DEF Service!Lose
<1> QED BY <1>3 DEF ServiceStep, Service!Next

\* At the tick of the UE one evaluation at most ends; if the PDU was decoded it
\* is delivered.
LEMMA UeTickDelivers == ASSUME Inv, UeTick PROVE ServiceStep
<1> DEFINE older == OneTtiLater(rx)
           Ends(a) == IsEvaluated(older[a])
           Delivered == {rx[a].pdu : a \in {b \in Acid : Ends(b) /\ rx[b].result}}
<1>1. ASSUME NEW a \in Acid
      PROVE  /\ older[a] = GrowOlder(rx[a])
             /\ older[a].pdu = rx[a].pdu
             /\ Answer(older[a]).status = "CORRECT" <=> Ends(a) /\ rx[a].result
             /\ Ends(a) => Evaluating(a) /\ rx[a].age + 1 = FbInterval
  <2>1. /\ rx[a] \in RxProcess /\ rx[a].status \in {"EMPTY", "EVALUATING"}
        /\ Evaluating(a) => rx[a].age < FbInterval
        /\ older[a] = GrowOlder(rx[a])
    BY DEF Inv, TypeOK, RxOK, OneFramePerTti, ResetCodeword, Evaluating, OneTtiLater
  <2> HIDE DEF older
  <2>2. older[a].status = rx[a].status /\ older[a].pdu = rx[a].pdu
    BY <2>1, GrowOlderKeepsPdu
  <2>3. /\ Ends(a) => /\ Evaluating(a)
                      /\ Answer(older[a]).status = "CORRECT" <=> rx[a].result
        /\ ~Ends(a) => Answer(older[a]) = older[a]
    BY <2>1, ReceptionTick DEF Evaluating
  <2>4. Ends(a) => rx[a].age + 1 = FbInterval
    <3>1. rx[a].age \in Nat /\ FbInterval \in Nat
      BY <2>1, FbIntervalAssumption DEF RxProcess
    <3>2. Evaluating(a) => older[a].age = rx[a].age + 1
      BY <2>1 DEF Evaluating, GrowOlder, RxProcess
    <3> QED BY <2>1, <2>3, <3>1, <3>2 DEF IsEvaluated
  <2> QED BY <2>1, <2>2, <2>3, <2>4
<1>2. CorrectPdus(older) = Delivered
  BY <1>1 DEF CorrectPdus
<1>3. delivered' = [p \in Pdu |-> IF p \in Delivered THEN delivered[p] + 1
                                  ELSE delivered[p]]
  BY <1>2 DEF UeTick
<1>4. UNCHANGED <<backlog, attempts, discarded, dropped>>
  BY DEF UeTick
<1>5. \A a, b \in Acid : Ends(a) /\ Ends(b) => a = b
  <2> SUFFICES ASSUME NEW a \in Acid, NEW b \in Acid, Ends(a), Ends(b)
               PROVE  a = b
    OBVIOUS
  <2> HIDE DEF Ends
  <2>1. Evaluating(a) /\ Evaluating(b)
    BY <1>1
  <2>2. rx[a].age \in Nat /\ rx[b].age \in Nat
    BY DEF Inv, TypeOK, RxProcess
  <2>3. rx[a].age = rx[b].age
    BY <1>1, <2>2
  <2> QED BY <2>1, <2>3 DEF Inv, OneFramePerTti
<1> HIDE DEF Ends, older
<1>6. CASE \A a \in Acid : ~(Ends(a) /\ rx[a].result)
  <2>1. delivered' = delivered
    BY <1>3, <1>6 DEF Inv, TypeOK
  <2> QED BY <1>4, <2>1, NothingSeen
<1>7. ASSUME NEW a \in Acid, Ends(a), rx[a].result PROVE ServiceStep
  <2>1. WaitsFor(a, rx[a].pdu, 0)
    BY <1>1, <1>7 DEF Inv, ExchangesOK
  <2>p. PICK p \in Pdu : p = rx[a].pdu
    BY <2>1, HeldFate DEF WaitsFor
  <2>2. /\ p \in Pdu /\ delivered[p] = 0
        /\ p \notin backlog /\ p \notin discarded \cup dropped
    BY <2>1, <2>p, HeldFate DEF WaitsFor
  <2>3. Delivered = {p}
    BY <1>5, <1>7, <2>p
  <2> HIDE DEF Delivered
  <2>4. fateBar[p] = "pending"
    BY <2>2 DEF fateBar, FateOf
  <2>5. delivered'[p] = 1 /\ \A q \in Pdu : q # p => delivered'[q] = delivered[q]
    BY <1>3, <2>2, <2>3
  <2>6. fateBar' = [fateBar EXCEPT ![p] = "delivered"]
    <3>1. FateOf(p)' = "delivered"
      BY <1>4, <2>2, <2>5 DEF FateOf
    <3>2. \A q \in Pdu : q # p => FateOf(q)' = FateOf(q)
      BY <1>4, <2>5 DEF FateOf
    <3> QED BY <2>2, <3>1, <3>2, OneFateChanges
  <2>7. Service!Deliver(p)
    BY <1>4, <2>4, <2>6 DEF Service!Deliver
  <2> QED BY <2>2, <2>7 DEF ServiceStep, Service!Next
<1> QED BY <1>6, <1>7

\* Feedback that gives a PDU up finds it undelivered after its last attempt.
LEMMA FeedbackLoses ==
  ASSUME Inv, NEW fb \in fbAir, EnbReceivesFeedback(fb) PROVE ServiceStep
<1> DEFINE a == fb.acid
           p == fb.pdu
<1>1. /\ a \in Acid /\ fb.ack \in BOOLEAN
      /\ WaitsFor(a, fb.pdu, IF fb.ack THEN 1 ELSE 0)
  BY TypeFacts DEF Inv, ExchangesOK
<1>2. /\ p \in Pdu /\ p \notin backlog
      /\ p \notin discarded \cup dropped
      /\ delivered[p] = IF fb.ack THEN 1 ELSE 0
      /\ attempts[p] = tx.unit[a].transmissions
  BY <1>1, HeldFate DEF WaitsFor
<1>3. /\ UNCHANGED <<backlog, attempts, delivered, dropped>>
      /\ discarded' = IF FeedbackDiscards(tx, fb)
                      THEN discarded \cup {p} ELSE discarded
  BY DEF EnbReceivesFeedback
<1>4. FeedbackDiscards(tx, fb) =>
        ~fb.ack /\ tx.unit[a].transmissions = MaxHarqRtx + 1
  BY DEF FeedbackDiscards, IsLastAttempt
<1>c. p' = p
  OBVIOUS
<1> HIDE DEF p, a
<1>5. CASE ~FeedbackDiscards(tx, fb)
  BY <1>3, <1>5, NothingSeen
<1>6. CASE FeedbackDiscards(tx, fb)
  <2>1. delivered[p] = 0 /\ attempts[p] = MaxHarqRtx + 1
    BY <1>2, <1>4, <1>6
  <2>2. fateBar[p] = "pending" /\ fateBar' = [fateBar EXCEPT ![p] = "lost"]
    <3>1. fateBar[p] = "pending" /\ FateOf(p)' = "lost"
      BY <1>2, <1>3, <1>6, <1>c, <2>1 DEF fateBar, FateOf
    <3>2. \A q \in Pdu : q # p => FateOf(q)' = FateOf(q)
      BY <1>3, <1>6 DEF FateOf
    <3> QED BY <1>2, <3>1, <3>2, OneFateChanges
  <2>3. Service!Lose(p)
    BY <1>3, <2>1, <2>2 DEF Service!Lose
  <2> QED BY <1>2, <2>3 DEF ServiceStep, Service!Next
<1> QED BY <1>5, <1>6

\* Every step is a transmission, a delivery or a loss of one PDU, or nothing
\* that the users of H-ARQ see.
LEMMA StepImplements == ASSUME Inv, [Next]_vars PROVE ServiceStep
<1>1. ASSUME NEW a \in Acid, EnbTickRetransmits(a) PROVE ServiceStep
  BY <1>1, RetransmitsSends, SendsTransmits
<1>2. ASSUME NEW p \in Pdu, EnbTickTransmits(p) PROVE ServiceStep
  BY <1>2, TransmitsSends, SendsTransmits
<1>3. ASSUME NEW p \in Pdu, EnbTickDrops(p) PROVE ServiceStep
  BY <1>3, DropsLoses
<1>4. CASE EnbTickIdle
  BY <1>4, NothingSeen DEF EnbTickIdle, EnbTick
<1>5. CASE UeTick
  BY <1>5, UeTickDelivers
<1>6. ASSUME NEW f \in dlAir, UeReceivesData(f) PROVE ServiceStep
  BY <1>6, NothingSeen DEF UeReceivesData, historyVars
<1>7. ASSUME NEW fb \in fbAir, EnbReceivesFeedback(fb) PROVE ServiceStep
  BY <1>7, FeedbackLoses
<1>8. CASE NextTti
  BY <1>8, NothingSeen DEF NextTti, historyVars
<1>9. CASE UNCHANGED vars
  BY <1>9, NothingSeen DEF vars, historyVars
<1> QED BY <1>1, <1>2, <1>3, <1>4, <1>5, <1>6, <1>7, <1>8, <1>9 DEF Next, EnbStep

\* The processes on both sides, with their frames, evaluations and feedback,
\* implement the MAC PDU service.
THEOREM Implementation == Spec => ImplementsService
<1>1. Inv /\ [Next]_vars => [Service!Next]_(Service!vars)
  BY StepImplements DEF ServiceStep
<1> QED BY InitImplements, InvInvariant, <1>1, PTL
        DEF Spec, ImplementsService, Service!Spec
============================================================================
