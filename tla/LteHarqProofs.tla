--------------------------- MODULE LteHarqProofs ---------------------------
(* What the operations of the H-ARQ buffers do to a buffer whose counters  *)
(* agree with its units: the lemmas the proofs of the compositions cite.   *)
EXTENDS LteHarqRx, TLAPS

\* What the transmission of the unit selected in process a leaves of a buffer:
\* the unit waits for feedback on its n-th transmission, the counters agree
\* with the units again, and one frame for the PDU has gone down.
SentFrom(before, selected, a, p, n, new) ==
  LET sent == SendSelectedDown(selected) IN
  /\ sent.unit = [before.unit EXCEPT ![a] = [status |-> "WAITING", pdu |-> p,
                                             transmissions |-> n]]
  /\ sent \in TxBuffer
  /\ sent.selectedAcid = HarqNone
  /\ CountersMatchUnits(sent)
  /\ FramesDown(selected) = {[acid |-> a, pdu |-> p, ndi |-> new]}

\* A PDU put into an empty process and sent: the process waits for feedback
\* on its first transmission, one frame goes out, and nothing is thrown
\* (insertPdu, markSelected and sendSelectedDown of LteHarqBufferTx).
LEMMA InsertAndSend ==
  ASSUME NEW buf \in TxBuffer, NEW a \in Acid, NEW p \in Pdu,
         CountersMatchUnits(buf), buf.selectedAcid = HarqNone,
         Status(buf, a) = "EMPTY"
  PROVE  /\ SentFrom(buf, InsertPdu(buf, a, p), a, p, 1, TRUE)
         /\ ~InsertThrows(buf, a)
         /\ ~ExtractThrows(InsertPdu(buf, a, p))
<1> DEFINE ins == InsertPdu(buf, a, p)
           sent == SendSelectedDown(ins)
<1>1. /\ buf.unit \in [Acid -> TxUnit]
      /\ buf.numEmptyUnits \in [Acid -> Int]
      /\ buf.numSelected \in [Acid -> Int]
  BY DEF TxBuffer
<1>2. /\ ins.unit = [buf.unit EXCEPT ![a] = [status |-> "SELECTED", pdu |-> p,
                                             transmissions |-> 0]]
      /\ ins.numEmptyUnits = [buf.numEmptyUnits EXCEPT ![a] = @ - 1]
      /\ ins.numSelected = [buf.numSelected EXCEPT ![a] = @ + 1]
      /\ ins.selectedAcid = a
  BY DEF InsertPdu
<1>3. \A b \in Acid : IsExtracted(ins, b) <=> b = a
  BY <1>1, <1>2 DEF IsExtracted, Status
<1>4. buf.numSelected[a] = 0 /\ buf.numEmptyUnits[a] = MaxCodewords
  BY DEF CountersMatchUnits
<1>5. sent.unit = [buf.unit EXCEPT ![a] = [status |-> "WAITING", pdu |-> p,
                                           transmissions |-> 1]]
  BY <1>1, <1>2, <1>3 DEF SendSelectedDown
<1>6. sent.numSelected = buf.numSelected
  BY <1>1, <1>2, <1>3, <1>4 DEF SendSelectedDown
<1>7. /\ sent.numEmptyUnits = [buf.numEmptyUnits EXCEPT ![a] = @ - 1]
      /\ sent.selectedAcid = HarqNone
  BY <1>2 DEF SendSelectedDown
<1>8. sent \in TxBuffer
  <2>1. [status |-> "WAITING", pdu |-> p, transmissions |-> 1] \in TxUnit
    BY DEF TxUnit, TxStatus
  <2>2. sent.unit \in [Acid -> TxUnit] /\ sent.numEmptyUnits \in [Acid -> Int]
    BY <1>1, <1>5, <1>7, <2>1
  <2>3. sent = [unit |-> sent.unit, numEmptyUnits |-> sent.numEmptyUnits,
                numSelected |-> sent.numSelected,
                selectedAcid |-> sent.selectedAcid]
    BY DEF SendSelectedDown
  <2> HIDE DEF sent
  <2> QED BY <1>1, <1>6, <1>7, <2>2, <2>3 DEF TxBuffer
<1>9. CountersMatchUnits(sent)
  <2> HIDE DEF sent
  <2> QED BY <1>1, <1>4, <1>5, <1>6, <1>7
          DEF CountersMatchUnits, Status, MaxCodewords
<1>10. FramesDown(ins) = {[acid |-> a, pdu |-> p, ndi |-> TRUE]}
  <2> HIDE DEF ins
  <2>1. {b \in Acid : IsExtracted(ins, b)} = {a}
    BY <1>3
  <2>2. ins.unit[a].pdu = p /\ ins.unit[a].transmissions = 0
    BY <1>1, <1>2
  <2> QED BY <2>1, <2>2 DEF FramesDown
<1>11. ~InsertThrows(buf, a)
  BY <1>4 DEF InsertThrows, IsEmptyProcess
<1>12. ~ExtractThrows(ins)
  <2> HIDE DEF ins
  <2> QED BY <1>1, <1>2, <1>3, <1>4 DEF ExtractThrows
<1>13. SentFrom(buf, ins, a, p, 1, TRUE)
  <2> HIDE DEF ins
  <2> QED BY <1>5, <1>7, <1>8, <1>9, <1>10 DEF SentFrom
<1> QED BY <1>11, <1>12, <1>13

\* A PDU marked for retransmission and sent: its process waits for feedback
\* on one transmission more, one frame goes out, which is not new data, and
\* nothing is thrown.
LEMMA MarkAndSend ==
  ASSUME NEW buf \in TxBuffer, NEW a \in Acid,
         CountersMatchUnits(buf), buf.selectedAcid = HarqNone,
         IsReady(buf, a), buf.unit[a].transmissions # 0
  PROVE  /\ SentFrom(buf, MarkSelected(buf, a), a, buf.unit[a].pdu,
                     buf.unit[a].transmissions + 1, FALSE)
         /\ ~MarkThrows(buf, a)
         /\ ~ExtractThrows(MarkSelected(buf, a))
<1> DEFINE marked == MarkSelected(buf, a)
           sent == SendSelectedDown(marked)
<1>1. /\ buf.unit \in [Acid -> TxUnit]
      /\ buf.numEmptyUnits \in [Acid -> Int]
      /\ buf.numSelected \in [Acid -> Int]
  BY DEF TxBuffer
<1>2. /\ marked.unit = [buf.unit EXCEPT ![a] = [@ EXCEPT !.status = "SELECTED"]]
      /\ marked.numEmptyUnits = buf.numEmptyUnits
      /\ marked.numSelected = [buf.numSelected EXCEPT ![a] = @ + 1]
      /\ marked.selectedAcid = a
  BY DEF MarkSelected
<1>3. /\ marked.unit[a].status = "SELECTED"
      /\ marked.unit[a].pdu = buf.unit[a].pdu
      /\ marked.unit[a].transmissions = buf.unit[a].transmissions
  BY <1>1, <1>2 DEF TxUnit
<1>4. \A b \in Acid : IsExtracted(marked, b) <=> b = a
  BY <1>2, <1>3 DEF IsExtracted, Status
<1>5. buf.numSelected[a] = 0
  BY DEF CountersMatchUnits, IsReady
<1>6. sent.unit = [buf.unit EXCEPT ![a] =
                     [status |-> "WAITING", pdu |-> buf.unit[a].pdu,
                      transmissions |-> buf.unit[a].transmissions + 1]]
  <2> HIDE DEF marked
  <2> QED BY <1>1, <1>2, <1>3, <1>4 DEF SendSelectedDown
<1>7. sent.numSelected = buf.numSelected
  <2> HIDE DEF marked
  <2> QED BY <1>1, <1>2, <1>4, <1>5 DEF SendSelectedDown
<1>8. sent.numEmptyUnits = buf.numEmptyUnits /\ sent.selectedAcid = HarqNone
  BY <1>2 DEF SendSelectedDown
<1>9. sent \in TxBuffer
  <2>1. [status |-> "WAITING", pdu |-> buf.unit[a].pdu,
         transmissions |-> buf.unit[a].transmissions + 1] \in TxUnit
    BY <1>1 DEF TxUnit, TxStatus
  <2>2. sent.unit \in [Acid -> TxUnit]
    BY <1>1, <1>6, <2>1
  <2>3. sent = [unit |-> sent.unit, numEmptyUnits |-> sent.numEmptyUnits,
                numSelected |-> sent.numSelected,
                selectedAcid |-> sent.selectedAcid]
    BY DEF SendSelectedDown
  <2> HIDE DEF sent
  <2> QED BY <1>1, <1>7, <1>8, <2>2, <2>3 DEF TxBuffer
<1>10. CountersMatchUnits(sent)
  <2> HIDE DEF sent
  <2> QED BY <1>1, <1>6, <1>7, <1>8
          DEF CountersMatchUnits, Status, IsReady, MaxCodewords
<1>11. FramesDown(marked) =
         {[acid |-> a, pdu |-> buf.unit[a].pdu, ndi |-> FALSE]}
  <2> HIDE DEF marked
  <2>1. {b \in Acid : IsExtracted(marked, b)} = {a}
    BY <1>4
  <2>2. (marked.unit[a].transmissions = 0) = FALSE
    BY <1>3
  <2> QED BY <1>3, <2>1, <2>2 DEF FramesDown
<1>12. ~MarkThrows(buf, a)
  BY <1>5 DEF MarkThrows, MaxCodewords
<1>13. ~ExtractThrows(marked)
  <2> HIDE DEF marked
  <2> QED BY <1>1, <1>2, <1>4, <1>5 DEF ExtractThrows
<1>14. SentFrom(buf, marked, a, buf.unit[a].pdu,
                buf.unit[a].transmissions + 1, FALSE)
  <2> HIDE DEF marked
  <2> QED BY <1>6, <1>8, <1>9, <1>10, <1>11 DEF SentFrom
<1> QED BY <1>12, <1>13, <1>14

\* Feedback for the PDU a process waits for frees the process, on an ACK or
\* after the last attempt, and otherwise makes it ready for retransmission.
LEMMA FeedbackAccepted ==
  ASSUME NEW buf \in TxBuffer, NEW fb \in Feedback,
         CountersMatchUnits(buf),
         Status(buf, fb.acid) = "WAITING", buf.unit[fb.acid].pdu = fb.pdu
  PROVE  LET new == ReceiveFeedback(buf, fb) IN
         /\ new.unit = [buf.unit EXCEPT ![fb.acid] =
                          IF FeedbackResets(buf, fb) THEN ResetUnit
                          ELSE [status |-> "BUFFERED", pdu |-> fb.pdu,
                                transmissions |-> buf.unit[fb.acid].transmissions]]
         /\ new \in TxBuffer
         /\ new.selectedAcid = buf.selectedAcid
         /\ CountersMatchUnits(new)
         /\ ~FeedbackThrows(buf, fb)
<1> DEFINE a == fb.acid
           new == ReceiveFeedback(buf, fb)
           buffered == [status |-> "BUFFERED", pdu |-> fb.pdu,
                        transmissions |-> buf.unit[a].transmissions]
<1>1. /\ buf.unit \in [Acid -> TxUnit]
      /\ buf.numEmptyUnits \in [Acid -> Int]
      /\ buf.numSelected \in [Acid -> Int]
      /\ buf.selectedAcid \in Acid \cup {HarqNone}
      /\ a \in Acid
  BY DEF TxBuffer, Feedback
<1>2. [buf.unit[a] EXCEPT !.status = "BUFFERED"] = buffered
  BY <1>1 DEF TxUnit
<1>3. /\ new.unit = [buf.unit EXCEPT ![a] =
                       IF FeedbackResets(buf, fb) THEN ResetUnit ELSE buffered]
      /\ new.numEmptyUnits = [buf.numEmptyUnits EXCEPT ![a] =
                                IF FeedbackResets(buf, fb) THEN @ + 1 ELSE @]
      /\ new.numSelected = buf.numSelected
      /\ new.selectedAcid = buf.selectedAcid
  BY <1>2 DEF ReceiveFeedback
<1>4. new \in TxBuffer
  <2>1. ResetUnit \in TxUnit /\ buffered \in TxUnit
    BY <1>1 DEF TxUnit, TxStatus, ResetUnit, Feedback
  <2>2. new.unit \in [Acid -> TxUnit]
    BY <1>1, <1>3, <2>1
  <2>3. new.numEmptyUnits \in [Acid -> Int]
    BY <1>1, <1>3
  <2>4. new = [unit |-> new.unit, numEmptyUnits |-> new.numEmptyUnits,
               numSelected |-> new.numSelected,
               selectedAcid |-> new.selectedAcid]
    BY DEF ReceiveFeedback
  <2> HIDE DEF new
  <2> QED BY <1>1, <1>3, <2>2, <2>3, <2>4 DEF TxBuffer
<1>5. CountersMatchUnits(new)
  <2> HIDE DEF new
  <2> QED BY <1>1, <1>3 DEF CountersMatchUnits, Status, ResetUnit, MaxCodewords
<1>6. ~FeedbackThrows(buf, fb)
  BY DEF FeedbackThrows
<1> HIDE DEF new
<1> QED BY <1>3, <1>4, <1>5, <1>6 DEF new

\* One process a TTI later: older or not, it holds the same PDU.
LEMMA GrowOlderKeepsPdu ==
  ASSUME NEW proc \in RxProcess
  PROVE  /\ GrowOlder(proc) \in RxProcess
         /\ GrowOlder(proc).status = proc.status
         /\ GrowOlder(proc).pdu = proc.pdu
         /\ GrowOlder(proc).result = proc.result
<1>1. CASE proc.status = "EVALUATING" /\ proc.age < FbInterval
  <2>1. GrowOlder(proc) = [proc EXCEPT !.age = proc.age + 1]
    BY <1>1 DEF GrowOlder
  <2>2. proc.age + 1 \in 0 .. FbInterval
    BY <1>1, FbIntervalAssumption DEF RxProcess
  <2> QED BY <2>1, <2>2 DEF RxProcess
<1>2. CASE ~(proc.status = "EVALUATING" /\ proc.age < FbInterval)
  BY <1>2 DEF GrowOlder
<1> QED BY <1>1, <1>2

\* A codeword that was reset is a receive process like any other.
LEMMA ResetCodewordType == ResetCodeword \in RxProcess
  BY FbIntervalAssumption DEF ResetCodeword, RxProcess, RxStatus

\* The tick of a receiver that purges corrupted PDUs, as the UE does: a PDU
\* whose evaluation ends leaves its process, whatever the result, and any
\* other stays.
LEMMA ReceptionTick ==
  ASSUME NEW proc \in RxProcess
  PROVE  LET older == GrowOlder(proc)
             kept == Purge(Extract(Answer(older))) IN
         /\ IsEvaluated(older) =>
              /\ proc.status = "EVALUATING"
              /\ kept = ResetCodeword
              /\ Answer(older).status = "CORRECT" <=> proc.result
         /\ ~IsEvaluated(older) /\ proc.status \in {"EMPTY", "EVALUATING"} =>
              kept = older
         /\ ~IsEvaluated(older) => Answer(older) = older
<1> DEFINE older == GrowOlder(proc)
           kept == Purge(Extract(Answer(older)))
<1>1. /\ older \in RxProcess /\ older.status = proc.status
      /\ older.result = proc.result
  BY GrowOlderKeepsPdu
<1> HIDE DEF older
<1>2. ASSUME IsEvaluated(older), proc.result
      PROVE  Answer(older).status = "CORRECT" /\ kept = ResetCodeword
  <2>1. Answer(older) = [older EXCEPT !.status = "CORRECT"]
    BY <1>1, <1>2 DEF Answer, CreateFeedback
  <2>2. Answer(older).status = "CORRECT"
    BY <1>1, <2>1 DEF RxProcess
  <2>3. Extract(Answer(older)) = ResetCodeword
    BY <2>2 DEF Extract
  <2> QED BY <2>2, <2>3 DEF Purge
<1>3. ASSUME IsEvaluated(older), ~proc.result
      PROVE  Answer(older).status # "CORRECT" /\ kept = ResetCodeword
  <2>1. CASE older.transmissions = MaxHarqRtx + 1
    <3>1. Answer(older) = ResetCodeword
      BY <1>1, <1>3, <2>1 DEF Answer, CreateFeedback
    <3>2. Extract(Answer(older)) = ResetCodeword
      BY <3>1 DEF Extract
    <3> QED BY <3>1, <3>2 DEF Purge, ResetCodeword
  <2>2. CASE older.transmissions # MaxHarqRtx + 1
    <3>1. Answer(older) = [older EXCEPT !.status = "CORRUPTED"]
      BY <1>1, <1>3, <2>2 DEF Answer, CreateFeedback
    <3>2. Answer(older).status = "CORRUPTED"
      BY <1>1, <3>1 DEF RxProcess
    <3>3. Extract(Answer(older)).status = "CORRUPTED"
      BY <3>2 DEF Extract
    <3> QED BY <3>2, <3>3 DEF Purge
  <2> QED BY <2>1, <2>2
<1>4. ASSUME ~IsEvaluated(older) PROVE Answer(older) = older
  BY <1>4 DEF Answer
<1>5. ASSUME ~IsEvaluated(older), proc.status \in {"EMPTY", "EVALUATING"}
      PROVE  kept = older
  <2>1. Extract(older) = older
    BY <1>1, <1>5 DEF Extract
  <2> QED BY <1>1, <1>4, <1>5, <2>1 DEF Purge
<1>6. IsEvaluated(older) => proc.status = "EVALUATING"
  BY <1>1 DEF IsEvaluated
<1> HIDE DEF kept
<1> QED BY <1>1, <1>2, <1>3, <1>4, <1>5, <1>6 DEF older, kept

\* A frame that arrives is put under evaluation in its process, and nowhere
\* else, whether or not it was decoded.
LEMMA FrameInserted ==
  ASSUME NEW buf \in [Acid -> RxProcess], NEW f \in DataFrame, NEW ok \in BOOLEAN
  PROVE  /\ RxInsert(buf, f, ok) \in [Acid -> RxProcess]
         /\ \A a \in Acid : a # f.acid => RxInsert(buf, f, ok)[a] = buf[a]
         /\ RxInsert(buf, f, ok)[f.acid].status = "EVALUATING"
         /\ RxInsert(buf, f, ok)[f.acid].pdu = f.pdu
<1>1. f.acid \in Acid /\ f.pdu \in Pdu
  BY DEF DataFrame
<1>2. [status |-> "EVALUATING", pdu |-> f.pdu, result |-> ok, age |-> 0,
       transmissions |-> buf[f.acid].transmissions + 1] \in RxProcess
  BY <1>1, FbIntervalAssumption DEF RxProcess, RxStatus
<1> QED BY <1>1, <1>2 DEF RxInsert
============================================================================
