----------------------------- MODULE LteHarqRx -----------------------------
(***************************************************************************)
(* The receiving side of H-ARQ: LteHarqProcessRx and LteHarqBufferRx       *)
(* (simulte/src/stack/mac/buffer/harq), as operators on one receive        *)
(* buffer, a function from process numbers to                              *)
(*   status         status_                                                *)
(*   pdu            pdu_                                                   *)
(*   result         result_, the decision of the channel model             *)
(*   age            TTIs since rxTime_, counted up to FbInterval           *)
(*   transmissions  transmissions_                                         *)
(* As in LteHarqTx, only codeword 0 is kept.                               *)
(***************************************************************************)
EXTENDS LteHarqTx

CONSTANT FbInterval       \* HARQ_FB_EVALUATION_INTERVAL, in TTIs

ASSUME FbIntervalAssumption == FbInterval \in Nat \ {0}

RxStatus == {"EMPTY", "EVALUATING", "CORRECT", "CORRUPTED"}

RxProcess == [status : RxStatus, pdu : Pdu \cup {NoPdu}, result : BOOLEAN,
              age : 0 .. FbInterval, transmissions : Nat]

ResetCodeword == [status |-> "EMPTY", pdu |-> NoPdu, result |-> FALSE,
                  age |-> 0, transmissions |-> 0]

InitRxBuffer == [a \in Acid |-> ResetCodeword]

----------------------------------------------------------------------------
(* Arrival of a data frame f that the channel model decoded (ok) or not.   *)

RxInsertThrows(rx, f) ==
  IF f.ndi THEN rx[f.acid].status # "EMPTY"
           ELSE rx[f.acid].status \notin {"EMPTY", "CORRUPTED"}

RxInsert(rx, f, ok) ==
  [rx EXCEPT ![f.acid] = [status |-> "EVALUATING", pdu |-> f.pdu, result |-> ok,
                          age |-> 0, transmissions |-> @.transmissions + 1]]

----------------------------------------------------------------------------
(* The tick: time passes, PDUs old enough are answered, correct ones are   *)
(* extracted, corrupted ones may be purged.                                *)

GrowOlder(proc) ==
  IF proc.status = "EVALUATING" /\ proc.age < FbInterval
  THEN [proc EXCEPT !.age = @ + 1] ELSE proc

IsEvaluated(proc) == proc.status = "EVALUATING" /\ proc.age >= FbInterval

\* Mutant of CreateFeedback: after a NACK the PDU is still under evaluation.
CreateFeedbackAgain(proc) ==
  IF proc.result THEN [proc EXCEPT !.status = "CORRECT"]
  ELSE IF proc.transmissions = MaxHarqRtx + 1 THEN ResetCodeword ELSE proc

\* Mutant of CreateFeedback: the codeword is not reset after the last attempt.
CreateFeedbackKeeping(proc) ==
  [proc EXCEPT !.status = IF proc.result THEN "CORRECT" ELSE "CORRUPTED"]

\* createFeedback: after an ACK the PDU is CORRECT; after a NACK it stays
\* CORRUPTED, except that the codeword is reset when the transmitter is out
\* of attempts.
CreateFeedback(proc) ==
  IF proc.result THEN [proc EXCEPT !.status = "CORRECT"]
  ELSE IF proc.transmissions = MaxHarqRtx + 1
       THEN ResetCodeword
       ELSE [proc EXCEPT !.status = "CORRUPTED"]

Answer(proc) == IF IsEvaluated(proc) THEN CreateFeedback(proc) ELSE proc

Extract(proc) == IF proc.status = "CORRECT" THEN ResetCodeword ELSE proc

Purge(proc) == IF proc.status = "CORRUPTED" THEN ResetCodeword ELSE proc

OneTtiLater(rx) == [a \in Acid |-> GrowOlder(rx[a])]

\* Mutant of FeedbackSent: it is sent after the extraction of the PDUs.
FeedbackSentLate(rx) ==
  {[acid |-> a, pdu |-> Extract(Answer(rx[a])).pdu, ack |-> rx[a].result]
     : a \in {b \in Acid : IsEvaluated(rx[b])}}

\* The feedback frames LteHarqBufferRx::sendFeedback sends.
FeedbackSent(rx) ==
  {[acid |-> a, pdu |-> rx[a].pdu, ack |-> rx[a].result]
     : a \in {b \in Acid : IsEvaluated(rx[b])}}

\* The PDUs LteHarqBufferRx::extractCorrectPdus returns.
CorrectPdus(rx) ==
  {rx[a].pdu : a \in {b \in Acid : Answer(rx[b]).status = "CORRECT"}}

\* Mutant of ExtractCorrectPdus: corrupted PDUs go with the correct ones.
ExtractAndPurge(rx) == [a \in Acid |-> Purge(Extract(Answer(rx[a])))]

ExtractCorrectPdus(rx) == [a \in Acid |-> Extract(Answer(rx[a]))]

PurgeCorruptedPdus(rx) == [a \in Acid |-> Purge(rx[a])]
============================================================================
