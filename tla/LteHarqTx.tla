----------------------------- MODULE LteHarqTx -----------------------------
(***************************************************************************)
(* The transmitting side of H-ARQ: LteHarqUnitTx, LteHarqProcessTx and     *)
(* LteHarqBufferTx (simulte/src/stack/mac/buffer/harq), as operators on    *)
(* the state of one transmit buffer.  The eNodeB keeps one such buffer per *)
(* UE (downlink), the UE one for its eNodeB (uplink).                      *)
(*                                                                         *)
(* A buffer is a record                                                    *)
(*   unit[a]           the unit of codeword 0 of process a                 *)
(*   numEmptyUnits[a]  LteHarqProcessTx::numEmptyUnits_                    *)
(*   numSelected[a]    LteHarqProcessTx::numSelected_                      *)
(*   selectedAcid      LteHarqBufferTx::selectedAcid_                      *)
(* A process has MaxCodewords units; with the transmission modes that the  *)
(* AMC pilot hands out only the unit of codeword 0 is ever filled, so the  *)
(* other units are not kept: they are always empty.                        *)
(***************************************************************************)
EXTENDS Integers

CONSTANTS Pdu,            \* MAC PDUs
          NoPdu,          \* the null pdu pointer, whose id is -1
          NumProc,        \* number of H-ARQ processes
          MaxHarqRtx      \* the maxHarqRtx parameter of LteMac

ASSUME NumProcAssumption == NumProc \in Nat \ {0}
ASSUME MaxHarqRtxAssumption == MaxHarqRtx \in Nat
ASSUME NoPduAssumption == NoPdu \notin Pdu

Acid == 0 .. NumProc - 1

\* The unknown acid; the code uses 255, outside the range of process numbers.
HarqNone == -1

\* MAX_CODEWORDS, the number of units of a process.
MaxCodewords == 2

TxStatus == {"BUFFERED", "WAITING", "EMPTY", "SELECTED"}

TxUnit == [status : TxStatus, pdu : Pdu \cup {NoPdu}, transmissions : Nat]

\* LteHarqUnitTx::resetUnit.
ResetUnit == [status |-> "EMPTY", pdu |-> NoPdu, transmissions |-> 0]

TxBuffer == [unit          : [Acid -> TxUnit],
             numEmptyUnits : [Acid -> Int],
             numSelected   : [Acid -> Int],
             selectedAcid  : Acid \cup {HarqNone}]

InitTxBuffer == [unit          |-> [a \in Acid |-> ResetUnit],
                 numEmptyUnits |-> [a \in Acid |-> MaxCodewords],
                 numSelected   |-> [a \in Acid |-> 0],
                 selectedAcid  |-> HarqNone]

----------------------------------------------------------------------------
(* What the schedulers read.                                               *)

Status(tx, a) == tx.unit[a].status

IsReady(tx, a) == Status(tx, a) = "BUFFERED"

IsEmptyProcess(tx, a) == tx.numEmptyUnits[a] = MaxCodewords

\* The codewords of process a whose unit is empty: every codeword but the
\* first is never filled.
EmptyUnitsIds(tx, a) ==
  {cw \in 0 .. MaxCodewords - 1 : cw = 0 => Status(tx, a) = "EMPTY"}

\* The process LteHarqBufferTx::firstAvailable reports: the selected one if
\* there is one, otherwise the empty process with the lowest number.
IsFirstAvailable(tx, a) ==
  IF tx.selectedAcid # HarqNone
  THEN a = tx.selectedAcid
  ELSE IF \E b \in Acid : IsEmptyProcess(tx, b)
       THEN /\ a \in Acid
            /\ IsEmptyProcess(tx, a)
            /\ \A b \in Acid : IsEmptyProcess(tx, b) => a <= b
       ELSE a = HarqNone

----------------------------------------------------------------------------
(* What changes a buffer.  For each operation, the condition under which   *)
(* the code throws a cRuntimeError, then its effect.                       *)

InsertThrows(tx, a) ==
  \/ tx.selectedAcid = HarqNone /\ ~IsEmptyProcess(tx, a)
  \/ Status(tx, a) # "EMPTY"

InsertPdu(tx, a, p) ==
  [unit |-> [tx.unit EXCEPT ![a] = [status |-> "SELECTED", pdu |-> p,
                                    transmissions |-> 0]],
   numEmptyUnits |-> [tx.numEmptyUnits EXCEPT ![a] = @ - 1],
   numSelected |-> [tx.numSelected EXCEPT ![a] = @ + 1],
   selectedAcid |-> a]

MarkThrows(tx, a) ==
  \/ tx.numSelected[a] = MaxCodewords
  \/ ~IsReady(tx, a)

MarkSelected(tx, a) ==
  [unit |-> [tx.unit EXCEPT ![a] = [@ EXCEPT !.status = "SELECTED"]],
   numEmptyUnits |-> tx.numEmptyUnits,
   numSelected |-> [tx.numSelected EXCEPT ![a] = @ + 1],
   selectedAcid |-> a]

\* Of the selected process, sendSelectedDown extracts the units marked
\* SELECTED: extractPdu counts the transmission and waits for feedback.
IsExtracted(tx, a) == a = tx.selectedAcid /\ Status(tx, a) = "SELECTED"

ExtractThrows(tx) ==
  \E a \in Acid : IsExtracted(tx, a) /\ tx.numSelected[a] = 0

SendSelectedDown(tx) ==
  [unit |-> [a \in Acid |->
               IF IsExtracted(tx, a)
               THEN [status |-> "WAITING", pdu |-> tx.unit[a].pdu,
                     transmissions |-> tx.unit[a].transmissions + 1]
               ELSE tx.unit[a]],
   numEmptyUnits |-> tx.numEmptyUnits,
   numSelected |-> [a \in Acid |-> IF IsExtracted(tx, a)
                                   THEN tx.numSelected[a] - 1
                                   ELSE tx.numSelected[a]],
   selectedAcid |-> HarqNone]

\* The data frames sendSelectedDown hands to the PHY.  The new data indicator
\* is set on the first transmission of a PDU.
DataFrame == [acid : Acid, pdu : Pdu, ndi : BOOLEAN]

FramesDown(tx) ==
  {[acid |-> a, pdu |-> tx.unit[a].pdu, ndi |-> tx.unit[a].transmissions = 0]
     : a \in {b \in Acid : IsExtracted(tx, b)}}

\* H-ARQ feedback: the process, the PDU it is about and the decoding result.
Feedback == [acid : Acid, pdu : Pdu, ack : BOOLEAN]

FeedbackThrows(tx, fb) ==
  \/ fb.pdu # tx.unit[fb.acid].pdu
  \/ Status(tx, fb.acid) # "WAITING"

\* Mutant of IsLastAttempt: gives up one attempt early.
IsLastAttemptEarly(tx, a) == tx.unit[a].transmissions = MaxHarqRtx

IsLastAttempt(tx, a) == tx.unit[a].transmissions = MaxHarqRtx + 1

\* The PDU leaves the unit: acknowledged, or out of retransmissions.
FeedbackResets(tx, fb) == fb.ack \/ IsLastAttempt(tx, fb.acid)

\* Mutant of FeedbackDiscards: every NACK discards the PDU.
FeedbackDiscardsAlways(tx, fb) == ~fb.ack

FeedbackDiscards(tx, fb) == ~fb.ack /\ IsLastAttempt(tx, fb.acid)

\* Mutant of ReceiveFeedback: a NACK leaves the unit waiting.
ReceiveFeedbackWaiting(tx, fb) ==
  IF FeedbackResets(tx, fb)
  THEN [tx EXCEPT !.unit[fb.acid] = ResetUnit, !.numEmptyUnits[fb.acid] = @ + 1]
  ELSE tx

ReceiveFeedback(tx, fb) ==
  LET resets == FeedbackResets(tx, fb) IN
  [unit |-> [tx.unit EXCEPT ![fb.acid] =
               IF resets THEN ResetUnit ELSE [@ EXCEPT !.status = "BUFFERED"]],
   numEmptyUnits |-> [tx.numEmptyUnits EXCEPT ![fb.acid] =
                        IF resets THEN @ + 1 ELSE @],
   numSelected |-> tx.numSelected,
   selectedAcid |-> tx.selectedAcid]

----------------------------------------------------------------------------
(* The counters say what the units say: numEmptyUnits counts empty units,  *)
(* numSelected the selected ones, and a selected unit belongs to the       *)
(* selected process.                                                       *)
CountersMatchUnits(tx) ==
  \A a \in Acid :
    /\ tx.numEmptyUnits[a] =
         IF Status(tx, a) = "EMPTY" THEN MaxCodewords ELSE MaxCodewords - 1
    /\ tx.numSelected[a] = IF Status(tx, a) = "SELECTED" THEN 1 ELSE 0
    /\ Status(tx, a) = "SELECTED" => tx.selectedAcid = a
============================================================================
