----------------------------- MODULE LteDlHarq -----------------------------
(***************************************************************************)
(* Downlink H-ARQ between the MAC of an eNodeB and the MAC of one UE:      *)
(* LteMacEnb::handleSelfMessage with the downlink scheduler and            *)
(* macPduMake on one side, LteMacUe::handleSelfMessage on the other, and   *)
(* the radio channel in between.  Other UEs of the cell appear only as     *)
(* competition for resource blocks: whether a scheduling request of this   *)
(* UE can be served is a free choice of every TTI.                         *)
(*                                                                         *)
(* Time.  Every MAC runs its main loop once per TTI.  A frame lasts one    *)
(* TTI and arrives with a scheduling priority below that of the ticks      *)
(* (LtePhyBase::airFramePriority_ = 10, ttiTick_ = 1), so the frames sent  *)
(* in one TTI arrive after the ticks of the next and are seen by the tick  *)
(* of the one after it.  A TTI is thus: the two ticks in any order, then   *)
(* the arrivals, then NextTti.                                             *)
(***************************************************************************)
EXTENDS LteHarqRx

VARIABLES
  backlog,    \* PDUs whose SDUs still wait in the MAC buffers of the eNodeB
  tx,         \* harqTxBuffers_[ue] of the eNodeB
  rx,         \* harqRxBuffers_[enb] of the UE
  dlSent,     \* data frames sent in this TTI
  dlAir,      \* data frames that arrive in this TTI
  fbSent,     \* feedback frames sent in this TTI
  fbAir,      \* feedback frames that arrive in this TTI
  ticked,     \* nodes whose tick of this TTI has run
  err,        \* a cRuntimeError was thrown: the simulation is over
  attempts,   \* history: transmissions of each PDU
  delivered,  \* history: how often each PDU was handed to macPduUnmake
  discarded,  \* history: PDUs H-ARQ gave up
  dropped     \* history: PDUs macPduMake deleted, no process being free

harqVars == <<tx, rx>>
airVars == <<dlSent, dlAir, fbSent, fbAir>>
historyVars == <<attempts, delivered, discarded, dropped>>
vars == <<backlog, harqVars, airVars, ticked, err, historyVars>>

Node == {"enb", "ue"}

TypeOK ==
  /\ backlog \subseteq Pdu
  /\ tx \in TxBuffer
  /\ rx \in [Acid -> RxProcess]
  /\ dlSent \subseteq DataFrame /\ dlAir \subseteq DataFrame
  /\ fbSent \subseteq Feedback /\ fbAir \subseteq Feedback
  /\ ticked \subseteq Node
  /\ err \in BOOLEAN
  /\ attempts \in [Pdu -> Nat]
  /\ delivered \in [Pdu -> Nat]
  /\ discarded \subseteq Pdu
  /\ dropped \subseteq Pdu

Init ==
  /\ backlog = Pdu
  /\ tx = InitTxBuffer
  /\ rx = InitRxBuffer
  /\ dlSent = {} /\ dlAir = {} /\ fbSent = {} /\ fbAir = {}
  /\ ticked = {}
  /\ err = FALSE
  /\ attempts = [p \in Pdu |-> 0]
  /\ delivered = [p \in Pdu |-> 0]
  /\ discarded = {}
  /\ dropped = {}

----------------------------------------------------------------------------
(* The tick of the eNodeB.                                                 *)

EnbTick ==
  /\ ~err
  /\ "enb" \notin ticked
  /\ ticked' = ticked \cup {"enb"}
  /\ UNCHANGED <<rx, dlAir, fbSent, fbAir, delivered, discarded>>

CountAttempts(frames) ==
  attempts' = [p \in Pdu |-> IF \E f \in frames : f.pdu = p
                             THEN attempts[p] + 1 ELSE attempts[p]]

\* rtxschedule finds room for the PDU of process a.  A UE gets one codeword
\* per TTI: nothing else is scheduled for it, neither another retransmission
\* (a process with a lower number that is ready was too large for the free
\* blocks) nor new data.
EnbTickRetransmits(a) ==
  LET marked == MarkSelected(tx, a) IN
  /\ EnbTick
  /\ IsReady(tx, a)
  /\ err' = (MarkThrows(tx, a) \/ ExtractThrows(marked))
  /\ tx' = SendSelectedDown(marked)
  /\ dlSent' = dlSent \cup FramesDown(marked)
  /\ CountAttempts(FramesDown(marked))
  /\ UNCHANGED <<backlog, dropped>>

\* No retransmission was served and the scheduler grants new data:
\* macPduMake builds PDU p and puts it into the first available process.
EnbTickTransmits(p) ==
  \E a \in Acid :
    LET inserted == InsertPdu(tx, a, p) IN
    /\ EnbTick
    /\ p \in backlog
    /\ IsFirstAvailable(tx, a)
    /\ 0 \in EmptyUnitsIds(tx, a)
    /\ backlog' = backlog \ {p}
    /\ err' = (InsertThrows(tx, a) \/ ExtractThrows(inserted))
    /\ tx' = SendSelectedDown(inserted)
    /\ dlSent' = dlSent \cup FramesDown(inserted)
    /\ CountAttempts(FramesDown(inserted))
    /\ UNCHANGED dropped

\* With every process busy checkEligibility still answers yes, so the SDUs
\* leave the buffers; macPduMake finds no unit for the PDU and deletes it.
EnbTickDrops(p) ==
  /\ EnbTick
  /\ p \in backlog
  /\ IsFirstAvailable(tx, HarqNone)
  /\ backlog' = backlog \ {p}
  /\ dropped' = dropped \cup {p}
  /\ UNCHANGED <<tx, dlSent, attempts, err>>

\* Nothing is scheduled for this UE.
EnbTickIdle ==
  /\ EnbTick
  /\ UNCHANGED <<backlog, tx, dlSent, attempts, dropped, err>>

----------------------------------------------------------------------------
(* The tick of the UE: extractCorrectPdus (feedback, then extraction), and *)
(* at the end of the main loop purgeCorruptedPdus.                         *)

UeTick ==
  LET older == OneTtiLater(rx) IN
  /\ ~err
  /\ "ue" \notin ticked
  /\ ticked' = ticked \cup {"ue"}
  /\ fbSent' = fbSent \cup FeedbackSent(older)
  /\ rx' = PurgeCorruptedPdus(ExtractCorrectPdus(older))
  /\ delivered' = [p \in Pdu |-> IF p \in CorrectPdus(older)
                                 THEN delivered[p] + 1 ELSE delivered[p]]
  /\ UNCHANGED <<backlog, tx, dlSent, dlAir, fbAir, err,
                 attempts, discarded, dropped>>

----------------------------------------------------------------------------
(* The arrivals.                                                           *)

\* LtePhyUe::handleAirFrame decides whether the frame was decoded, then
\* LteMacBase::fromPhy inserts the PDU into its process either way.
UeReceivesData(f) ==
  /\ ~err
  /\ ticked = Node
  /\ f \in dlAir
  /\ dlAir' = dlAir \ {f}
  /\ err' = RxInsertThrows(rx, f)
  /\ \E ok \in BOOLEAN : rx' = RxInsert(rx, f, ok)
  /\ UNCHANGED <<backlog, tx, dlSent, fbSent, fbAir, ticked, historyVars>>

\* LteMacBase::fromPhy hands the feedback to LteHarqBufferTx.
EnbReceivesFeedback(fb) ==
  /\ ~err
  /\ ticked = Node
  /\ fb \in fbAir
  /\ fbAir' = fbAir \ {fb}
  /\ err' = FeedbackThrows(tx, fb)
  /\ tx' = ReceiveFeedback(tx, fb)
  /\ discarded' = IF FeedbackDiscards(tx, fb)
                  THEN discarded \cup {fb.pdu} ELSE discarded
  /\ UNCHANGED <<backlog, rx, dlSent, dlAir, fbSent, ticked,
                 attempts, delivered, dropped>>

\* The TTI ends when everything that arrives in it has arrived.
NextTti ==
  /\ ~err
  /\ ticked = Node
  /\ dlAir = {} /\ fbAir = {}
  /\ ticked' = {}
  /\ dlAir' = dlSent /\ dlSent' = {}
  /\ fbAir' = fbSent /\ fbSent' = {}
  /\ UNCHANGED <<backlog, harqVars, err, historyVars>>

----------------------------------------------------------------------------

EnbStep ==
  \/ \E a \in Acid : EnbTickRetransmits(a)
  \/ \E p \in Pdu : EnbTickTransmits(p) \/ EnbTickDrops(p)
  \/ EnbTickIdle

Next ==
  \/ EnbStep
  \/ UeTick
  \/ \E f \in dlAir : UeReceivesData(f)
  \/ \E fb \in fbAir : EnbReceivesFeedback(fb)
  \/ NextTti

Spec == Init /\ [][Next]_vars

(* Time goes on: ticks and arrivals are events of the simulation kernel,   *)
(* which executes every one of them.  That the cell has room for a         *)
(* retransmission, or for the new data of this UE, whenever asked again    *)
(* and again, is an assumption on the load of the cell: strong fairness,   *)
(* because the opportunity comes back at every TTI but does not last.      *)
Fairness ==
  /\ WF_vars(EnbStep)
  /\ WF_vars(UeTick)
  /\ WF_vars(\E f \in dlAir : UeReceivesData(f))
  /\ WF_vars(\E fb \in fbAir : EnbReceivesFeedback(fb))
  /\ WF_vars(NextTti)
  /\ \A a \in Acid : SF_vars(EnbTickRetransmits(a))
  /\ SF_vars(\E p \in Pdu : EnbTickTransmits(p) \/ EnbTickDrops(p))

FairSpec == Spec /\ Fairness

----------------------------------------------------------------------------
(* Safety.                                                                 *)

\* None of the run-time errors of the H-ARQ classes is reachable: no new data
\* arrives in a busy process, no feedback reaches a unit that does not wait
\* for it or holds another PDU, no unit is filled, marked or extracted in a
\* wrong state.
NoRuntimeError == ~err

\* Where the exchange of process a stands: the data frame of its PDU is on
\* the air, or the PDU is under evaluation at the UE, or its feedback is on
\* the air.
DataUnderway(a) == \E f \in dlSent \cup dlAir : f.acid = a
Evaluating(a) == rx[a].status = "EVALUATING"
FeedbackUnderway(a) == \E fb \in fbSent \cup fbAir : fb.acid = a

\* Stop and wait: a unit waits for feedback exactly while its exchange is at
\* one of the three stages, and an exchange is at one stage only.
StopAndWait ==
  \A a \in Acid :
    /\ Status(tx, a) = "WAITING"
         <=> DataUnderway(a) \/ Evaluating(a) \/ FeedbackUnderway(a)
    /\ ~(DataUnderway(a) /\ Evaluating(a))
    /\ ~(DataUnderway(a) /\ FeedbackUnderway(a))
    /\ ~(Evaluating(a) /\ FeedbackUnderway(a))

\* The upper layers get every PDU at most once, whatever is retransmitted.
DeliveredAtMostOnce == \A p \in Pdu : delivered[p] <= 1

\* A PDU held by no process, waiting in no buffer and not deleted for want of
\* a process was either delivered once, or discarded undelivered after all
\* its MaxHarqRtx + 1 attempts failed.
Held(p) == \E a \in Acid : tx.unit[a].pdu = p

SettledOnce ==
  \A p \in Pdu \ (backlog \cup dropped) : ~Held(p) =>
    \/ delivered[p] = 1 /\ p \notin discarded
    \/ delivered[p] = 0 /\ p \in discarded /\ attempts[p] = MaxHarqRtx + 1

\* No unit stays selected after the tick, and the counters of the processes
\* agree with their units.
BookkeepingOK ==
  /\ CountersMatchUnits(tx)
  /\ tx.selectedAcid = HarqNone

----------------------------------------------------------------------------
(* Why the safety properties hold: their inductive strengthening.          *)

\* A unit is empty exactly when it holds no PDU, no PDU is in two units, and
\* the transmissions of a PDU are counted within its attempts.
UnitsOK ==
  /\ BookkeepingOK
  /\ \A a \in Acid :
       /\ Status(tx, a) = "EMPTY" <=> tx.unit[a].pdu = NoPdu
       /\ Status(tx, a) = "WAITING" =>
            tx.unit[a].transmissions \in 1 .. MaxHarqRtx + 1
       /\ IsReady(tx, a) => tx.unit[a].transmissions \in 1 .. MaxHarqRtx
  /\ \A a, b \in Acid :
       tx.unit[a].pdu = tx.unit[b].pdu /\ tx.unit[a].pdu # NoPdu => a = b

\* After its tick the UE keeps only PDUs still under evaluation.
RxOK == \A a \in Acid : rx[a] = ResetCodeword \/ Evaluating(a)

\* The PDU of process a, not yet delivered or delivered (1), waits for p.
WaitsFor(a, p, n) ==
  Status(tx, a) = "WAITING" /\ tx.unit[a].pdu = p /\ delivered[p] = n

\* Every process that waits has one exchange, at one stage, about its PDU;
\* until the evaluation ends the PDU is not delivered, and afterwards the
\* feedback says whether it was.
ExchangesOK ==
  /\ \A f \in dlSent \cup dlAir :
       WaitsFor(f.acid, f.pdu, 0) /\ ~Evaluating(f.acid)
  /\ \A a \in Acid : Evaluating(a) => WaitsFor(a, rx[a].pdu, 0)
  /\ \A fb \in fbSent \cup fbAir :
       /\ WaitsFor(fb.acid, fb.pdu, IF fb.ack THEN 1 ELSE 0)
       /\ ~Evaluating(fb.acid) /\ ~DataUnderway(fb.acid)
  /\ \A a \in Acid : Status(tx, a) = "WAITING" =>
       DataUnderway(a) \/ Evaluating(a) \/ FeedbackUnderway(a)
  /\ \A f, g \in dlSent \cup dlAir : f.acid = g.acid => f = g
  /\ \A f, g \in fbSent \cup fbAir : f.acid = g.acid => f = g
  /\ dlSent \cap dlAir = {} /\ fbSent \cap fbAir = {}

\* The history of a PDU that was never sent, and of one that H-ARQ holds.
HistoryOK ==
  /\ \A p \in backlog \cup dropped :
       attempts[p] = 0 /\ delivered[p] = 0 /\ p \notin discarded /\ ~Held(p)
  /\ backlog \cap dropped = {}
  /\ \A a \in Acid : Status(tx, a) # "EMPTY" =>
       /\ attempts[tx.unit[a].pdu] = tx.unit[a].transmissions
       /\ tx.unit[a].pdu \notin discarded
       /\ IsReady(tx, a) => delivered[tx.unit[a].pdu] = 0
  /\ SettledOnce

\* The eNodeB sends a UE one codeword per TTI, so no two PDUs under evaluation
\* are equally old, and one evaluation at most ends in a tick.
OneFramePerTti ==
  /\ \A f, g \in dlSent : f = g
  /\ dlSent # {} => "enb" \in ticked
  /\ \A f, g \in dlAir : f = g
  /\ \A a \in Acid : Evaluating(a) => rx[a].age < FbInterval
  /\ \A a, b \in Acid :
       Evaluating(a) /\ Evaluating(b) /\ rx[a].age = rx[b].age => a = b
  /\ dlAir # {} /\ "ue" \in ticked =>
       \A a \in Acid : Evaluating(a) => rx[a].age > 0

Inv ==
  TypeOK /\ NoRuntimeError /\ UnitsOK /\ RxOK /\ ExchangesOK /\ HistoryOK
  /\ OneFramePerTti

----------------------------------------------------------------------------
(* Implementation of the service.                                          *)

\* The fate of a PDU as the users of H-ARQ see it.
FateOf(p) ==
  IF p \in backlog THEN "queued"
  ELSE IF delivered[p] > 0 THEN "delivered"
  ELSE IF p \in discarded \cup dropped THEN "lost"
  ELSE "pending"

fateBar == [p \in Pdu |-> FateOf(p)]

Service == INSTANCE LteMacPduService WITH fate <- fateBar

\* The downlink implements the MAC PDU service.
ImplementsService == Service!Spec

----------------------------------------------------------------------------
(* Liveness.                                                               *)

\* A transmitter never keeps a PDU for ever: its process becomes free again.
EveryProcessIsFreedAgain ==
  \A a \in Acid : (Status(tx, a) # "EMPTY") ~> (Status(tx, a) = "EMPTY")
============================================================================
