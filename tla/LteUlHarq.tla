----------------------------- MODULE LteUlHarq -----------------------------
(***************************************************************************)
(* Uplink access and H-ARQ between the MAC of one UE and the MAC of its    *)
(* eNodeB: random access (RAC), scheduling grants, buffer status reports   *)
(* (BSR) and synchronous H-ARQ.  No message of the uplink names an H-ARQ   *)
(* process for a grant: the UE uses the process of its counter             *)
(* currentHarq_, the eNodeB follows with its own counter harqStatus_ and   *)
(* aims a grant at the process the UE will have reached when it uses it.   *)
(*                                                                         *)
(* Time is as in LteDlHarq: the two ticks of a TTI in any order, then the  *)
(* arrivals of the frames sent in the TTI before, then NextTti.            *)
(*                                                                         *)
(* The code never uses the identity of a MAC PDU twice.  Here a PDU is a   *)
(* record, and one that nothing holds any more is used again: its process, *)
(* a number that tells two consecutive PDUs of a process apart, and        *)
(* whether it carries a BSR.                                               *)
(***************************************************************************)
EXTENDS LteHarqRx, FiniteSets

CONSTANTS RaRespWinStart,  \* raRespWinStart_: TTIs between two RAC requests
          MaxLoad          \* bound: SDUs in the buffers plus busy processes

ASSUME PduAssumption == Pdu = [acid : Acid, seq : 0 .. 1, bsr : BOOLEAN]
ASSUME RaRespWinStartAssumption == RaRespWinStart \in Nat
ASSUME MaxLoadAssumption == MaxLoad \in Nat \ {0}

\* The feedback on a PDU comes before the turn of its process does: 8 processes
\* (ENB_TX_HARQ_PROCESSES) against an evaluation of 3 TTIs and the two trips.
ASSUME RoundTripAssumption == NumProc >= FbInterval + 3

VARIABLES
  (* The UE *)
  tx,            \* harqTxBuffers_[enb]
  currentHarq,   \* currentHarq_
  firstTx,       \* firstTx: currentHarq_ was set by the first grant
  grant,         \* schedulingGrant_, or NoGrant
  sdus,          \* number of SDUs in the MAC buffers
  bsrTriggered,  \* bsrTriggered_
  racRequested,  \* racRequested_
  raRespTimer,   \* raRespTimer_
  (* The eNodeB *)
  rx,            \* harqRxBuffers_[ue], InitRxBuffer before it is created
  rxCreated,     \* harqRxBuffers_ has an entry for the UE
  harqStatus,    \* harqStatus_[ue], or HarqNone when it has no entry
  racPending,    \* racStatus_ has an entry for the UE
  bsrPending,    \* bsrbuf_ of the UE is not empty
  (* The radio channel *)
  toEnbSent, toEnb,  \* frames sent in this TTI, arriving in this TTI
  toUeSent, toUe,
  ticked,        \* nodes whose tick of this TTI has run
  err,           \* a cRuntimeError was thrown
  deliveries     \* history: how often the PDU now held by a process was handed
                 \* to macPduUnmake

ueVars == <<tx, currentHarq, firstTx, grant, sdus, bsrTriggered, racRequested,
            raRespTimer>>
enbVars == <<rx, rxCreated, harqStatus, racPending, bsrPending>>
vars == <<ueVars, enbVars, toEnbSent, toEnb, toUeSent, toUe, ticked, err,
          deliveries>>

Node == {"enb", "ue"}

\* A grant does not say what it is for.  History: the process whose
\* retransmission the eNodeB scheduled, or HarqNone, and whether it granted
\* new data for a BSR.
Grant == [rtx : Acid \cup {HarqNone}, new : BOOLEAN]
NoGrant == [rtx |-> HarqNone]

DataPkt(f) == [type |-> "DATAPKT", frame |-> f]
RacPkt == [type |-> "RACPKT"]
HarqPkt(fb) == [type |-> "HARQPKT", feedback |-> fb]
GrantPkt(g) == [type |-> "GRANTPKT", grant |-> g]

ToEnbFrame == {DataPkt(f) : f \in DataFrame} \cup {RacPkt}
ToUeFrame ==
  {HarqPkt(fb) : fb \in Feedback} \cup {GrantPkt(g) : g \in Grant} \cup {RacPkt}

TypeOK ==
  /\ tx \in TxBuffer
  /\ currentHarq \in Acid
  /\ grant \in Grant \cup {NoGrant}
  /\ sdus \in 0 .. MaxLoad
  /\ raRespTimer \in 0 .. RaRespWinStart
  /\ rx \in [Acid -> RxProcess]
  /\ harqStatus \in Acid \cup {HarqNone}
  /\ {firstTx, bsrTriggered, racRequested, rxCreated, racPending, bsrPending, err}
       \subseteq BOOLEAN
  /\ toEnbSent \cup toEnb \subseteq ToEnbFrame
  /\ toUeSent \cup toUe \subseteq ToUeFrame
  /\ ticked \subseteq Node
  /\ deliveries \in [Acid -> Nat]

Init ==
  /\ tx = InitTxBuffer
  /\ currentHarq = 0
  /\ firstTx = FALSE
  /\ grant = NoGrant
  /\ sdus = 0
  /\ bsrTriggered = FALSE /\ racRequested = FALSE /\ raRespTimer = 0
  /\ rx = InitRxBuffer
  /\ rxCreated = FALSE
  /\ harqStatus = HarqNone
  /\ racPending = FALSE /\ bsrPending = FALSE
  /\ toEnbSent = {} /\ toEnb = {} /\ toUeSent = {} /\ toUe = {}
  /\ ticked = {}
  /\ err = FALSE
  /\ deliveries = [a \in Acid |-> 0]

----------------------------------------------------------------------------
(* Data from RLC: bufferizePacket.                                         *)

Held(p) == \E a \in Acid : tx.unit[a].pdu = p

BusyProcesses == {a \in Acid : Status(tx, a) # "EMPTY"}

\* An SDU that arrives after the tick of the UE waits for the next one, so
\* arrivals at the beginning of a TTI stand for all of them.
SduArrives ==
  /\ ~err
  /\ ticked = {}
  /\ sdus + Cardinality(BusyProcesses) < MaxLoad
  /\ sdus' = sdus + 1
  /\ UNCHANGED <<tx, currentHarq, firstTx, grant, bsrTriggered, racRequested,
                 raRespTimer, enbVars, toEnbSent, toEnb, toUeSent, toUe, ticked,
                 err, deliveries>>

----------------------------------------------------------------------------
(* The tick of the UE, LteMacUe::handleSelfMessage.  Its reception part,   *)
(* about the downlink, is in LteDlHarq.                                    *)

\* Mutant of UsedHarq: the first grant sets the counter one process too far.
UsedHarqLate == IF firstTx THEN currentHarq ELSE (NumProc - 1) % NumProc

\* The process a grant is used on: the first grant sets the counter so that
\* the eNodeB receives the first PDU when its own counter starts at 0.
UsedHarq == IF firstTx THEN currentHarq ELSE (NumProc - 2) % NumProc

UeTick ==
  /\ ~err
  /\ "ue" \notin ticked
  /\ ticked' = ticked \cup {"ue"}
  /\ UNCHANGED <<enbVars, toEnb, toUeSent, toUe, deliveries>>

\* Mutant of UeTickChecksRac: a request whose window passed is not forgotten.
UeTickChecksRacOnce ==
  /\ UeTick
  /\ grant = NoGrant
  /\ LET asks == raRespTimer = 0 /\ ~racRequested /\ sdus > 0 IN
     /\ raRespTimer' = IF asks THEN RaRespWinStart
                       ELSE IF raRespTimer > 0 THEN raRespTimer - 1 ELSE 0
     /\ racRequested' = (asks \/ racRequested)
     /\ toEnbSent' = IF asks THEN toEnbSent \cup {RacPkt} ELSE toEnbSent
  /\ currentHarq' = (currentHarq + 1) % NumProc
  /\ UNCHANGED <<tx, firstTx, grant, sdus, bsrTriggered, err>>

\* checkRAC: wait for the response window of the last request to pass, skip
\* one more TTI if no grant came of it, then ask again if there is data.
\* (racBackoffTimer_ stays 0: macHandleRac only ever sees success.)
UeTickChecksRac ==
  /\ UeTick
  /\ grant = NoGrant
  /\ LET asks == raRespTimer = 0 /\ ~racRequested /\ sdus > 0 IN
     /\ raRespTimer' = IF asks THEN RaRespWinStart
                       ELSE IF raRespTimer > 0 THEN raRespTimer - 1 ELSE 0
     /\ racRequested' = (asks \/ (raRespTimer > 0 /\ racRequested))
     /\ toEnbSent' = IF asks THEN toEnbSent \cup {RacPkt} ELSE toEnbSent
  /\ currentHarq' = (currentHarq + 1) % NumProc
  /\ UNCHANGED <<tx, firstTx, grant, sdus, bsrTriggered, err>>

\* Mutant of UseGrant: the process counter stays where it is.
UseGrantStaying(filled) ==
  /\ UeTick
  /\ grant # NoGrant
  /\ tx' = SendSelectedDown(filled)
  /\ toEnbSent' = toEnbSent \cup {DataPkt(f) : f \in FramesDown(filled)}
  /\ firstTx' = TRUE
  /\ currentHarq' = UsedHarq
  /\ grant' = NoGrant
  /\ UNCHANGED <<racRequested, raRespTimer>>

\* What every use of a grant does: sendSelectedDown, and the grant is gone.
UseGrant(filled) ==
  /\ UeTick
  /\ grant # NoGrant
  /\ tx' = SendSelectedDown(filled)
  /\ toEnbSent' = toEnbSent \cup {DataPkt(f) : f \in FramesDown(filled)}
  /\ firstTx' = TRUE
  /\ currentHarq' = (UsedHarq + 1) % NumProc
  /\ grant' = NoGrant
  /\ UNCHANGED <<racRequested, raRespTimer>>

\* The process is ready for a retransmission: whatever the grant was for.
UeTickRetransmits ==
  LET marked == MarkSelected(tx, UsedHarq) IN
  /\ IsReady(tx, UsedHarq)
  /\ UseGrant(marked)
  /\ err' = (MarkThrows(tx, UsedHarq) \/ ExtractThrows(marked))
  /\ UNCHANGED <<sdus, bsrTriggered>>

\* A PDU of process a that nothing holds: not the transmitter, the receiver
\* or a frame.
InUse(p) ==
  \/ Held(p)
  \/ \E a \in Acid : rx[a].pdu = p
  \/ \E m \in toEnbSent \cup toEnb : m.type = "DATAPKT" /\ m.frame.pdu = p
  \/ \E m \in toUeSent \cup toUe : m.type = "HARQPKT" /\ m.feedback.pdu = p

NewPdu(a, bsr) ==
  CHOOSE p \in Pdu : p.acid = a /\ p.bsr = bsr /\
                     \A b \in BOOLEAN : ~InUse([p EXCEPT !.bsr = b])

\* macPduMake: the LCG scheduler takes the SDUs that the grant has room for,
\* and a PDU is made of them and of the BSR, if there is any of the two.
UeTickTransmits(served) ==
  LET inserted == InsertPdu(tx, UsedHarq, NewPdu(UsedHarq, bsrTriggered)) IN
  /\ ~IsReady(tx, UsedHarq)
  /\ served <= sdus
  /\ served > 0 \/ bsrTriggered
  /\ UseGrant(inserted)
  /\ err' = (InsertThrows(tx, UsedHarq) \/ ExtractThrows(inserted))
  /\ sdus' = sdus - served
  /\ bsrTriggered' = FALSE

\* The grant has no room for the first SDU and no BSR is due, or there is
\* nothing to send: no PDU is made.
UeTickWastesGrant ==
  /\ ~IsReady(tx, UsedHarq)
  /\ ~bsrTriggered
  /\ UseGrant(tx)
  /\ UNCHANGED <<sdus, bsrTriggered, err>>

----------------------------------------------------------------------------
(* The tick of the eNodeB: reception, then the uplink scheduler.           *)

\* updateHarqDescs.
NextHarqStatus ==
  IF ~rxCreated THEN harqStatus
  ELSE IF harqStatus = HarqNone THEN 0 ELSE (harqStatus + 1) % NumProc

\* Mutant of CanRetransmit: aims at the process the UE uses in one TTI.
CanRetransmitSoon(rx2, acid) ==
  acid # HarqNone /\ rx2[(acid + 1) % NumProc].status = "CORRUPTED"

\* What the scheduler may grant, given the state after reception: a block for
\* a RAC; a retransmission, of the process that the UE will use in two TTIs;
\* new data for a BSR, if the UE has no codeword allocated for the
\* retransmission and process acid itself is free (checkEligibility).
CanRetransmit(rx2, acid) ==
  acid # HarqNone /\ rx2[(acid + 2) % NumProc].status = "CORRUPTED"
CanSendNew(rx2, acid) ==
  acid # HarqNone /\ rx2[acid].status = "EMPTY"

\* One way the resource blocks may be given out.  A RAC is not served only
\* if no block is left, and then nothing else is served either.
Decision == [rac : BOOLEAN, rtx : BOOLEAN, new : BOOLEAN]

Possible(d, rx2, acid, backlogged) ==
  /\ d.rac => racPending
  /\ d.rtx => CanRetransmit(rx2, acid)
  /\ d.new => CanSendNew(rx2, acid) /\ backlogged /\ ~d.rtx
  /\ racPending /\ ~d.rac => ~d.rtx /\ ~d.new

\* The UE gets one grant, whatever was scheduled for it (sendGrants).
GrantsSent(d, acid) ==
  IF d.rac \/ d.rtx \/ d.new
  THEN {GrantPkt([rtx |-> IF d.rtx THEN (acid + 2) % NumProc ELSE HarqNone,
                  new |-> d.new])}
  ELSE {}

\* Granting new data consumes BSRs, not always all of them.  At the end of the
\* tick no PDU is purged: the loop in the code starts where the first one
\* ended.
EnbTick(d) ==
  LET older == OneTtiLater(rx)
      pdus == CorrectPdus(older)
      rx2 == ExtractCorrectPdus(older)
      acid == NextHarqStatus
      backlogged == bsrPending \/ \E p \in pdus : p.bsr
  IN
  /\ ~err
  /\ "enb" \notin ticked
  /\ ticked' = ticked \cup {"enb"}
  /\ Possible(d, rx2, acid, backlogged)
  /\ rx' = rx2
  /\ harqStatus' = acid
  /\ racPending' = FALSE
  /\ bsrPending' \in IF d.new THEN BOOLEAN ELSE {backlogged}
  /\ deliveries' = [a \in Acid |-> IF \E p \in pdus : p.acid = a
                                   THEN deliveries[a] + 1 ELSE deliveries[a]]
  /\ toUeSent' = toUeSent \cup {HarqPkt(fb) : fb \in FeedbackSent(older)}
                          \cup GrantsSent(d, acid)
  /\ UNCHANGED <<ueVars, rxCreated, toEnbSent, toEnb, toUe, err>>

----------------------------------------------------------------------------
(* The arrivals at the eNodeB: LteMacBase::fromPhy.                        *)

EnbReceives(m) ==
  /\ ~err
  /\ ticked = Node
  /\ m \in toEnb
  /\ toEnb' = toEnb \ {m}
  /\ UNCHANGED <<ueVars, harqStatus, bsrPending, toEnbSent, toUe, ticked,
                 deliveries>>

\* The channel decides whether the PDU is decoded.
EnbReceivesData(m) ==
  /\ EnbReceives(m)
  /\ m.type = "DATAPKT"
  /\ err' = RxInsertThrows(rx, m.frame)
  /\ \E ok \in BOOLEAN : rx' = RxInsert(rx, m.frame, ok)
  /\ rxCreated' = TRUE
  /\ UNCHANGED <<racPending, toUeSent>>

\* macHandleRac: every request is answered with success at once.
EnbReceivesRac(m) ==
  /\ EnbReceives(m)
  /\ m.type = "RACPKT"
  /\ racPending' = TRUE
  /\ toUeSent' = toUeSent \cup {RacPkt}
  /\ UNCHANGED <<rx, rxCreated, err>>

(* The arrivals at the UE.                                                 *)

UeReceives(m) ==
  /\ ~err
  /\ ticked = Node
  /\ m \in toUe
  /\ toUe' = toUe \ {m}
  /\ UNCHANGED <<enbVars, currentHarq, firstTx, sdus, raRespTimer, toEnbSent,
                 toEnb, toUeSent, ticked>>

\* A PDU that leaves the transmitter forgets its history.
UeReceivesFeedback(m) ==
  /\ UeReceives(m)
  /\ m.type = "HARQPKT"
  /\ err' = FeedbackThrows(tx, m.feedback)
  /\ tx' = ReceiveFeedback(tx, m.feedback)
  /\ deliveries' = IF FeedbackResets(tx, m.feedback)
                   THEN [deliveries EXCEPT ![m.feedback.acid] = 0]
                   ELSE deliveries
  /\ UNCHANGED <<grant, bsrTriggered, racRequested>>

UeReceivesGrant(m) ==
  /\ UeReceives(m)
  /\ m.type = "GRANTPKT"
  /\ grant' = m.grant
  /\ racRequested' = FALSE
  /\ UNCHANGED <<tx, bsrTriggered, err, deliveries>>

UeReceivesRac(m) ==
  /\ UeReceives(m)
  /\ m.type = "RACPKT"
  /\ bsrTriggered' = TRUE
  /\ UNCHANGED <<tx, grant, racRequested, err, deliveries>>

NextTti ==
  /\ ~err
  /\ ticked = Node
  /\ toEnb = {} /\ toUe = {}
  /\ ticked' = {}
  /\ toEnb' = toEnbSent /\ toEnbSent' = {}
  /\ toUe' = toUeSent /\ toUeSent' = {}
  /\ UNCHANGED <<ueVars, enbVars, err, deliveries>>

----------------------------------------------------------------------------

UeStep ==
  \/ UeTickChecksRac
  \/ UeTickRetransmits
  \/ \E served \in 0 .. sdus : UeTickTransmits(served)
  \/ UeTickWastesGrant

EnbStep == \E d \in Decision : EnbTick(d)

Arrival ==
  \/ \E m \in toEnb : EnbReceivesData(m) \/ EnbReceivesRac(m)
  \/ \E m \in toUe :
       UeReceivesFeedback(m) \/ UeReceivesGrant(m) \/ UeReceivesRac(m)

Next == SduArrives \/ UeStep \/ EnbStep \/ Arrival \/ NextTti

Spec == Init /\ [][Next]_vars

(* Time goes on: the simulation kernel executes every event.               *)
TimePasses ==
  WF_vars(UeStep) /\ WF_vars(EnbStep) /\ WF_vars(Arrival) /\ WF_vars(NextTti)

(* As in LteDlHarq, that the cell has room again and again is an           *)
(* assumption on its load: for the retransmissions of each process,        *)
RetransmissionsServed ==
  \A a \in Acid :
    SF_vars((NextHarqStatus + 2) % NumProc = a
            /\ \E d \in Decision : d.rtx /\ EnbTick(d))

(* and for random access, with grants not for ever too small for an SDU.   *)
AccessServed ==
  /\ SF_vars(\E d \in Decision : d.rac /\ EnbTick(d))
  /\ SF_vars(\E served \in 1 .. sdus : UeTickTransmits(served))

FairSpec == Spec /\ TimePasses /\ RetransmissionsServed /\ AccessServed

----------------------------------------------------------------------------
(* Safety.                                                                 *)

\* None of the run-time errors of the H-ARQ classes is reachable; among them,
\* a PDU is never put into a process of the UE that still holds another, and
\* never reaches a process of the eNodeB that is not free for it.
NoRuntimeError == ~err

\* The two counters, started independently by the first grant and by the
\* first PDU, advance in step: between TTIs, the next process of the UE is
\* the one after the current process of the eNodeB.
ProcessesInStep ==
  firstTx /\ harqStatus # HarqNone /\ ticked \in {{}, Node} =>
    currentHarq = (harqStatus + 1) % NumProc

\* A grant for a retransmission reaches the UE when it is on the very process
\* it was scheduled for, with a PDU there to retransmit.
GrantFindsItsProcess ==
  grant # NoGrant /\ grant.rtx # HarqNone /\ ticked = {} =>
    /\ firstTx /\ grant.rtx = currentHarq
    /\ IsReady(tx, grant.rtx)

\* Transmitter and receiver agree on a PDU that awaits retransmission: the
\* eNodeB, which never purges, keeps the same PDU with the same number of
\* transmissions, so that both give up at the same attempt.
RetransmissionsAgree ==
  \A a \in Acid : IsReady(tx, a) =>
    /\ rx[a].status = "CORRUPTED"
    /\ rx[a].pdu = tx.unit[a].pdu
    /\ rx[a].transmissions = tx.unit[a].transmissions

\* A free process of the UE is free at the eNodeB too, and nothing about it
\* is on the air: its next PDU cannot be taken for the last.
FreeMeansForgotten ==
  \A a \in Acid : Status(tx, a) = "EMPTY" =>
    /\ rx[a].status = "EMPTY"
    /\ \A m \in toEnbSent \cup toEnb : m.type = "DATAPKT" => m.frame.acid # a
    /\ \A m \in toUeSent \cup toUe : m.type = "HARQPKT" => m.feedback.acid # a

\* A PDU leaves the transmitter in one of two ways: delivered once and
\* acknowledged, or never delivered and given up after MaxHarqRtx + 1
\* transmissions.
SettledOnce ==
  [][\A a \in Acid :
       Status(tx, a) # "EMPTY" /\ Status(tx', a) = "EMPTY" =>
         \/ deliveries[a] = 1
         \/ /\ deliveries[a] = 0
            /\ tx.unit[a].transmissions = MaxHarqRtx + 1]_vars

----------------------------------------------------------------------------
(* Why the safety properties hold: their inductive strengthening.  Nothing *)
(* names a process for a grant, so everything under way is dated by the    *)
(* counter of the UE.                                                      *)

\* TTIs from the last use of process a by the UE to the present TTI.
Since(a) ==
  (IF a < currentHarq THEN currentHarq - 1 - a ELSE currentHarq + NumProc - 1 - a)
    + (IF "ue" \in ticked THEN 0 ELSE 1)

\* No unit is selected between two events, a unit is empty exactly when it
\* holds no PDU, and otherwise holds a PDU of its process within its attempts.
UnitsOK ==
  /\ CountersMatchUnits(tx)
  /\ tx.selectedAcid = HarqNone
  /\ \A a \in Acid :
       /\ Status(tx, a) = "EMPTY" <=> tx.unit[a].pdu = NoPdu
       /\ Status(tx, a) # "EMPTY" =>
            /\ tx.unit[a].pdu.acid = a
            /\ tx.unit[a].transmissions \in 1 .. MaxHarqRtx + 1
       /\ IsReady(tx, a) => tx.unit[a].transmissions # MaxHarqRtx + 1

\* Process a waits for feedback on p, which it sent n TTIs ago.
WaitsFor(a, p, n) ==
  Status(tx, a) = "WAITING" /\ tx.unit[a].pdu = p /\ Since(a) = n

\* The eNodeB has every transmission of the PDU of process a.
RxHolds(a, status) ==
  /\ rx[a].status = status
  /\ rx[a].pdu = tx.unit[a].pdu
  /\ rx[a].transmissions = tx.unit[a].transmissions

\* A frame sent n TTIs ago, on its way to a process of the eNodeB that is free
\* for it.
FrameOK(f, n) ==
  /\ WaitsFor(f.acid, f.pdu, n)
  /\ f.ndi <=> tx.unit[f.acid].transmissions = 1
  /\ rx[f.acid].status = IF f.ndi THEN "EMPTY" ELSE "CORRUPTED"
  /\ rx[f.acid].transmissions + 1 = tx.unit[f.acid].transmissions
  /\ deliveries[f.acid] = 0

\* The age of a PDU under evaluation dates its transmission.
EvaluationOK(a) ==
  /\ WaitsFor(a, rx[a].pdu, rx[a].age + IF "enb" \in ticked THEN 1 ELSE 2)
  /\ RxHolds(a, "EVALUATING")
  /\ rx[a].age < FbInterval
  /\ deliveries[a] = 0

\* Feedback on what was sent n TTIs ago says what became of it.
FeedbackOK(fb, n) ==
  /\ WaitsFor(fb.acid, fb.pdu, n)
  /\ IF fb.ack \/ tx.unit[fb.acid].transmissions = MaxHarqRtx + 1
     THEN rx[fb.acid].status = "EMPTY" ELSE RxHolds(fb.acid, "CORRUPTED")
  /\ deliveries[fb.acid] = IF fb.ack THEN 1 ELSE 0

DataUnderway(a) ==
  \E f \in DataFrame : f.acid = a /\ DataPkt(f) \in toEnbSent \cup toEnb

FeedbackUnderway(a) ==
  \E fb \in Feedback : fb.acid = a /\ HarqPkt(fb) \in toUeSent \cup toUe

\* The exchange of every process is at the stage its age says.
ExchangesOK ==
  /\ \A f \in DataFrame : /\ DataPkt(f) \in toEnbSent => FrameOK(f, 0)
                          /\ DataPkt(f) \in toEnb => FrameOK(f, 1)
  /\ \A a \in Acid : rx[a].status = "EVALUATING" => EvaluationOK(a)
  /\ \A fb \in Feedback :
       /\ HarqPkt(fb) \in toUeSent => FeedbackOK(fb, FbInterval + 1)
       /\ HarqPkt(fb) \in toUe => FeedbackOK(fb, FbInterval + 2)
  /\ \A a \in Acid :
       /\ Status(tx, a) = "WAITING" =>
            \/ DataUnderway(a) \/ rx[a].status = "EVALUATING"
            \/ FeedbackUnderway(a)
       /\ IsReady(tx, a) => RxHolds(a, "CORRUPTED") /\ deliveries[a] = 0
       /\ Status(tx, a) = "EMPTY" => rx[a].status = "EMPTY" /\ deliveries[a] = 0
       /\ rx[a].status = "EMPTY" => rx[a] = ResetCodeword
       /\ rx[a].status # "CORRECT"
       /\ rx[a].pdu # NoPdu => rx[a].pdu.acid = a

\* The counter of the eNodeB starts with the first PDU, which the UE sent on
\* the process its first grant set, and follows the counter of the UE.
CountersOK ==
  /\ ~firstTx => \A a \in Acid : Status(tx, a) = "EMPTY"
  /\ rxCreated => firstTx
  /\ ~rxCreated =>
       /\ harqStatus = HarqNone
       /\ \A f \in DataFrame : DataPkt(f) \in toEnb => f.acid = NumProc - 2
       /\ firstTx => DataUnderway(NumProc - 2)
  /\ rxCreated /\ harqStatus = HarqNone =>
       /\ ticked # {"enb"}
       /\ currentHarq = IF ticked = {"ue"} THEN 1 ELSE 0
  /\ harqStatus # HarqNone =>
       currentHarq = CASE ticked = {"enb"} -> harqStatus
                       [] ticked = {"ue"} -> (harqStatus + 2) % NumProc
                       [] OTHER -> (harqStatus + 1) % NumProc

\* A grant for a retransmission, n TTIs after its process was used.
GrantOK(g, n) ==
  g.rtx # HarqNone => rx[g.rtx].status = "CORRUPTED" /\ Since(g.rtx) = n

\* It comes when the turn of its process comes round again.
GrantsOK ==
  /\ \A g \in Grant : /\ GrantPkt(g) \in toUeSent => GrantOK(g, NumProc - 2)
                      /\ GrantPkt(g) \in toUe => GrantOK(g, NumProc - 1)
  /\ grant # NoGrant =>
       GrantOK(grant, IF "ue" \in ticked THEN NumProc - 1 ELSE NumProc)

\* Before the first transmission a grant answers a RAC request, whose answer
\* has triggered a BSR: the first grant is not wasted.
FirstAccessOK ==
  ~firstTx =>
    /\ racPending =>
         bsrTriggered \/ RacPkt \in (IF "enb" \in ticked THEN toUeSent ELSE toUe)
    /\ \A g \in Grant :
         /\ GrantPkt(g) \in toUeSent => bsrTriggered \/ RacPkt \in toUe
         /\ GrantPkt(g) \in toUe => bsrTriggered
    /\ grant # NoGrant => bsrTriggered

Inv ==
  TypeOK /\ NoRuntimeError /\ UnitsOK /\ ExchangesOK /\ CountersOK /\ GrantsOK
  /\ FirstAccessOK

----------------------------------------------------------------------------
(* What a comment of the code says, and the code does not do.              *)

\* "check if at least one codeword buffer is available for reception"
\* (LteSchedulerEnbUl.cc:30): new data is granted only for a process that has
\* a free unit, so the UE, when it uses the grant, has nothing to retransmit.
NewDataFindsFreeProcess ==
  ticked = {} /\ grant # NoGrant /\ grant.new => ~IsReady(tx, UsedHarq)

----------------------------------------------------------------------------
(* Liveness.                                                               *)

\* A process of the UE is always freed again: its PDU is settled.
EveryProcessIsFreedAgain ==
  \A a \in Acid : (Status(tx, a) # "EMPTY") ~> (Status(tx, a) = "EMPTY")

\* A UE with data to send gets to send: the random access procedure starts
\* again whenever its request, or the grant, came to nothing.
BacklogIsServed == \A n \in 1 .. MaxLoad : (sdus = n) ~> (sdus # n)
============================================================================
