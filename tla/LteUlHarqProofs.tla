-------------------------- MODULE LteUlHarqProofs --------------------------
(* Inv of LteUlHarq is an inductive invariant, for any number of processes *)
(* that the round trip allows, any number of retransmissions and any       *)
(* length of the evaluation; the safety properties of LteUlHarq follow.    *)
EXTENDS LteUlHarq, LteHarqProofs, FiniteSetTheorems

----------------------------------------------------------------------------
(* Processes, time and packets.                                            *)

\* The process numbers go round.
LEMMA NextProcess ==
  ASSUME NEW a \in Acid
  PROVE  /\ (a + 1) % NumProc = IF a = NumProc - 1 THEN 0 ELSE a + 1
         /\ (a + 2) % NumProc = IF a + 2 >= NumProc THEN a + 2 - NumProc ELSE a + 2
         /\ (a + 1) % NumProc \in Acid /\ (a + 2) % NumProc \in Acid
         /\ (NumProc - 2) % NumProc = NumProc - 2
         /\ NumProc - 2 \in Acid /\ (NumProc - 1) % NumProc = NumProc - 1
         /\ 0 \in Acid
<1>1. NumProc \in Nat /\ NumProc >= 4 /\ a \in 0 .. NumProc - 1
  BY NumProcAssumption, RoundTripAssumption, FbIntervalAssumption DEF Acid
<1> QED BY <1>1 DEF Acid

\* How long ago a process was used dates it: two processes differ in it, and
\* the process whose turn it is has waited for a whole round.
LEMMA SinceFacts ==
  ASSUME currentHarq \in Acid, NEW a \in Acid
  PROVE  /\ Since(a) \in 0 .. NumProc
         /\ "ue" \in ticked => Since(a) # NumProc
         /\ "ue" \notin ticked => Since(a) # 0 /\ Since(currentHarq) = NumProc
         /\ "ue" \in ticked => Since(currentHarq) = NumProc - 1
         /\ \A b \in Acid : Since(a) = Since(b) => a = b
<1>1. NumProc \in Nat /\ NumProc >= 4
  BY NumProcAssumption, RoundTripAssumption, FbIntervalAssumption
<1> QED BY <1>1 DEF Since, Acid

\* Nothing but the tick of the UE and the end of a TTI dates processes anew.
LEMMA SinceKept ==
  ASSUME UNCHANGED currentHarq, "ue" \in ticked' <=> "ue" \in ticked, NEW a
  PROVE  Since(a)' = Since(a)
  BY DEF Since

\* In the tick of the UE process u has its turn.
LEMMA SinceTurn ==
  ASSUME currentHarq \in Acid, "ue" \notin ticked, "ue" \in ticked',
         NEW u \in Acid, currentHarq' = (u + 1) % NumProc
  PROVE  /\ Since(u)' = 0
         /\ u = currentHarq => \A a \in Acid : a # u => Since(a)' = Since(a)
         /\ currentHarq' \in Acid
<1>1. NumProc \in Nat /\ NumProc >= 4
  BY NumProcAssumption, RoundTripAssumption, FbIntervalAssumption
<1>2. currentHarq' = IF u = NumProc - 1 THEN 0 ELSE u + 1
  BY NextProcess
<1> QED BY <1>1, <1>2 DEF Since, Acid

\* A TTI later everything is one TTI older.
LEMMA SinceNextTti ==
  ASSUME currentHarq \in Acid, UNCHANGED currentHarq,
         "ue" \in ticked, "ue" \notin ticked', NEW a \in Acid
  PROVE  Since(a)' = Since(a) + 1
<1>1. NumProc \in Nat /\ NumProc >= 4
  BY NumProcAssumption, RoundTripAssumption, FbIntervalAssumption
<1> QED BY <1>1 DEF Since, Acid

\* The kinds of packets are told apart, and say what they carry.
LEMMA ToEnbPackets ==
  /\ \A f : DataPkt(f) # RacPkt
  /\ \A f, g : DataPkt(f) = DataPkt(g) => f = g
  /\ \A f \in DataFrame : DataPkt(f) \in ToEnbFrame
  /\ RacPkt \in ToEnbFrame
  /\ \A m \in ToEnbFrame :
       /\ m.type = "DATAPKT" => m.frame \in DataFrame /\ m = DataPkt(m.frame)
       /\ m.type = "RACPKT" => m = RacPkt
<1>1. \A f, g : DataPkt(f) = DataPkt(g) => f = g
  BY DEF DataPkt
<1>2. \A f : DataPkt(f).type = "DATAPKT" /\ DataPkt(f).frame = f
  BY DEF DataPkt
<1>3. RacPkt.type = "RACPKT"
  BY DEF RacPkt
<1>4. \A f : DataPkt(f) # RacPkt
  BY <1>2, <1>3
<1> QED BY <1>1, <1>2, <1>3, <1>4 DEF ToEnbFrame

LEMMA ToUePackets ==
  /\ \A fb, g : HarqPkt(fb) # RacPkt /\ GrantPkt(g) # RacPkt
                /\ HarqPkt(fb) # GrantPkt(g)
  /\ \A f, g : HarqPkt(f) = HarqPkt(g) => f = g
  /\ \A f, g : GrantPkt(f) = GrantPkt(g) => f = g
  /\ \A fb \in Feedback : HarqPkt(fb) \in ToUeFrame
  /\ \A g \in Grant : GrantPkt(g) \in ToUeFrame
  /\ RacPkt \in ToUeFrame
  /\ \A m \in ToUeFrame :
       /\ m.type = "HARQPKT" => m.feedback \in Feedback /\ m = HarqPkt(m.feedback)
       /\ m.type = "GRANTPKT" => m.grant \in Grant /\ m = GrantPkt(m.grant)
       /\ m.type = "RACPKT" => m = RacPkt
<1>1. \A f, g : HarqPkt(f) = HarqPkt(g) => f = g
  BY DEF HarqPkt
<1>2. \A f, g : GrantPkt(f) = GrantPkt(g) => f = g
  BY DEF GrantPkt
<1>3. \A f : HarqPkt(f).type = "HARQPKT" /\ HarqPkt(f).feedback = f
  BY DEF HarqPkt
<1>4. \A g : GrantPkt(g).type = "GRANTPKT" /\ GrantPkt(g).grant = g
  BY DEF GrantPkt
<1>5. RacPkt.type = "RACPKT"
  BY DEF RacPkt
<1>6. \A fb, g : HarqPkt(fb) # RacPkt /\ GrantPkt(g) # RacPkt
                 /\ HarqPkt(fb) # GrantPkt(g)
  BY <1>3, <1>4, <1>5
<1> QED BY <1>1, <1>2, <1>3, <1>4, <1>5, <1>6 DEF ToUeFrame

\* What the type invariant says, in the form the proofs use.
LEMMA TypeFacts ==
  ASSUME TypeOK
  PROVE  /\ tx.unit \in [Acid -> TxUnit]
         /\ \A a \in Acid : /\ tx.unit[a].status \in TxStatus
                            /\ tx.unit[a].pdu \in Pdu \cup {NoPdu}
                            /\ tx.unit[a].transmissions \in Nat
         /\ rx \in [Acid -> RxProcess]
         /\ \A a \in Acid : /\ rx[a].status \in RxStatus
                            /\ rx[a].pdu \in Pdu \cup {NoPdu}
                            /\ rx[a].result \in BOOLEAN
                            /\ rx[a].age \in 0 .. FbInterval
                            /\ rx[a].transmissions \in Nat
         /\ \A f \in DataFrame :
              f.acid \in Acid /\ f.pdu \in Pdu /\ f.ndi \in BOOLEAN
         /\ \A fb \in Feedback :
              fb.acid \in Acid /\ fb.pdu \in Pdu /\ fb.ack \in BOOLEAN
         /\ \A g \in Grant : g.rtx \in Acid \cup {HarqNone} /\ g.new \in BOOLEAN
         /\ currentHarq \in Acid /\ harqStatus \in Acid \cup {HarqNone}
         /\ deliveries \in [Acid -> Nat] /\ ticked \subseteq Node
  BY DEF TypeOK, TxBuffer, TxUnit, RxProcess, DataFrame, Feedback, Grant

\* -1 is no process number.
LEMMA NoneIsNoProcess == HarqNone \notin Acid
  BY NumProcAssumption DEF HarqNone, Acid

\* The numbers the proofs compare.
LEMMA Numbers ==
  /\ NumProc \in Nat /\ NumProc >= 4 /\ NumProc >= FbInterval + 3
  /\ FbInterval \in Nat /\ FbInterval >= 1
  /\ MaxHarqRtx \in Nat
  BY NumProcAssumption, RoundTripAssumption, FbIntervalAssumption,
     MaxHarqRtxAssumption

\* The invariant holds when the simulation starts: nothing is held, nothing
\* is on the air and nothing was granted.
LEMMA InitInv == Init => Inv
<1> SUFFICES ASSUME Init PROVE Inv
  OBVIOUS
<1>1. /\ tx.unit = [a \in Acid |-> ResetUnit] /\ tx.selectedAcid = HarqNone
      /\ tx.numEmptyUnits = [a \in Acid |-> MaxCodewords]
      /\ tx.numSelected = [a \in Acid |-> 0]
  BY DEF Init, InitTxBuffer
<1>2. tx \in TxBuffer
  <2>1. ResetUnit \in TxUnit /\ MaxCodewords \in Int
    BY DEF ResetUnit, TxUnit, TxStatus, MaxCodewords
  <2> QED BY <2>1 DEF Init, InitTxBuffer, TxBuffer
<1>3. rx \in [Acid -> RxProcess] /\ \A a \in Acid : rx[a] = ResetCodeword
  BY ResetCodewordType DEF Init, InitRxBuffer
<1>4. TypeOK
  <2>1. /\ 0 \in Acid /\ 0 \in 0 .. MaxLoad /\ 0 \in 0 .. RaRespWinStart
        /\ deliveries \in [Acid -> Nat]
    BY Numbers, MaxLoadAssumption, RaRespWinStartAssumption DEF Init, Acid
  <2> QED BY <1>2, <1>3, <2>1 DEF Init, TypeOK
<1>5. NoRuntimeError
  BY DEF Init, NoRuntimeError
<1>6. \A a \in Acid : /\ Status(tx, a) = "EMPTY" /\ tx.unit[a].pdu = NoPdu
                      /\ ~IsReady(tx, a)
  BY <1>1 DEF Status, IsReady, ResetUnit
<1>7. UnitsOK
  BY <1>1, <1>6 DEF UnitsOK, CountersMatchUnits
<1>8. ExchangesOK
  <2>1. \A a \in Acid : /\ rx[a].status = "EMPTY" /\ rx[a].pdu = NoPdu
                        /\ deliveries[a] = 0
    BY <1>3 DEF Init, ResetCodeword
  <2> QED BY <1>3, <1>6, <2>1 DEF Init, ExchangesOK
<1>9. CountersOK
  BY <1>6 DEF Init, CountersOK
<1>10. GrantsOK
  BY DEF Init, GrantsOK
<1>11. FirstAccessOK
  BY DEF Init, FirstAccessOK
<1> QED BY <1>4, <1>5, <1>7, <1>8, <1>9, <1>10, <1>11 DEF Inv

\* A step that changes no process, and no data frame or feedback underway.
LEMMA ExchangesKept ==
  ASSUME ExchangesOK, UNCHANGED <<tx, rx, ticked, deliveries, toEnbSent>>,
         \A a : Since(a)' = Since(a),
         \A f : DataPkt(f) \in toEnb' <=> DataPkt(f) \in toEnb,
         \A fb : /\ HarqPkt(fb) \in toUeSent' <=> HarqPkt(fb) \in toUeSent
                 /\ HarqPkt(fb) \in toUe' <=> HarqPkt(fb) \in toUe
  PROVE  ExchangesOK'
<1>1. \A a, p, n : WaitsFor(a, p, n)' <=> WaitsFor(a, p, n)
  BY DEF WaitsFor
<1>2. \A a, s : RxHolds(a, s)' <=> RxHolds(a, s)
  BY DEF RxHolds
<1>3. \A f, n : FrameOK(f, n)' <=> FrameOK(f, n)
  BY <1>1 DEF FrameOK
<1>4. \A a : EvaluationOK(a)' <=> EvaluationOK(a)
  <2> SUFFICES ASSUME NEW a PROVE EvaluationOK(a)' <=> EvaluationOK(a)
    OBVIOUS
  <2>1. WaitsFor(a, rx[a].pdu, rx[a].age + IF "enb" \in ticked THEN 1 ELSE 2)'
          <=> WaitsFor(a, rx[a].pdu, rx[a].age + IF "enb" \in ticked THEN 1 ELSE 2)
    BY <1>1
  <2> QED BY <1>2, <2>1 DEF EvaluationOK
<1>5. \A fb, n : FeedbackOK(fb, n)' <=> FeedbackOK(fb, n)
  BY <1>1, <1>2 DEF FeedbackOK
<1>6. \A a : DataUnderway(a)' <=> DataUnderway(a)
  BY DEF DataUnderway
<1>7. \A a : FeedbackUnderway(a)' <=> FeedbackUnderway(a)
  BY DEF FeedbackUnderway
<1>8. \A f \in DataFrame : /\ DataPkt(f) \in toEnbSent' => FrameOK(f, 0)'
                           /\ DataPkt(f) \in toEnb' => FrameOK(f, 1)'
  BY <1>3 DEF ExchangesOK
<1>9. \A fb \in Feedback :
        /\ HarqPkt(fb) \in toUeSent' => FeedbackOK(fb, FbInterval + 1)'
        /\ HarqPkt(fb) \in toUe' => FeedbackOK(fb, FbInterval + 2)'
  BY <1>5 DEF ExchangesOK
<1> QED BY <1>2, <1>4, <1>6, <1>7, <1>8, <1>9 DEF ExchangesOK

\* SDUs that arrive, and stuttering, touch nothing under way.
LEMMA QuietStep ==
  ASSUME Inv, TypeOK',
         UNCHANGED <<tx, currentHarq, firstTx, grant, bsrTriggered, enbVars,
                     toEnbSent, toEnb, toUeSent, toUe, ticked, err, deliveries>>
  PROVE  Inv'
<1> USE DEF Inv, enbVars
<1>1. \A a : Since(a)' = Since(a)
  BY SinceKept
<1>2. NoRuntimeError' /\ UnitsOK'
  BY DEF NoRuntimeError, UnitsOK
<1>3. ExchangesOK'
  BY <1>1, ExchangesKept
<1>4. CountersOK'
  BY DEF CountersOK, DataUnderway
<1>5. GrantsOK' /\ FirstAccessOK'
  BY <1>1 DEF GrantsOK, GrantOK, FirstAccessOK
<1> QED BY <1>2, <1>3, <1>4, <1>5

LEMMA SduArrivesInv == ASSUME Inv, SduArrives PROVE Inv'
<1>1. Cardinality(BusyProcesses) \in Nat
  <2>1. IsFiniteSet(Acid)
    BY NumProcAssumption, FS_Interval DEF Acid
  <2>2. BusyProcesses \subseteq Acid
    BY DEF BusyProcesses
  <2> QED BY <2>1, <2>2, FS_Subset, FS_CardinalityType
<1>2. TypeOK'
  BY <1>1, MaxLoadAssumption DEF Inv, TypeOK, SduArrives, enbVars
<1> QED BY <1>2, QuietStep DEF SduArrives

LEMMA StutterInv == ASSUME Inv, UNCHANGED vars PROVE Inv'
<1>1. TypeOK'
  BY DEF Inv, TypeOK, vars, ueVars, enbVars
<1> QED BY <1>1, QuietStep DEF vars, ueVars

----------------------------------------------------------------------------
(* The tick of the UE.                                                     *)

\* Process u has its turn in this tick of the UE: the one its counter is on,
\* unless the first grant sets the counter.
Turn(u) ==
  /\ UeTick
  /\ u \in Acid
  /\ firstTx => u = currentHarq
  /\ currentHarq' = (u + 1) % NumProc

\* A process whose turn it is waits for nothing, and nothing is on its way to
\* it; what is under way elsewhere keeps its date.
LEMMA TurnFacts ==
  ASSUME Inv, NEW u, Turn(u)
  PROVE  /\ Status(tx, u) # "WAITING"
         /\ rx[u].status # "EVALUATING"
         /\ Since(u)' = 0
         /\ \A a \in Acid :
              \/ Status(tx, a) = "WAITING"
              \/ rx[a].status = "CORRUPTED" /\ Since(a) # NumProc
              => a # u /\ Since(a)' = Since(a)
         /\ \A f \in DataFrame : DataPkt(f) \notin toEnbSent
<1> USE DEF Inv
<1>1. currentHarq \in Acid /\ "ue" \notin ticked /\ "ue" \in ticked' /\ u \in Acid
  BY DEF Turn, UeTick, TypeOK
<1>2. \A a \in Acid : Status(tx, a) = "WAITING" => Since(a) # NumProc
  <2> SUFFICES ASSUME NEW a \in Acid, Status(tx, a) = "WAITING", Since(a) = NumProc
               PROVE  FALSE
    OBVIOUS
  <2>1. ~DataUnderway(a)
    BY Numbers DEF ExchangesOK, DataUnderway, FrameOK, WaitsFor
  <2>2. rx[a].status # "EVALUATING"
    BY Numbers, TypeFacts DEF ExchangesOK, EvaluationOK, WaitsFor
  <2>3. ~FeedbackUnderway(a)
    BY Numbers DEF ExchangesOK, FeedbackUnderway, FeedbackOK, WaitsFor
  <2> QED BY <2>1, <2>2, <2>3 DEF ExchangesOK
<1>3. ~firstTx => \A a \in Acid : /\ Status(tx, a) = "EMPTY"
                                  /\ rx[a].status = "EMPTY"
  BY DEF CountersOK, ExchangesOK
<1>4. Since(currentHarq) = NumProc
  BY <1>1, SinceFacts
<1>5. Status(tx, u) # "WAITING"
  BY <1>1, <1>2, <1>3, <1>4 DEF Turn
<1>6. rx[u].status # "EVALUATING"
  BY <1>1, <1>5 DEF ExchangesOK, EvaluationOK, WaitsFor
<1>7. /\ Since(u)' = 0
      /\ u = currentHarq => \A a \in Acid : a # u => Since(a)' = Since(a)
  BY <1>1, SinceTurn DEF Turn
<1>8. ASSUME NEW a \in Acid,
             \/ Status(tx, a) = "WAITING"
             \/ rx[a].status = "CORRUPTED" /\ Since(a) # NumProc
      PROVE  a # u /\ Since(a)' = Since(a)
  <2>1. firstTx /\ a # u
    BY <1>3, <1>4, <1>5, <1>8 DEF Turn
  <2> QED BY <1>7, <2>1 DEF Turn
<1>9. ASSUME NEW f \in DataFrame PROVE DataPkt(f) \notin toEnbSent
  <2>1. f.acid \in Acid
    BY TypeFacts
  <2>2. Since(f.acid) # 0
    BY <1>1, <2>1, SinceFacts
  <2> QED BY <2>2 DEF ExchangesOK, FrameOK, WaitsFor
<1> QED BY <1>5, <1>6, <1>7, <1>8, <1>9

\* The turn of a process leaves the eNodeB its counter, one behind that of
\* the UE when both have ticked.
LEMMA TurnKeepsCounters ==
  ASSUME Inv, NEW u, Turn(u), toEnbSent \subseteq toEnbSent', firstTx => firstTx',
         firstTx' => firstTx \/ DataUnderway(NumProc - 2)',
         ~firstTx' => UNCHANGED tx
  PROVE  CountersOK'
<1> USE DEF Inv
<1>1. /\ currentHarq' = (u + 1) % NumProc /\ u \in Acid
      /\ firstTx => u = currentHarq
      /\ "ue" \notin ticked /\ ticked' = ticked \cup {"ue"} /\ ticked \subseteq Node
      /\ UNCHANGED <<enbVars, toEnb>>
  BY TypeFacts DEF Turn, UeTick
<1>2. ~firstTx' => \A a \in Acid : Status(tx, a)' = "EMPTY"
  BY DEF CountersOK
<1>3. (rxCreated => firstTx)'
  BY <1>1 DEF CountersOK, enbVars
<1>4. (~rxCreated)' =>
        /\ harqStatus' = HarqNone
        /\ \A f \in DataFrame : DataPkt(f) \in toEnb' => f.acid = NumProc - 2
        /\ firstTx' => DataUnderway(NumProc - 2)'
  BY <1>1 DEF CountersOK, enbVars, DataUnderway
<1>5. ASSUME rxCreated, harqStatus = HarqNone
      PROVE  ticked' = {"ue"} /\ currentHarq' = 1
  <2>1. firstTx /\ ticked = {} /\ currentHarq = 0
    BY <1>1, <1>5 DEF CountersOK, Node
  <2> QED BY <1>1, <2>1, NextProcess, Numbers
<1>6. ASSUME harqStatus # HarqNone
      PROVE  currentHarq' = IF "enb" \in ticked' THEN (harqStatus + 1) % NumProc
                            ELSE (harqStatus + 2) % NumProc
  <2>1. firstTx /\ u = currentHarq /\ harqStatus \in Acid
    BY <1>1, <1>6, TypeFacts DEF CountersOK
  <2>2. CASE ticked = {"enb"}
    <3>1. currentHarq = harqStatus
      BY <1>6, <2>2 DEF CountersOK
    <3> QED BY <1>1, <2>1, <2>2, <3>1
  <2>3. CASE ticked = {}
    <3>1. currentHarq = (harqStatus + 1) % NumProc
      BY <1>6, <2>3 DEF CountersOK
    <3> QED BY <1>1, <2>1, <2>3, <3>1, NextProcess, Numbers DEF Acid
  <2> QED BY <1>1, <2>2, <2>3 DEF Node
<1>7. ticked' = IF "enb" \in ticked' THEN Node ELSE {"ue"}
  BY <1>1 DEF Node
<1>8. ticked' # {"enb"} /\ Node # {"ue"} /\ Node # {"enb"}
  BY <1>1 DEF Node
<1>9. UNCHANGED <<rxCreated, harqStatus>>
  BY <1>1 DEF enbVars
<1>10. (rxCreated /\ harqStatus = HarqNone)' =>
         /\ ticked' # {"enb"}
         /\ currentHarq' = IF ticked' = {"ue"} THEN 1 ELSE 0
  BY <1>5, <1>8, <1>9
<1>11. harqStatus' # HarqNone =>
         currentHarq' = CASE ticked' = {"enb"} -> harqStatus'
                          [] ticked' = {"ue"} -> (harqStatus' + 2) % NumProc
                          [] OTHER -> (harqStatus' + 1) % NumProc
  BY <1>6, <1>7, <1>8, <1>9
<1> QED BY <1>2, <1>3, <1>4, <1>10, <1>11 DEF CountersOK

\* The grants on their way are for processes whose turn is still to come.
LEMMA TurnKeepsGrants ==
  ASSUME Inv, NEW u, Turn(u), grant' = NoGrant
  PROVE  GrantsOK'
<1>1. UNCHANGED <<rx, toUe, toUeSent>>
  BY DEF Turn, UeTick, enbVars
<1>2. ASSUME NEW g \in Grant, NEW n \in {NumProc - 2, NumProc - 1}, GrantOK(g, n)
      PROVE  GrantOK(g, n)'
  <2>1. CASE g.rtx = HarqNone
    BY <2>1 DEF GrantOK
  <2>2. CASE g.rtx # HarqNone
    <3>1. g.rtx \in Acid /\ n # NumProc
      BY <2>2, TypeFacts, Numbers DEF Inv
    <3> QED BY <1>1, <1>2, <2>2, <3>1, TurnFacts DEF GrantOK
  <2> QED BY <2>1, <2>2
<1> QED BY <1>1, <1>2 DEF Inv, GrantsOK

\* A turn in which no PDU is sent changes no exchange.
LEMMA SilentTurn ==
  ASSUME Inv, NEW u, Turn(u), UNCHANGED tx,
         \A f : DataPkt(f) \in toEnbSent' <=> DataPkt(f) \in toEnbSent
  PROVE  UnitsOK' /\ ExchangesOK'
<1> USE DEF Inv
<1>1. /\ UNCHANGED <<rx, toEnb, toUe, toUeSent, deliveries>>
      /\ "enb" \in ticked' <=> "enb" \in ticked
  BY DEF Turn, UeTick, enbVars
<1>2. UnitsOK'
  BY DEF UnitsOK
<1>3. ASSUME NEW a \in Acid, NEW p, NEW n, WaitsFor(a, p, n)
      PROVE  WaitsFor(a, p, n)'
  BY <1>3, TurnFacts DEF WaitsFor
<1>4. \A a \in Acid : \A s : RxHolds(a, s)' <=> RxHolds(a, s)
  BY <1>1 DEF RxHolds
<1>5. \A f \in DataFrame : \A n : FrameOK(f, n) => FrameOK(f, n)'
  BY <1>1, <1>3, TypeFacts DEF FrameOK
<1>6. \A a \in Acid : EvaluationOK(a) => EvaluationOK(a)'
  BY <1>1, <1>3, <1>4 DEF EvaluationOK
<1>7. \A fb \in Feedback : \A n : FeedbackOK(fb, n) => FeedbackOK(fb, n)'
  BY <1>1, <1>3, <1>4, TypeFacts DEF FeedbackOK
<1> QED BY <1>1, <1>2, <1>4, <1>5, <1>6, <1>7
        DEF ExchangesOK, DataUnderway, FeedbackUnderway

\* In its turn process u sends p, which the eNodeB has n - 1 times.
Sends(u, p, n, new) ==
  LET f == [acid |-> u, pdu |-> p, ndi |-> new] IN
  /\ Turn(u)
  /\ p \in Pdu /\ p.acid = u
  /\ n \in 1 .. MaxHarqRtx + 1
  /\ new \in BOOLEAN /\ (new <=> n = 1)
  /\ tx' \in TxBuffer /\ CountersMatchUnits(tx') /\ tx'.selectedAcid = HarqNone
  /\ tx'.unit = [tx.unit EXCEPT ![u] = [status |-> "WAITING", pdu |-> p,
                                        transmissions |-> n]]
  /\ toEnbSent' = toEnbSent \cup {DataPkt(f)}
  /\ rx[u].status = IF new THEN "EMPTY" ELSE "CORRUPTED"
  /\ rx[u].transmissions + 1 = n
  /\ deliveries[u] = 0

\* A turn in which a PDU is sent begins an exchange, and changes no other.
LEMMA SendingTurn ==
  ASSUME Inv, NEW u, NEW p, NEW n, NEW new, Sends(u, p, n, new)
  PROVE  UnitsOK' /\ ExchangesOK'
<1> USE DEF Inv
<1> DEFINE f == [acid |-> u, pdu |-> p, ndi |-> new]
<1>1. /\ Turn(u) /\ u \in Acid
      /\ UNCHANGED <<rx, toEnb, toUe, toUeSent, deliveries>>
      /\ "enb" \in ticked' <=> "enb" \in ticked
      /\ toEnbSent' = toEnbSent \cup {DataPkt(f)}
  BY DEF Sends, Turn, UeTick, enbVars
<1>2. /\ Status(tx', u) = "WAITING" /\ tx'.unit[u].pdu = p
      /\ tx'.unit[u].transmissions = n
      /\ \A a \in Acid : a # u => tx'.unit[a] = tx.unit[a]
      /\ \A a \in Acid : a # u => Status(tx', a) = Status(tx, a)
  BY <1>1, TypeFacts DEF Sends, Status
<1>3. UnitsOK'
  <2>1. CountersMatchUnits(tx)' /\ tx'.selectedAcid = HarqNone
    BY DEF Sends
  <2>2. ASSUME NEW a \in Acid
        PROVE  /\ Status(tx, a)' = "EMPTY" <=> tx'.unit[a].pdu = NoPdu
               /\ Status(tx, a)' # "EMPTY" =>
                    /\ tx'.unit[a].pdu.acid = a
                    /\ tx'.unit[a].transmissions \in 1 .. MaxHarqRtx + 1
               /\ IsReady(tx, a)' => tx'.unit[a].transmissions # MaxHarqRtx + 1
    <3>1. CASE a = u
      BY <1>2, <3>1, NoPduAssumption DEF Sends, IsReady
    <3>2. CASE a # u
      BY <1>2, <3>2 DEF UnitsOK, IsReady
    <3> QED BY <3>1, <3>2
  <2> QED BY <2>1, <2>2 DEF UnitsOK
<1>4. Status(tx, u) # "WAITING"
  BY <1>1, TurnFacts
<1>5. ASSUME NEW a \in Acid, NEW q, NEW k, WaitsFor(a, q, k)
      PROVE  a # u /\ WaitsFor(a, q, k)'
  BY <1>1, <1>2, <1>5, TurnFacts DEF WaitsFor
<1>6. \A a \in Acid : \A s : a # u => (RxHolds(a, s)' <=> RxHolds(a, s))
  BY <1>1, <1>2 DEF RxHolds
<1>7. \A g \in DataFrame : \A k : FrameOK(g, k) => g.acid # u /\ FrameOK(g, k)'
  BY <1>1, <1>2, <1>5, TypeFacts DEF FrameOK
<1>8. \A a \in Acid : EvaluationOK(a) => a # u /\ EvaluationOK(a)'
  BY <1>1, <1>5, <1>6 DEF EvaluationOK
<1>9. ASSUME NEW fb \in Feedback, NEW k, FeedbackOK(fb, k)
      PROVE  fb.acid # u /\ FeedbackOK(fb, k)'
  <2>1. fb.acid # u /\ fb.acid \in Acid /\ WaitsFor(fb.acid, fb.pdu, k)'
    BY <1>5, <1>9, TypeFacts DEF FeedbackOK
  <2>2. tx'.unit[fb.acid] = tx.unit[fb.acid]
    BY <1>2, <2>1
  <2> QED BY <1>1, <1>6, <1>9, <2>1, <2>2 DEF FeedbackOK
<1>10. FrameOK(f, 0)'
  <2>1. WaitsFor(u, p, 0)'
    BY <1>1, <1>2, TurnFacts DEF WaitsFor
  <2>2. f.acid = u /\ f.pdu = p /\ f.ndi = new
    OBVIOUS
  <2> HIDE DEF f
  <2>3. (f.ndi <=> tx'.unit[u].transmissions = 1)
    BY <1>2, <2>2 DEF Sends
  <2>4. rx'[u].status = IF f.ndi THEN "EMPTY" ELSE "CORRUPTED"
    BY <1>1, <2>2 DEF Sends
  <2>5. rx'[u].transmissions + 1 = tx'.unit[u].transmissions /\ deliveries'[u] = 0
    BY <1>1, <1>2 DEF Sends
  <2> QED BY <2>1, <2>2, <2>3, <2>4, <2>5 DEF FrameOK
<1> HIDE DEF f
<1>11. \A g : DataPkt(g) \in toEnbSent' => DataPkt(g) \in toEnbSent \/ g = f
  BY <1>1, ToEnbPackets DEF f
<1>12. \A g \in DataFrame :
         /\ DataPkt(g) \in toEnbSent' => FrameOK(g, 0)'
         /\ DataPkt(g) \in toEnb' => FrameOK(g, 1)'
  BY <1>1, <1>7, <1>10, <1>11 DEF ExchangesOK
<1>13. \A a \in Acid : rx'[a].status = "EVALUATING" => EvaluationOK(a)'
  BY <1>1, <1>8 DEF ExchangesOK
<1>14. \A fb \in Feedback :
         /\ HarqPkt(fb) \in toUeSent' => FeedbackOK(fb, FbInterval + 1)'
         /\ HarqPkt(fb) \in toUe' => FeedbackOK(fb, FbInterval + 2)'
  BY <1>1, <1>9 DEF ExchangesOK
<1>15. ASSUME NEW a \in Acid
       PROVE  /\ Status(tx, a)' = "WAITING" =>
                   \/ DataUnderway(a)' \/ rx'[a].status = "EVALUATING"
                   \/ FeedbackUnderway(a)'
              /\ IsReady(tx, a)' =>
                   RxHolds(a, "CORRUPTED")' /\ deliveries'[a] = 0
              /\ Status(tx, a)' = "EMPTY" =>
                   rx'[a].status = "EMPTY" /\ deliveries'[a] = 0
              /\ rx'[a].status = "EMPTY" => rx'[a] = ResetCodeword
              /\ rx'[a].status # "CORRECT"
              /\ rx'[a].pdu # NoPdu => rx'[a].pdu.acid = a
  <2>1. DataUnderway(u)'
    <3>1. f \in DataFrame /\ f.acid = u
      BY <1>1 DEF Sends, DataFrame, f
    <3> QED BY <1>1, <3>1 DEF DataUnderway, f
  <2>2. DataUnderway(a) => DataUnderway(a)'
    BY <1>1 DEF DataUnderway
  <2>3. FeedbackUnderway(a)' <=> FeedbackUnderway(a)
    BY <1>1 DEF FeedbackUnderway
  <2>4. CASE a = u
    BY <1>1, <1>2, <2>1, <2>4 DEF ExchangesOK, IsReady
  <2>5. CASE a # u
    BY <1>1, <1>2, <1>6, <2>2, <2>3, <2>5 DEF ExchangesOK, IsReady
  <2> QED BY <2>4, <2>5
<1>16. ExchangesOK'
  <2> HIDE DEF Inv
  <2> QED BY <1>12, <1>13, <1>14, <1>15 DEF ExchangesOK
<1> QED BY <1>3, <1>16

\* A tick with no grant.
LEMMA ChecksRacInv == ASSUME Inv, UeTickChecksRac PROVE Inv'
<1> USE DEF Inv
<1> DEFINE asks == raRespTimer = 0 /\ ~racRequested /\ sdus > 0
<1>1. Turn(currentHarq)
  BY TypeFacts DEF Turn, UeTickChecksRac
<1>2. /\ toEnbSent' = IF asks THEN toEnbSent \cup {RacPkt} ELSE toEnbSent
      /\ raRespTimer' = IF asks THEN RaRespWinStart
                        ELSE IF raRespTimer > 0 THEN raRespTimer - 1 ELSE 0
      /\ racRequested' = (asks \/ (raRespTimer > 0 /\ racRequested))
      /\ grant = NoGrant /\ grant' = NoGrant /\ currentHarq' \in Acid
      /\ ticked' = ticked \cup {"ue"}
      /\ UNCHANGED <<tx, firstTx, sdus, bsrTriggered, err, enbVars, toEnb, toUeSent,
                     toUe, deliveries>>
  BY NextProcess, TypeFacts DEF UeTickChecksRac, UeTick
<1>3. TypeOK'
  <2>1. toEnbSent' \subseteq ToEnbFrame
    BY <1>2, ToEnbPackets DEF TypeOK
  <2>2. raRespTimer' \in 0 .. RaRespWinStart
    BY <1>2, RaRespWinStartAssumption DEF TypeOK
  <2>3. racRequested' \in BOOLEAN
    BY <1>2 DEF TypeOK
  <2> QED BY <1>2, <2>1, <2>2, <2>3 DEF TypeOK, enbVars, Node
<1>4. NoRuntimeError'
  BY <1>2 DEF NoRuntimeError
<1>5. \A f : DataPkt(f) \in toEnbSent' <=> DataPkt(f) \in toEnbSent
  BY <1>2, ToEnbPackets
<1>6. UnitsOK' /\ ExchangesOK'
  <2> HIDE DEF Inv
  <2> QED BY <1>1, <1>2, <1>5, SilentTurn
<1>7. CountersOK' /\ GrantsOK'
  <2> HIDE DEF Inv
  <2> QED BY <1>1, <1>2, TurnKeepsCounters, TurnKeepsGrants
<1>8. FirstAccessOK'
  BY <1>2 DEF FirstAccessOK, enbVars
<1> QED BY <1>3, <1>4, <1>6, <1>7, <1>8

\* With no unit selected sendSelectedDown sends nothing.
LEMMA NothingSelected ==
  ASSUME NEW buf \in TxBuffer, buf.selectedAcid = HarqNone
  PROVE  SendSelectedDown(buf) = buf /\ FramesDown(buf) = {}
<1>1. \A a \in Acid : ~IsExtracted(buf, a)
  BY NoneIsNoProcess DEF IsExtracted
<1>2. [a \in Acid |-> buf.unit[a]] = buf.unit
      /\ [a \in Acid |-> buf.numSelected[a]] = buf.numSelected
  BY DEF TxBuffer
<1>3. SendSelectedDown(buf) = [unit |-> buf.unit,
                               numEmptyUnits |-> buf.numEmptyUnits,
                               numSelected |-> buf.numSelected,
                               selectedAcid |-> HarqNone]
  BY <1>1, <1>2 DEF SendSelectedDown
<1>4. SendSelectedDown(buf) = buf
  BY <1>3 DEF TxBuffer
<1>5. FramesDown(buf) = {}
  BY <1>1 DEF FramesDown
<1> QED BY <1>4, <1>5

\* A tick that uses a grant is the turn of its process.
LEMMA GrantTurn ==
  ASSUME Inv, NEW filled, UseGrant(filled)
  PROVE  /\ Turn(UsedHarq)
         /\ firstTx' = TRUE /\ grant' = NoGrant /\ grant # NoGrant
         /\ ~firstTx => bsrTriggered /\ UsedHarq = NumProc - 2
         /\ currentHarq' \in Acid /\ ticked' = ticked \cup {"ue"}
         /\ UNCHANGED <<racRequested, raRespTimer, enbVars, toEnb, toUeSent, toUe,
                        deliveries>>
<1>1. currentHarq \in Acid
  BY TypeFacts DEF Inv
<1>2. /\ UsedHarq \in Acid /\ (firstTx => UsedHarq = currentHarq)
      /\ ~firstTx => UsedHarq = NumProc - 2
  BY <1>1, NextProcess DEF UsedHarq
<1>3. ~firstTx => bsrTriggered
  BY DEF UseGrant, Inv, FirstAccessOK
<1>4. Turn(UsedHarq)
  BY <1>2 DEF UseGrant, Turn
<1> QED BY <1>2, <1>3, <1>4, NextProcess DEF UseGrant, UeTick

\* A grant for which no PDU is made.
LEMMA WastesGrantInv == ASSUME Inv, UeTickWastesGrant PROVE Inv'
<1> USE DEF Inv
<1>1. UseGrant(tx) /\ ~bsrTriggered /\ UNCHANGED <<sdus, bsrTriggered, err>>
  BY DEF UeTickWastesGrant
<1>2. /\ Turn(UsedHarq) /\ firstTx /\ firstTx' = TRUE /\ grant' = NoGrant
      /\ currentHarq' \in Acid /\ ticked' = ticked \cup {"ue"}
      /\ UNCHANGED <<racRequested, raRespTimer, enbVars, toEnb, toUeSent, toUe,
                     deliveries>>
  <2> HIDE DEF Inv
  <2> QED BY <1>1, GrantTurn
<1>3. UNCHANGED <<tx, toEnbSent>>
  <2>1. tx \in TxBuffer /\ tx.selectedAcid = HarqNone
    BY DEF TypeOK, UnitsOK
  <2> QED BY <1>1, <2>1, NothingSelected DEF UseGrant
<1>4. TypeOK' /\ NoRuntimeError'
  BY <1>1, <1>2, <1>3 DEF TypeOK, NoRuntimeError, enbVars, Node
<1>5. UnitsOK' /\ ExchangesOK'
  <2> HIDE DEF Inv
  <2> QED BY <1>2, <1>3, SilentTurn
<1>6. CountersOK' /\ GrantsOK'
  <2> HIDE DEF Inv
  <2> QED BY <1>2, <1>3, TurnKeepsCounters, TurnKeepsGrants
<1>7. FirstAccessOK'
  BY <1>2 DEF FirstAccessOK
<1> QED BY <1>4, <1>5, <1>6, <1>7

\* What remains once a PDU is known to be sent.
LEMMA SendsInv ==
  ASSUME Inv, NEW filled, UseGrant(filled), NEW p, NEW n, NEW new,
         Sends(UsedHarq, p, n, new), err' = FALSE,
         sdus' \in 0 .. MaxLoad, bsrTriggered' \in BOOLEAN
  PROVE  Inv'
<1> DEFINE f == [acid |-> UsedHarq, pdu |-> p, ndi |-> new]
<1>1. /\ Turn(UsedHarq) /\ firstTx' = TRUE /\ grant' = NoGrant
      /\ ~firstTx => UsedHarq = NumProc - 2
      /\ currentHarq' \in Acid /\ ticked' = ticked \cup {"ue"}
      /\ UNCHANGED <<racRequested, raRespTimer, enbVars, toEnb, toUeSent, toUe,
                     deliveries>>
  BY GrantTurn
<1>2. f \in DataFrame /\ f.acid = UsedHarq
  BY <1>1 DEF Sends, Turn, DataFrame
<1>3. toEnbSent' = toEnbSent \cup {DataPkt(f)} /\ tx' \in TxBuffer
  BY DEF Sends
<1> HIDE DEF f
<1>4. TypeOK'
  <2>1. toEnbSent' \subseteq ToEnbFrame
    BY <1>2, <1>3, ToEnbPackets DEF Inv, TypeOK
  <2> QED BY <1>1, <1>3, <2>1 DEF Inv, TypeOK, enbVars, Node
<1>5. UnitsOK' /\ ExchangesOK'
  BY SendingTurn
<1>6. ~firstTx => DataUnderway(NumProc - 2)'
  BY <1>1, <1>2, <1>3 DEF DataUnderway
<1>7. CountersOK' /\ GrantsOK'
  BY <1>1, <1>3, <1>6, TurnKeepsCounters, TurnKeepsGrants
<1>8. NoRuntimeError' /\ FirstAccessOK'
  BY <1>1 DEF NoRuntimeError, FirstAccessOK
<1> QED BY <1>4, <1>5, <1>7, <1>8 DEF Inv

\* A PDU that is ready is sent again in the turn of its process.
LEMMA RetransmitsInv == ASSUME Inv, UeTickRetransmits PROVE Inv'
<1> USE DEF Inv
<1> DEFINE u == UsedHarq
           p == tx.unit[u].pdu
           n == tx.unit[u].transmissions + 1
           marked == MarkSelected(tx, u)
<1>1. /\ UseGrant(marked) /\ IsReady(tx, u)
      /\ err' = (MarkThrows(tx, u) \/ ExtractThrows(marked))
      /\ UNCHANGED <<sdus, bsrTriggered>>
  BY DEF UeTickRetransmits
<1>2. Turn(u) /\ u \in Acid
  <2> HIDE DEF Inv, marked
  <2> QED BY <1>1, GrantTurn DEF Turn
<1>3. /\ p \in Pdu /\ p.acid = u
      /\ tx.unit[u].transmissions \in 1 .. MaxHarqRtx
  <2>1. Status(tx, u) # "EMPTY"
    BY <1>1 DEF IsReady
  <2>2. p # NoPdu /\ p.acid = u
    BY <1>2, <2>1 DEF UnitsOK
  <2>3. tx.unit[u].transmissions \in 1 .. MaxHarqRtx
    BY <1>1, <1>2, <2>1, Numbers DEF UnitsOK
  <2> QED BY <1>2, <2>2, <2>3, TypeFacts
<1>4. /\ RxHolds(u, "CORRUPTED") /\ deliveries[u] = 0
  BY <1>1, <1>2 DEF ExchangesOK
<1>5. tx \in TxBuffer /\ CountersMatchUnits(tx) /\ tx.selectedAcid = HarqNone
  BY DEF TypeOK, UnitsOK
<1>6. /\ SentFrom(tx, marked, u, p, n, FALSE)
      /\ ~MarkThrows(tx, u) /\ ~ExtractThrows(marked)
  <2>1. tx.unit[u].transmissions # 0
    BY <1>3
  <2> HIDE DEF Inv, u
  <2> QED BY <1>1, <1>2, <1>5, <2>1, MarkAndSend
<1>7. tx' = SendSelectedDown(marked)
      /\ toEnbSent' = toEnbSent \cup {DataPkt(f) : f \in FramesDown(marked)}
  BY <1>1 DEF UseGrant
<1> HIDE DEF marked
<1>8. toEnbSent' = toEnbSent \cup {DataPkt([acid |-> u, pdu |-> p, ndi |-> FALSE])}
  BY <1>6, <1>7 DEF SentFrom
<1>9. n \in 1 .. MaxHarqRtx + 1 /\ n # 1 /\ rx[u].transmissions + 1 = n
      /\ rx[u].status = "CORRUPTED"
  BY <1>3, <1>4, Numbers DEF RxHolds
<1>10. /\ tx' \in TxBuffer /\ CountersMatchUnits(tx') /\ tx'.selectedAcid = HarqNone
       /\ tx'.unit = [tx.unit EXCEPT ![u] = [status |-> "WAITING", pdu |-> p,
                                             transmissions |-> n]]
  BY <1>6, <1>7 DEF SentFrom
<1> HIDE DEF Inv, u, p, n
<1>11. Sends(u, p, n, FALSE)
  BY <1>2, <1>3, <1>4, <1>8, <1>9, <1>10 DEF Sends
<1>12. sdus' \in 0 .. MaxLoad /\ bsrTriggered' \in BOOLEAN /\ err' = FALSE
  BY <1>1, <1>6 DEF Inv, TypeOK
<1> QED BY <1>1, <1>11, <1>12, SendsInv DEF u

\* There is always a PDU to make for an empty process: nothing about it is on
\* the air or at the eNodeB.
LEMMA NewPduExists ==
  ASSUME Inv, NEW a \in Acid, NEW bsr \in BOOLEAN, Status(tx, a) = "EMPTY"
  PROVE  NewPdu(a, bsr) \in Pdu /\ NewPdu(a, bsr).acid = a
<1> USE DEF Inv
<1>1. ASSUME NEW p \in Pdu, p.acid = a PROVE ~InUse(p)
  <2>1. ASSUME NEW b \in Acid, NEW n, WaitsFor(b, p, n) PROVE FALSE
    <3>1. tx.unit[b].pdu.acid = b /\ tx.unit[b].pdu = p /\ Status(tx, b) = "WAITING"
      BY <2>1 DEF UnitsOK, WaitsFor
    <3> QED BY <1>1, <3>1
  <2>2. ~Held(p)
    <3> SUFFICES ASSUME NEW b \in Acid, tx.unit[b].pdu = p PROVE FALSE
      BY DEF Held
    <3>1. p.acid = b /\ Status(tx, b) # "EMPTY"
      BY NoPduAssumption DEF UnitsOK
    <3> QED BY <1>1, <3>1
  <2>3. \A b \in Acid : rx[b].pdu # p
    <3> SUFFICES ASSUME NEW b \in Acid, rx[b].pdu = p PROVE FALSE
      OBVIOUS
    <3>1. p.acid = b
      BY NoPduAssumption DEF ExchangesOK
    <3>2. rx[a] = ResetCodeword
      BY DEF ExchangesOK
    <3> QED BY <1>1, <3>1, <3>2, NoPduAssumption DEF ResetCodeword
  <2>4. ASSUME NEW m \in toEnbSent \cup toEnb, m.type = "DATAPKT", m.frame.pdu = p
        PROVE  FALSE
    <3>1. m.frame \in DataFrame /\ m = DataPkt(m.frame)
      BY <2>4, ToEnbPackets DEF TypeOK
    <3>2. WaitsFor(m.frame.acid, p, 0) \/ WaitsFor(m.frame.acid, p, 1)
      BY <2>4, <3>1 DEF ExchangesOK, FrameOK
    <3> QED BY <2>1, <3>1, <3>2, TypeFacts
  <2>5. ASSUME NEW m \in toUeSent \cup toUe, m.type = "HARQPKT", m.feedback.pdu = p
        PROVE  FALSE
    <3>1. m.feedback \in Feedback /\ m = HarqPkt(m.feedback)
      BY <2>5, ToUePackets DEF TypeOK
    <3>2. \/ WaitsFor(m.feedback.acid, p, FbInterval + 1)
          \/ WaitsFor(m.feedback.acid, p, FbInterval + 2)
      BY <2>5, <3>1 DEF ExchangesOK, FeedbackOK
    <3> QED BY <2>1, <3>1, <3>2, TypeFacts
  <2> QED BY <2>2, <2>3, <2>4, <2>5 DEF InUse
<1> DEFINE q == [acid |-> a, seq |-> 0, bsr |-> bsr]
<1>2. q \in Pdu /\ q.acid = a /\ q.bsr = bsr
  BY PduAssumption
<1>3. ASSUME NEW b \in BOOLEAN PROVE ~InUse([q EXCEPT !.bsr = b])
  <2>1. [q EXCEPT !.bsr = b] = [acid |-> a, seq |-> 0, bsr |-> b]
    OBVIOUS
  <2>2. [acid |-> a, seq |-> 0, bsr |-> b] \in Pdu
    BY PduAssumption
  <2> QED BY <1>1, <2>1, <2>2
<1> HIDE DEF q, Inv
<1> QED BY <1>2, <1>3 DEF NewPdu

\* The process of the turn is not ready, so it is empty: a new PDU is sent.
LEMMA TransmitsInv ==
  ASSUME Inv, NEW served \in 0 .. sdus, UeTickTransmits(served) PROVE Inv'
<1> USE DEF Inv
<1> DEFINE u == UsedHarq
           p == NewPdu(u, bsrTriggered)
           inserted == InsertPdu(tx, u, p)
<1>1. /\ UseGrant(inserted) /\ ~IsReady(tx, u)
      /\ err' = (InsertThrows(tx, u) \/ ExtractThrows(inserted))
      /\ sdus' = sdus - served /\ bsrTriggered' = FALSE
  BY DEF UeTickTransmits
<1>2. Turn(u) /\ u \in Acid
  <2> HIDE DEF Inv, inserted
  <2> QED BY <1>1, GrantTurn DEF Turn
<1>3. tx \in TxBuffer /\ CountersMatchUnits(tx) /\ tx.selectedAcid = HarqNone
  BY DEF TypeOK, UnitsOK
<1>4. Status(tx, u) = "EMPTY"
  <2>1. Status(tx, u) # "WAITING"
    BY <1>2, TurnFacts
  <2>2. Status(tx, u) # "SELECTED"
    BY <1>2, <1>3, NoneIsNoProcess DEF CountersMatchUnits
  <2> QED BY <1>1, <1>2, <2>1, <2>2, TypeFacts DEF IsReady, Status, TxStatus
<1>5. p \in Pdu /\ p.acid = u
  <2>1. bsrTriggered \in BOOLEAN
    BY DEF TypeOK
  <2> HIDE DEF Inv, u
  <2> QED BY <1>2, <1>4, <2>1, NewPduExists
<1>6. rx[u].status = "EMPTY" /\ rx[u].transmissions = 0 /\ deliveries[u] = 0
  BY <1>2, <1>4 DEF ExchangesOK, ResetCodeword
<1>7. /\ SentFrom(tx, inserted, u, p, 1, TRUE)
      /\ ~InsertThrows(tx, u) /\ ~ExtractThrows(inserted)
  <2> HIDE DEF Inv, u, p
  <2> QED BY <1>2, <1>3, <1>4, <1>5, InsertAndSend
<1>8. tx' = SendSelectedDown(inserted)
      /\ toEnbSent' = toEnbSent \cup {DataPkt(f) : f \in FramesDown(inserted)}
  BY <1>1 DEF UseGrant
<1> HIDE DEF inserted
<1>9. toEnbSent' = toEnbSent \cup {DataPkt([acid |-> u, pdu |-> p, ndi |-> TRUE])}
  BY <1>7, <1>8 DEF SentFrom
<1>10. /\ tx' \in TxBuffer /\ CountersMatchUnits(tx') /\ tx'.selectedAcid = HarqNone
       /\ tx'.unit = [tx.unit EXCEPT ![u] = [status |-> "WAITING", pdu |-> p,
                                             transmissions |-> 1]]
  BY <1>7, <1>8 DEF SentFrom
<1>11. sdus' \in 0 .. MaxLoad /\ bsrTriggered' \in BOOLEAN /\ err' = FALSE
  <2>1. sdus \in 0 .. MaxLoad
    BY DEF TypeOK
  <2>2. sdus' \in 0 .. MaxLoad
    BY <1>1, <2>1, MaxLoadAssumption
  <2> QED BY <1>1, <1>7, <2>2
<1>12. 1 \in 1 .. MaxHarqRtx + 1
  BY Numbers
<1> HIDE DEF Inv, u, p
<1>13. Sends(u, p, 1, TRUE)
  BY <1>2, <1>5, <1>6, <1>9, <1>10, <1>12 DEF Sends
<1> QED BY <1>1, <1>11, <1>13, SendsInv DEF u

----------------------------------------------------------------------------
(* The arrivals at the UE.                                                 *)

\* Packets that are neither data nor feedback change no exchange.
LEMMA OtherPackets ==
  ASSUME Inv,
         UNCHANGED <<tx, currentHarq, firstTx, rx, rxCreated, harqStatus, ticked,
                     err, deliveries, toEnbSent>>,
         \A f : DataPkt(f) \in toEnb' <=> DataPkt(f) \in toEnb,
         \A fb : /\ HarqPkt(fb) \in toUeSent' <=> HarqPkt(fb) \in toUeSent
                 /\ HarqPkt(fb) \in toUe' <=> HarqPkt(fb) \in toUe
  PROVE  NoRuntimeError' /\ UnitsOK' /\ ExchangesOK' /\ CountersOK'
<1> USE DEF Inv
<1>1. \A a : Since(a)' = Since(a)
  BY SinceKept
<1>2. NoRuntimeError' /\ UnitsOK'
  BY DEF NoRuntimeError, UnitsOK
<1>3. ExchangesOK'
  BY <1>1, ExchangesKept
<1>4. CountersOK'
  BY DEF CountersOK, DataUnderway
<1> QED BY <1>2, <1>3, <1>4

\* The grant received is for the process whose turn comes next.
LEMMA UeReceivesGrantInv ==
  ASSUME Inv, NEW m \in toUe, UeReceivesGrant(m) PROVE Inv'
<1> USE DEF Inv
<1>1. m.grant \in Grant /\ m = GrantPkt(m.grant)
  BY ToUePackets DEF TypeOK, UeReceivesGrant
<1>2. /\ grant' = m.grant /\ racRequested' = FALSE /\ ticked = Node
      /\ toUe' = toUe \ {m}
      /\ UNCHANGED <<tx, bsrTriggered, err, deliveries, enbVars, currentHarq,
                     firstTx, sdus, raRespTimer, toEnbSent, toEnb, toUeSent, ticked>>
  BY DEF UeReceivesGrant, UeReceives
<1>3. TypeOK'
  BY <1>1, <1>2 DEF TypeOK, enbVars
<1>4. \A fb : HarqPkt(fb) \in toUe' <=> HarqPkt(fb) \in toUe
  BY <1>1, <1>2, ToUePackets
<1>5. NoRuntimeError' /\ UnitsOK' /\ ExchangesOK' /\ CountersOK'
  <2> HIDE DEF Inv
  <2> QED BY <1>2, <1>4, OtherPackets DEF enbVars
<1>6. GrantsOK'
  <2>1. GrantOK(m.grant, NumProc - 1) /\ "ue" \in ticked
    BY <1>1, <1>2 DEF GrantsOK, Node
  <2>2. \A g, n : GrantOK(g, n)' <=> GrantOK(g, n)
    BY <1>2, SinceKept DEF GrantOK, enbVars
  <2> QED BY <1>2, <2>1, <2>2 DEF GrantsOK
<1>7. FirstAccessOK'
  <2>1. RacPkt \in toUe' <=> RacPkt \in toUe
    BY <1>1, <1>2, ToUePackets
  <2> QED BY <1>1, <1>2, <2>1 DEF FirstAccessOK, enbVars
<1> QED BY <1>3, <1>5, <1>6, <1>7

\* The answer to a RAC request triggers a BSR.
LEMMA UeReceivesRacInv ==
  ASSUME Inv, NEW m \in toUe, UeReceivesRac(m) PROVE Inv'
<1> USE DEF Inv
<1>1. m = RacPkt
  BY ToUePackets DEF TypeOK, UeReceivesRac
<1>2. /\ bsrTriggered' = TRUE /\ toUe' = toUe \ {m}
      /\ UNCHANGED <<tx, grant, racRequested, err, deliveries, enbVars, currentHarq,
                     firstTx, sdus, raRespTimer, toEnbSent, toEnb, toUeSent, ticked>>
  BY DEF UeReceivesRac, UeReceives
<1>3. TypeOK'
  BY <1>2 DEF TypeOK, enbVars
<1>4. \A fb : HarqPkt(fb) \in toUe' <=> HarqPkt(fb) \in toUe
  BY <1>1, <1>2, ToUePackets
<1>5. NoRuntimeError' /\ UnitsOK' /\ ExchangesOK' /\ CountersOK'
  <2> HIDE DEF Inv
  <2> QED BY <1>2, <1>4, OtherPackets DEF enbVars
<1>6. GrantsOK'
  BY <1>2, SinceKept DEF GrantsOK, GrantOK, enbVars
<1>7. FirstAccessOK'
  BY <1>2 DEF FirstAccessOK
<1> QED BY <1>3, <1>5, <1>6, <1>7

\* Feedback ends the exchange of its process, whose age tells it from every
\* other: the PDU is settled, or ready for another transmission and kept by
\* the eNodeB.
LEMMA UeReceivesFeedbackInv ==
  ASSUME Inv, NEW m \in toUe, UeReceivesFeedback(m) PROVE Inv'
<1> USE DEF Inv
<1> DEFINE fb == m.feedback
           a == fb.acid
           p == fb.pdu
           n == tx.unit[a].transmissions
           resets == FeedbackResets(tx, fb)
<1>1. /\ fb \in Feedback /\ m = HarqPkt(fb)
      /\ a \in Acid /\ p \in Pdu /\ fb.ack \in BOOLEAN
      /\ tx \in TxBuffer /\ CountersMatchUnits(tx) /\ tx.selectedAcid = HarqNone
      /\ tx.unit \in [Acid -> TxUnit]
  BY ToUePackets, TypeFacts DEF TypeOK, UeReceivesFeedback, UnitsOK
<1>2. FeedbackOK(fb, FbInterval + 2)
  BY <1>1 DEF ExchangesOK
<1>3. /\ Status(tx, a) = "WAITING" /\ tx.unit[a].pdu = p /\ Since(a) = FbInterval + 2
      /\ deliveries[a] = IF fb.ack THEN 1 ELSE 0
      /\ p.acid = a /\ n \in 1 .. MaxHarqRtx + 1
  BY <1>1, <1>2 DEF FeedbackOK, WaitsFor, UnitsOK
<1>4. /\ ReceiveFeedback(tx, fb).unit =
           [tx.unit EXCEPT ![a] =
              IF resets THEN ResetUnit
              ELSE [status |-> "BUFFERED", pdu |-> p, transmissions |-> n]]
      /\ ReceiveFeedback(tx, fb) \in TxBuffer
      /\ ReceiveFeedback(tx, fb).selectedAcid = HarqNone
      /\ CountersMatchUnits(ReceiveFeedback(tx, fb))
      /\ ~FeedbackThrows(tx, fb)
  BY <1>1, <1>3, FeedbackAccepted
<1>5. /\ tx' = ReceiveFeedback(tx, fb) /\ err' = FALSE
      /\ toUe' = toUe \ {m}
      /\ deliveries' = IF resets THEN [deliveries EXCEPT ![a] = 0] ELSE deliveries
      /\ UNCHANGED <<grant, bsrTriggered, racRequested, enbVars, currentHarq,
                     firstTx, sdus, raRespTimer, toEnbSent, toEnb, toUeSent, ticked>>
  BY <1>4 DEF UeReceivesFeedback, UeReceives
<1>6. resets <=> fb.ack \/ n = MaxHarqRtx + 1
  BY DEF FeedbackResets, IsLastAttempt
<1> HIDE DEF n, resets
<1>7. /\ \A b \in Acid : b # a => tx'.unit[b] = tx.unit[b]
      /\ resets => tx'.unit[a] = ResetUnit
      /\ ~resets => tx'.unit[a] = [status |-> "BUFFERED", pdu |-> p,
                                   transmissions |-> n]
  BY <1>1, <1>4, <1>5
<1>8. /\ \A b \in Acid : b # a => Status(tx, b)' = Status(tx, b)
      /\ resets => Status(tx, a)' = "EMPTY" /\ tx'.unit[a].pdu = NoPdu
      /\ ~resets => /\ Status(tx, a)' = "BUFFERED" /\ tx'.unit[a].pdu = p
                    /\ tx'.unit[a].transmissions = n
  BY <1>7 DEF Status, ResetUnit
<1>9. /\ deliveries' \in [Acid -> Nat]
      /\ \A b \in Acid : b # a => deliveries'[b] = deliveries[b]
      /\ deliveries'[a] = 0
  BY <1>1, <1>3, <1>5, <1>6, TypeFacts
<1>10. TypeOK' /\ NoRuntimeError'
  BY <1>4, <1>5, <1>9 DEF TypeOK, NoRuntimeError, enbVars
<1>11. UnitsOK'
  <2>1. ASSUME NEW b \in Acid
        PROVE  /\ Status(tx, b)' = "EMPTY" <=> tx'.unit[b].pdu = NoPdu
               /\ Status(tx, b)' # "EMPTY" =>
                    /\ tx'.unit[b].pdu.acid = b
                    /\ tx'.unit[b].transmissions \in 1 .. MaxHarqRtx + 1
               /\ IsReady(tx, b)' => tx'.unit[b].transmissions # MaxHarqRtx + 1
    <3>1. CASE b = a
      <4>1. n \in 1 .. MaxHarqRtx + 1
        BY <1>3 DEF n
      <4> QED BY <1>1, <1>3, <1>6, <1>8, <3>1, <4>1, NoPduAssumption DEF IsReady
    <3>2. CASE b # a
      BY <1>7, <1>8, <3>2 DEF UnitsOK, IsReady
    <3> QED BY <3>1, <3>2
  <2> HIDE DEF Inv
  <2> QED BY <1>4, <1>5, <2>1 DEF UnitsOK
<1>12. \A b : Since(b)' = Since(b)
  BY <1>5, SinceKept
<1>13. ASSUME NEW b \in Acid, NEW q, NEW k, WaitsFor(b, q, k), k # FbInterval + 2
       PROVE  b # a /\ WaitsFor(b, q, k)'
  BY <1>3, <1>7, <1>8, <1>12, <1>13 DEF WaitsFor
<1>14. \A b \in Acid : \A s : b # a => (RxHolds(b, s)' <=> RxHolds(b, s))
  BY <1>5, <1>7 DEF RxHolds, enbVars
<1>15. \A f \in DataFrame : \A k : FrameOK(f, k) /\ k # FbInterval + 2 =>
                                 f.acid # a /\ FrameOK(f, k)'
  BY <1>5, <1>7, <1>9, <1>13, TypeFacts DEF FrameOK, enbVars
<1>16. \A b \in Acid : EvaluationOK(b) => b # a /\ EvaluationOK(b)'
  <2> SUFFICES ASSUME NEW b \in Acid, EvaluationOK(b) PROVE b # a /\ EvaluationOK(b)'
    OBVIOUS
  <2>1. rx[b].age + (IF "enb" \in ticked THEN 1 ELSE 2) # FbInterval + 2
    BY Numbers, TypeFacts DEF EvaluationOK
  <2>2. b # a /\ WaitsFor(b, rx[b].pdu, rx[b].age + IF "enb" \in ticked THEN 1 ELSE 2)'
    BY <1>5, <1>13, <2>1 DEF EvaluationOK, enbVars
  <2> QED BY <1>5, <1>9, <1>14, <2>2 DEF EvaluationOK, enbVars
<1>17. ASSUME NEW g \in Feedback, NEW k, FeedbackOK(g, k), g.acid # a
       PROVE  FeedbackOK(g, k)'
  <2>1. g.acid \in Acid /\ tx'.unit[g.acid] = tx.unit[g.acid]
    BY <1>7, <1>17, TypeFacts
  <2>2. WaitsFor(g.acid, g.pdu, k)'
    BY <1>8, <1>12, <1>17, <2>1 DEF FeedbackOK, WaitsFor
  <2> QED BY <1>5, <1>9, <1>14, <1>17, <2>1, <2>2 DEF FeedbackOK, enbVars
<1>18. \A g \in Feedback : HarqPkt(g) \in toUe' \cup toUeSent' => g.acid # a
  <2> SUFFICES ASSUME NEW g \in Feedback, HarqPkt(g) \in toUe' \cup toUeSent', g.acid = a
               PROVE  FALSE
    OBVIOUS
  <2>1. CASE HarqPkt(g) \in toUeSent
    <3>1. Since(a) = FbInterval + 1
      BY <2>1 DEF ExchangesOK, FeedbackOK, WaitsFor
    <3> QED BY <1>3, <3>1, Numbers
  <2>2. CASE HarqPkt(g) \in toUe'
    <3>1. FeedbackOK(g, FbInterval + 2) /\ HarqPkt(g) # m
      BY <1>5, <2>2 DEF ExchangesOK
    <3>2. g.pdu = p /\ g.ack = fb.ack
      BY <1>1, <1>3, <3>1, TypeFacts DEF FeedbackOK, WaitsFor
    <3>3. g = fb
      BY <1>1, <3>2 DEF Feedback
    <3> QED BY <1>1, <3>1, <3>3
  <2> QED BY <1>5, <2>1, <2>2
<1>19. ExchangesOK'
  <2>1. \A f \in DataFrame : /\ DataPkt(f) \in toEnbSent' => FrameOK(f, 0)'
                             /\ DataPkt(f) \in toEnb' => FrameOK(f, 1)'
    BY <1>5, <1>15, Numbers DEF ExchangesOK
  <2>2. \A b \in Acid : rx'[b].status = "EVALUATING" => EvaluationOK(b)'
    BY <1>5, <1>16 DEF ExchangesOK, enbVars
  <2>3. \A g \in Feedback :
          /\ HarqPkt(g) \in toUeSent' => FeedbackOK(g, FbInterval + 1)'
          /\ HarqPkt(g) \in toUe' => FeedbackOK(g, FbInterval + 2)'
    BY <1>5, <1>17, <1>18 DEF ExchangesOK
  <2>4. ASSUME NEW b \in Acid
        PROVE  /\ Status(tx, b)' = "WAITING" =>
                    \/ DataUnderway(b)' \/ rx'[b].status = "EVALUATING"
                    \/ FeedbackUnderway(b)'
               /\ IsReady(tx, b)' =>
                    RxHolds(b, "CORRUPTED")' /\ deliveries'[b] = 0
               /\ Status(tx, b)' = "EMPTY" =>
                    rx'[b].status = "EMPTY" /\ deliveries'[b] = 0
               /\ rx'[b].status = "EMPTY" => rx'[b] = ResetCodeword
               /\ rx'[b].status # "CORRECT"
               /\ rx'[b].pdu # NoPdu => rx'[b].pdu.acid = b
    <3>1. /\ rx' = rx
          /\ rx[b].status = "EMPTY" => rx[b] = ResetCodeword
          /\ rx[b].status # "CORRECT"
          /\ rx[b].pdu # NoPdu => rx[b].pdu.acid = b
      BY <1>5 DEF ExchangesOK, enbVars
    <3>2. CASE b = a
      <4>1. resets => rx[a].status = "EMPTY"
        BY <1>2, <1>6 DEF FeedbackOK, n
      <4>2. ~resets => RxHolds(a, "CORRUPTED")'
        <5>1. ~resets => RxHolds(a, "CORRUPTED")
          BY <1>2, <1>6 DEF FeedbackOK, n
        <5> QED BY <1>3, <1>8, <3>1, <5>1 DEF RxHolds, n
      <4> QED BY <1>8, <1>9, <3>1, <3>2, <4>1, <4>2 DEF IsReady
    <3>3. CASE b # a
      <4>1. DataUnderway(b)' <=> DataUnderway(b)
        BY <1>5 DEF DataUnderway
      <4>2. FeedbackUnderway(b) => FeedbackUnderway(b)'
        <5> SUFFICES ASSUME NEW g \in Feedback, g.acid = b,
                            HarqPkt(g) \in toUeSent \cup toUe
                     PROVE  HarqPkt(g) \in toUeSent' \cup toUe'
          BY DEF FeedbackUnderway
        <5>1. HarqPkt(g) # m
          BY <1>1, <3>3, ToUePackets
        <5> QED BY <1>5, <5>1
      <4> QED BY <1>8, <1>9, <1>14, <3>1, <3>3, <4>1, <4>2 DEF ExchangesOK, IsReady
    <3> QED BY <3>2, <3>3
  <2> HIDE DEF Inv
  <2> QED BY <2>1, <2>2, <2>3, <2>4 DEF ExchangesOK
<1>20. CountersOK'
  <2>1. firstTx
    BY <1>1, <1>3 DEF CountersOK
  <2> QED BY <1>5, <2>1 DEF CountersOK, DataUnderway, enbVars
<1>21. GrantsOK'
  BY <1>5, <1>12 DEF GrantsOK, GrantOK, enbVars
<1>22. FirstAccessOK'
  <2>1. firstTx
    BY <1>1, <1>3 DEF CountersOK
  <2> QED BY <1>5, <2>1 DEF FirstAccessOK
<1> QED BY <1>10, <1>11, <1>19, <1>20, <1>21, <1>22

----------------------------------------------------------------------------
(* The end of a TTI, and the arrivals at the eNodeB.                       *)

\* What was sent arrives, and everything is one TTI older.
LEMMA NextTtiInv == ASSUME Inv, NextTti PROVE Inv'
<1> USE DEF Inv
<1>1. /\ ticked = Node /\ toEnb = {} /\ toUe = {} /\ ticked' = {}
      /\ toEnb' = toEnbSent /\ toEnbSent' = {}
      /\ toUe' = toUeSent /\ toUeSent' = {}
      /\ UNCHANGED <<tx, currentHarq, firstTx, grant, sdus, bsrTriggered,
                     racRequested, raRespTimer, enbVars, err, deliveries>>
  BY DEF NextTti, ueVars
<1>2. TypeOK' /\ NoRuntimeError' /\ UnitsOK'
  BY <1>1 DEF TypeOK, NoRuntimeError, UnitsOK, enbVars
<1>3. \A a \in Acid : Since(a)' = Since(a) + 1 /\ Since(a) \in Nat
  BY <1>1, SinceNextTti, SinceFacts, TypeFacts, Numbers DEF Node
<1>4. \A a \in Acid : \A q, n : WaitsFor(a, q, n) => WaitsFor(a, q, n + 1)'
  BY <1>1, <1>3 DEF WaitsFor
<1>5. \A a \in Acid : \A s : RxHolds(a, s)' <=> RxHolds(a, s)
  BY <1>1 DEF RxHolds, enbVars
<1>6. \A f \in DataFrame : \A n : FrameOK(f, n) => FrameOK(f, n + 1)'
  BY <1>1, <1>4, TypeFacts DEF FrameOK, enbVars
<1>7. \A a \in Acid : EvaluationOK(a) => EvaluationOK(a)'
  <2> SUFFICES ASSUME NEW a \in Acid, EvaluationOK(a) PROVE EvaluationOK(a)'
    OBVIOUS
  <2>1. WaitsFor(a, rx[a].pdu, rx[a].age + 1)
    BY <1>1 DEF EvaluationOK, Node
  <2>2. rx[a].age + 1 + 1 = rx[a].age + 2
    BY TypeFacts
  <2>3. WaitsFor(a, rx[a].pdu, rx[a].age + 2)'
    BY <1>1, <1>4, <2>1, <2>2 DEF enbVars
  <2> QED BY <1>1, <1>5, <2>3 DEF EvaluationOK, enbVars
<1>8. \A fb \in Feedback : \A n : FeedbackOK(fb, n) => FeedbackOK(fb, n + 1)'
  BY <1>1, <1>4, <1>5, TypeFacts DEF FeedbackOK, enbVars
<1>9. ExchangesOK'
  <2>1. \A f \in DataFrame : /\ DataPkt(f) \in toEnbSent' => FrameOK(f, 0)'
                             /\ DataPkt(f) \in toEnb' => FrameOK(f, 1)'
    BY <1>1, <1>6 DEF ExchangesOK
  <2>2. \A a \in Acid : rx'[a].status = "EVALUATING" => EvaluationOK(a)'
    BY <1>1, <1>7 DEF ExchangesOK, enbVars
  <2>3. \A fb \in Feedback :
          /\ HarqPkt(fb) \in toUeSent' => FeedbackOK(fb, FbInterval + 1)'
          /\ HarqPkt(fb) \in toUe' => FeedbackOK(fb, FbInterval + 2)'
    <3>1. FbInterval + 1 + 1 = FbInterval + 2
      BY Numbers
    <3> QED BY <1>1, <1>8, <3>1 DEF ExchangesOK
  <2> QED BY <1>1, <1>5, <2>1, <2>2, <2>3
          DEF ExchangesOK, DataUnderway, FeedbackUnderway, enbVars
<1>10. CountersOK'
  <2>1. ASSUME ~rxCreated, NEW f \in DataFrame, DataPkt(f) \in toEnbSent
        PROVE  f.acid = NumProc - 2
    <3>1. Status(tx, f.acid) = "WAITING" /\ Since(f.acid) = 0 /\ f.acid \in Acid
      BY <2>1, TypeFacts DEF ExchangesOK, FrameOK, WaitsFor
    <3>2. DataUnderway(NumProc - 2)
      BY <2>1, <3>1 DEF CountersOK
    <3>3. PICK g \in DataFrame : g.acid = NumProc - 2 /\ DataPkt(g) \in toEnbSent
      BY <1>1, <3>2 DEF DataUnderway
    <3>4. Since(g.acid) = 0 /\ g.acid \in Acid
      BY <3>3, TypeFacts DEF ExchangesOK, FrameOK, WaitsFor
    <3> QED BY <3>1, <3>3, <3>4, SinceFacts, TypeFacts
  <2>2. ticked # {"enb"} /\ ticked # {"ue"} /\ ticked' # {"enb"} /\ ticked' # {"ue"}
    BY <1>1 DEF Node
  <2> QED BY <1>1, <2>1, <2>2 DEF CountersOK, DataUnderway, enbVars
<1>11. GrantsOK'
  <2>1. \A g \in Grant : \A n : GrantOK(g, n) => GrantOK(g, n + 1)'
    BY <1>1, <1>3, TypeFacts DEF GrantOK, enbVars
  <2>2. NumProc - 2 + 1 = NumProc - 1 /\ NumProc - 1 + 1 = NumProc
    BY Numbers
  <2>3. grant # NoGrant => grant \in Grant /\ GrantOK(grant, NumProc - 1)
    BY <1>1 DEF GrantsOK, TypeOK, Node
  <2> QED BY <1>1, <2>1, <2>2, <2>3 DEF GrantsOK
<1>12. FirstAccessOK'
  BY <1>1 DEF FirstAccessOK, enbVars, Node
<1> QED BY <1>2, <1>9, <1>10, <1>11, <1>12

\* A RAC request will be granted, and its answer comes first.
LEMMA EnbReceivesRacInv ==
  ASSUME Inv, NEW m \in toEnb, EnbReceivesRac(m) PROVE Inv'
<1> USE DEF Inv
<1>1. m = RacPkt
  BY ToEnbPackets DEF TypeOK, EnbReceivesRac
<1>2. /\ racPending' = TRUE /\ toUeSent' = toUeSent \cup {RacPkt} /\ ticked = Node
      /\ toEnb' = toEnb \ {m}
      /\ UNCHANGED <<rx, rxCreated, err, ueVars, harqStatus, bsrPending, toEnbSent,
                     toUe, ticked, deliveries>>
  BY DEF EnbReceivesRac, EnbReceives
<1>3. TypeOK'
  <2>1. toUeSent' \subseteq ToUeFrame /\ toEnb' \subseteq ToEnbFrame
    BY <1>2, ToUePackets DEF TypeOK
  <2> QED BY <1>2, <2>1 DEF TypeOK, ueVars
<1>4. /\ \A f : DataPkt(f) \in toEnb' <=> DataPkt(f) \in toEnb
      /\ \A fb : HarqPkt(fb) \in toUeSent' <=> HarqPkt(fb) \in toUeSent
      /\ \A g : GrantPkt(g) \in toUeSent' <=> GrantPkt(g) \in toUeSent
  BY <1>1, <1>2, ToEnbPackets, ToUePackets
<1>5. NoRuntimeError' /\ UnitsOK' /\ ExchangesOK' /\ CountersOK'
  <2> HIDE DEF Inv
  <2> QED BY <1>2, <1>4, OtherPackets DEF ueVars
<1>6. GrantsOK'
  BY <1>2, <1>4, SinceKept DEF GrantsOK, GrantOK, ueVars
<1>7. FirstAccessOK'
  BY <1>2, <1>4 DEF FirstAccessOK, ueVars, Node
<1> QED BY <1>3, <1>5, <1>6, <1>7

\* The frame received is put under evaluation in a process that is free for
\* it; the first one starts the counter of the eNodeB.
LEMMA EnbReceivesDataInv ==
  ASSUME Inv, NEW m \in toEnb, EnbReceivesData(m) PROVE Inv'
<1> USE DEF Inv
<1> DEFINE f == m.frame
           a == f.acid
<1>1. /\ f \in DataFrame /\ m = DataPkt(f)
      /\ a \in Acid /\ f.pdu \in Pdu /\ f.ndi \in BOOLEAN
      /\ rx \in [Acid -> RxProcess]
  BY ToEnbPackets, TypeFacts DEF TypeOK, EnbReceivesData
<1>2. FrameOK(f, 1)
  BY <1>1 DEF ExchangesOK
<1>3. PICK ok \in BOOLEAN : rx' = RxInsert(rx, f, ok)
  BY DEF EnbReceivesData
<1>4. /\ toEnb' = toEnb \ {m} /\ rxCreated' = TRUE /\ ticked = Node
      /\ err' = RxInsertThrows(rx, f)
      /\ UNCHANGED <<racPending, toUeSent, ueVars, harqStatus, bsrPending,
                     toEnbSent, toUe, ticked, deliveries>>
  BY DEF EnbReceivesData, EnbReceives
<1> HIDE DEF f
<1>5. /\ Status(tx, a) = "WAITING" /\ tx.unit[a].pdu = f.pdu /\ Since(a) = 1
      /\ f.pdu.acid = a
  BY <1>1, <1>2 DEF FrameOK, WaitsFor, UnitsOK
<1>6. /\ rx' \in [Acid -> RxProcess]
      /\ \A b \in Acid : b # a => rx'[b] = rx[b]
      /\ rx'[a] = [status |-> "EVALUATING", pdu |-> f.pdu, result |-> ok,
                   age |-> 0, transmissions |-> rx[a].transmissions + 1]
  <2>1. /\ rx' \in [Acid -> RxProcess]
        /\ \A b \in Acid : b # a => rx'[b] = rx[b]
    BY <1>1, <1>3, FrameInserted
  <2> QED BY <1>1, <1>3, <2>1 DEF RxInsert
<1>7. /\ rx'[a].status = "EVALUATING" /\ rx'[a].pdu = f.pdu /\ rx'[a].age = 0
      /\ rx'[a].transmissions = tx.unit[a].transmissions
  BY <1>2, <1>6 DEF FrameOK
<1>8. err' = FALSE
  BY <1>2, <1>4 DEF RxInsertThrows, FrameOK
<1>9. TypeOK' /\ NoRuntimeError' /\ UnitsOK'
  BY <1>4, <1>6, <1>8 DEF TypeOK, NoRuntimeError, UnitsOK, ueVars
<1>10. \A b : Since(b)' = Since(b)
  BY <1>4, SinceKept DEF ueVars
<1>11. \A b, q, n : WaitsFor(b, q, n)' <=> WaitsFor(b, q, n)
  BY <1>4, <1>10 DEF WaitsFor, ueVars
<1>12. \A b \in Acid : \A s : b # a => (RxHolds(b, s)' <=> RxHolds(b, s))
  BY <1>4, <1>6 DEF RxHolds, ueVars
<1>13. ASSUME NEW g \in DataFrame, NEW n, FrameOK(g, n), g.acid # a
       PROVE  FrameOK(g, n)'
  <2>1. g.acid \in Acid /\ rx'[g.acid] = rx[g.acid]
    BY <1>6, <1>13, TypeFacts
  <2> QED BY <1>4, <1>11, <1>13, <2>1 DEF FrameOK, ueVars
<1>14. \A g \in DataFrame : DataPkt(g) \in toEnb' \cup toEnbSent' => g.acid # a
  <2> SUFFICES ASSUME NEW g \in DataFrame, DataPkt(g) \in toEnb' \cup toEnbSent',
                      g.acid = a
               PROVE  FALSE
    OBVIOUS
  <2>1. CASE DataPkt(g) \in toEnbSent
    <3>1. Since(a) = 0
      BY <2>1 DEF ExchangesOK, FrameOK, WaitsFor
    <3> QED BY <1>5, <3>1
  <2>2. CASE DataPkt(g) \in toEnb'
    <3>1. FrameOK(g, 1) /\ DataPkt(g) # m
      BY <1>4, <2>2 DEF ExchangesOK
    <3>2. g.pdu = f.pdu /\ g.ndi = f.ndi
      BY <1>1, <1>2, <3>1, TypeFacts DEF FrameOK, WaitsFor
    <3>3. g = f
      BY <1>1, <3>2 DEF DataFrame
    <3> QED BY <1>1, <3>1, <3>3
  <2> QED BY <1>4, <2>1, <2>2
<1>15. EvaluationOK(a)'
  <2>1. WaitsFor(a, f.pdu, 1)
    BY <1>2 DEF FrameOK
  <2>2. RxHolds(a, "EVALUATING")'
    BY <1>4, <1>5, <1>7 DEF RxHolds, ueVars
  <2>3. deliveries'[a] = 0
    BY <1>2, <1>4 DEF FrameOK
  <2> QED BY <1>4, <1>7, <1>11, <2>1, <2>2, <2>3, Numbers DEF EvaluationOK, Node
<1>16. \A b \in Acid : b # a /\ EvaluationOK(b) => EvaluationOK(b)'
  BY <1>4, <1>6, <1>11, <1>12 DEF EvaluationOK
<1>17. ASSUME NEW g \in Feedback, NEW n \in {FbInterval + 1, FbInterval + 2},
              FeedbackOK(g, n)
       PROVE  FeedbackOK(g, n)'
  <2>1. g.acid # a /\ g.acid \in Acid
    <3>1. Since(g.acid) = n
      BY <1>17 DEF FeedbackOK, WaitsFor
    <3> QED BY <1>5, <3>1, Numbers, TypeFacts
  <2>2. rx'[g.acid] = rx[g.acid]
    BY <1>6, <2>1
  <2> QED BY <1>4, <1>11, <1>12, <1>17, <2>1, <2>2 DEF FeedbackOK, ueVars
<1>18. ExchangesOK'
  <2>1. \A g \in DataFrame : /\ DataPkt(g) \in toEnbSent' => FrameOK(g, 0)'
                             /\ DataPkt(g) \in toEnb' => FrameOK(g, 1)'
    BY <1>4, <1>13, <1>14 DEF ExchangesOK
  <2>2. \A b \in Acid : rx'[b].status = "EVALUATING" => EvaluationOK(b)'
    BY <1>6, <1>15, <1>16 DEF ExchangesOK
  <2>3. \A g \in Feedback :
          /\ HarqPkt(g) \in toUeSent' => FeedbackOK(g, FbInterval + 1)'
          /\ HarqPkt(g) \in toUe' => FeedbackOK(g, FbInterval + 2)'
    BY <1>4, <1>17 DEF ExchangesOK
  <2>4. ASSUME NEW b \in Acid
        PROVE  /\ Status(tx, b)' = "WAITING" =>
                    \/ DataUnderway(b)' \/ rx'[b].status = "EVALUATING"
                    \/ FeedbackUnderway(b)'
               /\ IsReady(tx, b)' =>
                    RxHolds(b, "CORRUPTED")' /\ deliveries'[b] = 0
               /\ Status(tx, b)' = "EMPTY" =>
                    rx'[b].status = "EMPTY" /\ deliveries'[b] = 0
               /\ rx'[b].status = "EMPTY" => rx'[b] = ResetCodeword
               /\ rx'[b].status # "CORRECT"
               /\ rx'[b].pdu # NoPdu => rx'[b].pdu.acid = b
    <3>1. CASE b = a
      BY <1>4, <1>5, <1>7, <3>1 DEF IsReady, Status, ueVars
    <3>2. CASE b # a
      <4>1. DataUnderway(b) => DataUnderway(b)'
        <5> SUFFICES ASSUME NEW g \in DataFrame, g.acid = b,
                            DataPkt(g) \in toEnbSent \cup toEnb
                     PROVE  DataPkt(g) \in toEnbSent' \cup toEnb'
          BY DEF DataUnderway
        <5>1. DataPkt(g) # m
          BY <1>1, <3>2, ToEnbPackets
        <5> QED BY <1>4, <5>1
      <4>2. FeedbackUnderway(b)' <=> FeedbackUnderway(b)
        BY <1>4 DEF FeedbackUnderway
      <4>3. tx' = tx /\ deliveries' = deliveries /\ rx'[b] = rx[b]
        BY <1>4, <1>6, <3>2 DEF ueVars
      <4>4. /\ Status(tx, b)' = Status(tx, b) /\ (IsReady(tx, b)' <=> IsReady(tx, b))
            /\ RxHolds(b, "CORRUPTED")' <=> RxHolds(b, "CORRUPTED")
        BY <1>12, <3>2, <4>3
      <4> QED BY <4>1, <4>2, <4>3, <4>4 DEF ExchangesOK
    <3> QED BY <3>1, <3>2
  <2> HIDE DEF Inv
  <2> QED BY <2>1, <2>2, <2>3, <2>4 DEF ExchangesOK
<1>19. CountersOK'
  <2>1. firstTx
    BY <1>1, <1>5 DEF CountersOK
  <2>2. ticked # {"enb"} /\ ticked # {"ue"}
    BY <1>4 DEF Node
  <2>3. ASSUME ~rxCreated PROVE harqStatus = HarqNone /\ currentHarq = 0
    <3>1. a = NumProc - 2 /\ harqStatus = HarqNone
      BY <1>1, <2>3 DEF CountersOK
    <3>2. "ue" \in ticked
      BY <1>4 DEF Node
    <3> QED BY <1>5, <3>1, <3>2, TypeFacts, Numbers DEF Since, Acid
  <2>4. UNCHANGED <<tx, firstTx, currentHarq, harqStatus, ticked>>
    BY <1>4 DEF ueVars
  <2> QED BY <1>4, <2>1, <2>2, <2>3, <2>4 DEF CountersOK
<1>20. GrantsOK'
  <2>1. ASSUME NEW g, NEW n \in {NumProc - 2, NumProc - 1, NumProc},
               g.rtx \in Acid \cup {HarqNone},
               GrantOK(g, n)
        PROVE  GrantOK(g, n)'
    <3>1. n # 1
      BY Numbers
    <3> QED BY <1>5, <1>6, <1>10, <2>1, <3>1 DEF GrantOK
  <2>2. grant # NoGrant => grant \in Grant
    BY DEF TypeOK
  <2>3. UNCHANGED <<grant, ticked, toUe, toUeSent>>
    BY <1>4 DEF ueVars
  <2> QED BY <2>1, <2>2, <2>3, TypeFacts DEF GrantsOK
<1>21. FirstAccessOK'
  <2>1. firstTx'
    BY <1>1, <1>4, <1>5 DEF CountersOK, ueVars
  <2> QED BY <2>1 DEF FirstAccessOK
<1> QED BY <1>9, <1>18, <1>19, <1>20, <1>21

----------------------------------------------------------------------------
(* The tick of the eNodeB.                                                 *)

\* The tick of a receiver that keeps corrupted PDUs, as the eNodeB does, for
\* one process: a PDU grows older until its evaluation ends; then it leaves,
\* decoded or sent for the last time, or stays corrupted.
LEMMA KeepingTick ==
  ASSUME NEW proc \in RxProcess, proc.status # "CORRECT",
         proc.status = "EVALUATING" => proc.age < FbInterval
  PROVE  LET older == GrowOlder(proc)
             kept == Extract(Answer(older))
             ends == proc.status = "EVALUATING" /\ proc.age + 1 = FbInterval IN
         /\ IsEvaluated(older) <=> ends
         /\ older.pdu = proc.pdu /\ older.result = proc.result
         /\ Answer(older).status = "CORRECT" <=> ends /\ proc.result
         /\ proc.status # "EVALUATING" => kept = proc
         /\ proc.status = "EVALUATING" /\ ~ends =>
              kept = [proc EXCEPT !.age = @ + 1]
         /\ ends => IF proc.result \/ proc.transmissions = MaxHarqRtx + 1
                    THEN kept = ResetCodeword
                    ELSE /\ kept.status = "CORRUPTED" /\ kept.pdu = proc.pdu
                         /\ kept.transmissions = proc.transmissions
         /\ kept \in RxProcess
<1> DEFINE older == GrowOlder(proc)
           kept == Extract(Answer(older))
           ends == proc.status = "EVALUATING" /\ proc.age + 1 = FbInterval
<1>1. /\ older \in RxProcess /\ older.status = proc.status
      /\ older.pdu = proc.pdu /\ older.result = proc.result
  BY GrowOlderKeepsPdu
<1>2. ASSUME proc.status # "EVALUATING"
      PROVE  ~IsEvaluated(older) /\ Answer(older) = proc /\ kept = proc
  <2>1. older = proc /\ ~IsEvaluated(proc)
    BY <1>2 DEF GrowOlder, IsEvaluated
  <2> QED BY <2>1 DEF Answer, Extract
<1>3. ASSUME proc.status = "EVALUATING"
      PROVE  /\ older = [proc EXCEPT !.age = @ + 1]
             /\ older.age = proc.age + 1
             /\ older.transmissions = proc.transmissions
             /\ proc.age \in Nat
  BY <1>3 DEF GrowOlder, RxProcess
<1>4. ASSUME proc.status = "EVALUATING", ~ends
      PROVE  ~IsEvaluated(older) /\ Answer(older) = older /\ kept = older
  <2>1. ~IsEvaluated(older)
    BY <1>3, <1>4, Numbers DEF IsEvaluated
  <2> QED BY <1>1, <1>4, <2>1 DEF Answer, Extract
<1>5. ASSUME ends
      PROVE  /\ IsEvaluated(older) /\ Answer(older) = CreateFeedback(older)
  <2>1. IsEvaluated(older)
    BY <1>1, <1>3, <1>5, Numbers DEF IsEvaluated
  <2> QED BY <2>1 DEF Answer
<1> HIDE DEF older, ends
<1>6. ASSUME ends, proc.result
      PROVE  Answer(older).status = "CORRECT" /\ kept = ResetCodeword
  <2>1. Answer(older) = [older EXCEPT !.status = "CORRECT"]
    BY <1>1, <1>5, <1>6 DEF CreateFeedback
  <2>2. Answer(older).status = "CORRECT"
    BY <1>1, <2>1 DEF RxProcess
  <2> QED BY <2>2 DEF Extract
<1>7. ASSUME ends, ~proc.result, proc.transmissions = MaxHarqRtx + 1
      PROVE  Answer(older).status # "CORRECT" /\ kept = ResetCodeword
  <2>1. older.transmissions = proc.transmissions
    BY <1>3, <1>7 DEF ends
  <2>2. Answer(older) = ResetCodeword
    BY <1>1, <1>5, <1>7, <2>1 DEF CreateFeedback
  <2> QED BY <2>2 DEF Extract, ResetCodeword
<1>8. ASSUME ends, ~proc.result, proc.transmissions # MaxHarqRtx + 1
      PROVE  /\ Answer(older).status # "CORRECT"
             /\ kept \in RxProcess
             /\ kept.status = "CORRUPTED" /\ kept.pdu = proc.pdu
             /\ kept.transmissions = proc.transmissions
  <2>1. older.transmissions = proc.transmissions
    BY <1>3, <1>8 DEF ends
  <2>2. Answer(older) = [older EXCEPT !.status = "CORRUPTED"]
    BY <1>1, <1>5, <1>8, <2>1 DEF CreateFeedback
  <2>3. /\ Answer(older) \in RxProcess
        /\ Answer(older).status = "CORRUPTED" /\ Answer(older).pdu = proc.pdu
        /\ Answer(older).transmissions = proc.transmissions
    BY <1>1, <2>1, <2>2 DEF RxProcess, RxStatus
  <2> QED BY <2>3 DEF Extract
<1>9. kept \in RxProcess
  <2> HIDE DEF kept
  <2>1. CASE ends
    BY <1>6, <1>7, <1>8, <2>1, ResetCodewordType
  <2>2. CASE ~ends
    BY <1>1, <1>2, <1>4, <2>2
  <2> QED BY <2>1, <2>2
<1> HIDE DEF kept
<1>10. IsEvaluated(older) <=> ends
  BY <1>2, <1>4, <1>5 DEF ends
<1>11. Answer(older).status = "CORRECT" <=> ends /\ proc.result
  BY <1>1, <1>2, <1>4, <1>6, <1>7, <1>8 DEF ends
<1>12. ends => IF proc.result \/ proc.transmissions = MaxHarqRtx + 1
               THEN kept = ResetCodeword
               ELSE /\ kept.status = "CORRUPTED" /\ kept.pdu = proc.pdu
                    /\ kept.transmissions = proc.transmissions
  BY <1>6, <1>7, <1>8
<1>13. /\ proc.status # "EVALUATING" => kept = proc
       /\ proc.status = "EVALUATING" /\ ~ends => kept = [proc EXCEPT !.age = @ + 1]
  BY <1>2, <1>3, <1>4
<1> QED BY <1>1, <1>9, <1>10, <1>11, <1>12, <1>13 DEF older, kept, ends

\* The evaluation of process a ends in this tick of the eNodeB.
Ends(a) == rx[a].status = "EVALUATING" /\ rx[a].age + 1 = FbInterval

\* The reception of the eNodeB, process by process: what becomes of the PDU,
\* which feedback is sent and what is handed to macPduUnmake.
LEMMA EnbReceptionFacts ==
  ASSUME Inv, NEW d, EnbTick(d)
  PROVE  /\ rx' \in [Acid -> RxProcess]
         /\ deliveries' \in [Acid -> Nat]
         /\ \A a \in Acid :
              /\ rx[a].status # "EVALUATING" => rx'[a] = rx[a]
              /\ rx[a].status = "EVALUATING" /\ ~Ends(a) =>
                   rx'[a] = [rx[a] EXCEPT !.age = @ + 1]
              /\ Ends(a) =>
                   IF rx[a].result \/ rx[a].transmissions = MaxHarqRtx + 1
                   THEN rx'[a] = ResetCodeword
                   ELSE /\ rx'[a].status = "CORRUPTED" /\ rx'[a].pdu = rx[a].pdu
                        /\ rx'[a].transmissions = rx[a].transmissions
              /\ deliveries'[a] = IF Ends(a) /\ rx[a].result
                                  THEN deliveries[a] + 1 ELSE deliveries[a]
         /\ \A fb : fb \in FeedbackSent(OneTtiLater(rx)) <=>
              \E a \in Acid : /\ Ends(a)
                              /\ fb = [acid |-> a, pdu |-> rx[a].pdu,
                                       ack |-> rx[a].result]
<1> USE DEF Inv
<1> DEFINE older == OneTtiLater(rx)
<1>1. rx \in [Acid -> RxProcess] /\ deliveries \in [Acid -> Nat]
  BY TypeFacts
<1>2. \A a \in Acid : older[a] = GrowOlder(rx[a])
  BY DEF OneTtiLater
<1>3. rx' = [a \in Acid |-> Extract(Answer(older[a]))]
  BY DEF EnbTick, ExtractCorrectPdus
<1>4. deliveries' = [a \in Acid |-> IF \E p \in CorrectPdus(older) : p.acid = a
                                    THEN deliveries[a] + 1 ELSE deliveries[a]]
  BY DEF EnbTick
<1> HIDE DEF older
<1>5. ASSUME NEW a \in Acid
      PROVE  /\ IsEvaluated(older[a]) <=> Ends(a)
             /\ older[a].pdu = rx[a].pdu /\ older[a].result = rx[a].result
             /\ Answer(older[a]).status = "CORRECT" <=> Ends(a) /\ rx[a].result
             /\ rx[a].status # "EVALUATING" => rx'[a] = rx[a]
             /\ rx[a].status = "EVALUATING" /\ ~Ends(a) =>
                  rx'[a] = [rx[a] EXCEPT !.age = @ + 1]
             /\ Ends(a) =>
                  IF rx[a].result \/ rx[a].transmissions = MaxHarqRtx + 1
                  THEN rx'[a] = ResetCodeword
                  ELSE /\ rx'[a].status = "CORRUPTED" /\ rx'[a].pdu = rx[a].pdu
                       /\ rx'[a].transmissions = rx[a].transmissions
             /\ rx'[a] \in RxProcess
  <2>1. /\ rx[a] \in RxProcess /\ rx[a].status # "CORRECT"
        /\ rx[a].status = "EVALUATING" => rx[a].age < FbInterval
    BY <1>1 DEF ExchangesOK, EvaluationOK
  <2>2. rx'[a] = Extract(Answer(GrowOlder(rx[a]))) /\ older[a] = GrowOlder(rx[a])
    BY <1>2, <1>3
  <2> HIDE DEF Inv
  <2> QED BY <2>1, <2>2, KeepingTick DEF Ends
<1>6. \A a \in Acid : Ends(a) => rx[a].pdu.acid = a
  BY TypeFacts, NoPduAssumption
     DEF Ends, ExchangesOK, EvaluationOK, WaitsFor, UnitsOK, Status
<1>7. ASSUME NEW a \in Acid
      PROVE  (\E p \in CorrectPdus(older) : p.acid = a) <=> Ends(a) /\ rx[a].result
  <2>1. \A p : p \in CorrectPdus(older) <=>
                 \E b \in Acid : Ends(b) /\ rx[b].result /\ p = rx[b].pdu
    <3>1. \A b \in Acid : older[b].pdu = rx[b].pdu
                          /\ (Answer(older[b]).status = "CORRECT"
                                <=> Ends(b) /\ rx[b].result)
      BY <1>5
    <3> HIDE DEF Inv
    <3> QED BY <3>1 DEF CorrectPdus
  <2> QED BY <1>6, <2>1
<1>8. \A fb : fb \in FeedbackSent(older) <=>
         \E a \in Acid : /\ Ends(a)
                         /\ fb = [acid |-> a, pdu |-> rx[a].pdu,
                                  ack |-> rx[a].result]
  <2>1. \A b \in Acid : /\ older[b].pdu = rx[b].pdu /\ older[b].result = rx[b].result
                        /\ IsEvaluated(older[b]) <=> Ends(b)
    BY <1>5
  <2> HIDE DEF Inv
  <2> QED BY <2>1 DEF FeedbackSent
<1>9. rx' \in [Acid -> RxProcess]
  BY <1>3, <1>5
<1>10. /\ deliveries' \in [Acid -> Nat]
       /\ \A a \in Acid : deliveries'[a] = IF Ends(a) /\ rx[a].result
                                           THEN deliveries[a] + 1 ELSE deliveries[a]
  BY <1>1, <1>4, <1>7
<1> HIDE DEF Inv
<1> QED BY <1>5, <1>8, <1>9, <1>10 DEF older

\* After its tick the eNodeB is on the process that the UE uses in this TTI.
LEMMA CounterAfterTick ==
  ASSUME Inv, "enb" \notin ticked, NextHarqStatus # HarqNone
  PROVE  /\ NextHarqStatus \in Acid /\ firstTx /\ rxCreated
         /\ currentHarq = IF "ue" \in ticked THEN (NextHarqStatus + 1) % NumProc
                          ELSE NextHarqStatus
<1> USE DEF Inv
<1>1. rxCreated /\ firstTx
  BY DEF NextHarqStatus, CountersOK
<1>2. ticked = IF "ue" \in ticked THEN {"ue"} ELSE {}
  BY TypeFacts DEF Node
<1>3. {"ue"} # {"enb"} /\ {"ue"} # {} /\ {} # {"enb"}
  OBVIOUS
<1>4. CASE harqStatus = HarqNone
  <2>1. NextHarqStatus = 0
    BY <1>1, <1>4 DEF NextHarqStatus
  <2>2. currentHarq = IF "ue" \in ticked THEN 1 ELSE 0
    BY <1>1, <1>2, <1>3, <1>4 DEF CountersOK
  <2>3. 0 \in Acid /\ (0 + 1) % NumProc = 1
    BY Numbers DEF Acid
  <2> QED BY <1>1, <2>1, <2>2, <2>3
<1>5. CASE harqStatus # HarqNone
  <2>1. harqStatus \in Acid /\ NextHarqStatus = (harqStatus + 1) % NumProc
    BY <1>1, <1>5, TypeFacts DEF NextHarqStatus
  <2>2. currentHarq = IF "ue" \in ticked THEN (harqStatus + 2) % NumProc
                      ELSE (harqStatus + 1) % NumProc
    BY <1>2, <1>3, <1>5 DEF CountersOK
  <2>3. /\ NextHarqStatus \in Acid
        /\ (NextHarqStatus + 1) % NumProc = (harqStatus + 2) % NumProc
    <3>1. NextHarqStatus \in Acid
      BY <2>1, NextProcess
    <3> QED BY <2>1, <3>1, NextProcess, Numbers DEF Acid
  <2> QED BY <1>1, <2>1, <2>2, <2>3
<1> QED BY <1>4, <1>5

\* A grant for a retransmission is aimed at the process whose last turn was
\* NumProc - 2 TTIs ago, when it is sent.
LEMMA GrantAims ==
  ASSUME Inv, NEW d, EnbTick(d), NEW g \in Grant,
         GrantPkt(g) \in GrantsSent(d, NextHarqStatus)
  PROVE  /\ g.rtx # HarqNone => rx'[g.rtx].status = "CORRUPTED"
                                /\ Since(g.rtx) = NumProc - 2
         /\ ~firstTx => racPending
<1> USE DEF Inv
<1> DEFINE acid == NextHarqStatus
           b == (acid + 2) % NumProc
           backlogged == bsrPending \/ \E p \in CorrectPdus(OneTtiLater(rx)) : p.bsr
<1>1. Possible(d, rx', acid, backlogged) /\ "enb" \notin ticked
  BY DEF EnbTick
<1>2. g = [rtx |-> IF d.rtx THEN b ELSE HarqNone, new |-> d.new]
      /\ (d.rac \/ d.rtx \/ d.new)
  BY ToUePackets DEF GrantsSent
<1> HIDE DEF backlogged
<1>3. ASSUME g.rtx # HarqNone
      PROVE  rx'[g.rtx].status = "CORRUPTED" /\ Since(g.rtx) = NumProc - 2
  <2>1. d.rtx /\ g.rtx = b
    BY <1>2, <1>3
  <2>2. acid # HarqNone /\ rx'[b].status = "CORRUPTED"
    BY <1>1, <2>1 DEF Possible, CanRetransmit
  <2>3. /\ acid \in Acid
        /\ currentHarq = IF "ue" \in ticked THEN (acid + 1) % NumProc ELSE acid
    <3> HIDE DEF Inv
    <3> QED BY <1>1, <2>2, CounterAfterTick
  <2>4. Since(b) = NumProc - 2
    <3> HIDE DEF acid
    <3>1. b = IF acid + 2 >= NumProc THEN acid + 2 - NumProc ELSE acid + 2
      BY <2>3, NextProcess
    <3>2. (acid + 1) % NumProc = IF acid = NumProc - 1 THEN 0 ELSE acid + 1
      BY <2>3, NextProcess
    <3> HIDE DEF b, Inv
    <3>3. acid \in 0 .. NumProc - 1
      BY <2>3 DEF Acid
    <3>4. CASE "ue" \in ticked
      BY <2>3, <3>1, <3>2, <3>3, <3>4, Numbers DEF Since
    <3>5. CASE "ue" \notin ticked
      BY <2>3, <3>1, <3>3, <3>5, Numbers DEF Since
    <3> QED BY <3>4, <3>5
  <2> QED BY <2>1, <2>2, <2>4
<1>4. ASSUME ~firstTx PROVE racPending
  <2>1. acid = HarqNone
    BY <1>1, <1>4, CounterAfterTick
  <2>2. d.rac
    BY <1>1, <1>2, <2>1 DEF Possible, CanRetransmit, CanSendNew
  <2> QED BY <1>1, <2>2 DEF Possible
<1> QED BY <1>3, <1>4

\* The tick keeps every exchange on schedule.
LEMMA EnbTickExchanges ==
  ASSUME Inv, NEW d, EnbTick(d) PROVE UnitsOK' /\ ExchangesOK'
<1> USE DEF Inv
<1> DEFINE sent == FeedbackSent(OneTtiLater(rx))
<1>1. /\ "enb" \notin ticked /\ ticked' = ticked \cup {"enb"}
      /\ toUeSent' = toUeSent \cup {HarqPkt(fb) : fb \in sent}
                              \cup GrantsSent(d, NextHarqStatus)
      /\ UNCHANGED <<ueVars, toEnbSent, toEnb, toUe>>
  BY DEF EnbTick
<1>2. /\ \A a \in Acid :
           /\ rx[a].status # "EVALUATING" => rx'[a] = rx[a]
           /\ rx[a].status = "EVALUATING" /\ ~Ends(a) =>
                rx'[a] = [rx[a] EXCEPT !.age = @ + 1]
           /\ Ends(a) =>
                IF rx[a].result \/ rx[a].transmissions = MaxHarqRtx + 1
                THEN rx'[a] = ResetCodeword
                ELSE /\ rx'[a].status = "CORRUPTED" /\ rx'[a].pdu = rx[a].pdu
                     /\ rx'[a].transmissions = rx[a].transmissions
           /\ deliveries'[a] = IF Ends(a) /\ rx[a].result
                               THEN deliveries[a] + 1 ELSE deliveries[a]
      /\ \A fb : fb \in sent <=>
           \E a \in Acid : /\ Ends(a)
                           /\ fb = [acid |-> a, pdu |-> rx[a].pdu,
                                    ack |-> rx[a].result]
  <2> HIDE DEF Inv
  <2> QED BY EnbReceptionFacts
<1> HIDE DEF sent
<1>3. \A fb : HarqPkt(fb) \in toUeSent' <=> HarqPkt(fb) \in toUeSent \/ fb \in sent
  BY <1>1, ToUePackets DEF GrantsSent
<1>4. UnitsOK' /\ tx' = tx
  BY <1>1 DEF UnitsOK, ueVars
<1>5. \A b : Since(b)' = Since(b)
  BY <1>1, SinceKept DEF ueVars
<1>6. \A b, q, n : WaitsFor(b, q, n)' <=> WaitsFor(b, q, n)
  BY <1>4, <1>5 DEF WaitsFor
<1>7. \A a \in Acid : rx[a].status # "EVALUATING" =>
        rx'[a] = rx[a] /\ deliveries'[a] = deliveries[a]
  BY <1>2 DEF Ends
<1>8. ASSUME NEW f \in DataFrame, NEW n, FrameOK(f, n) PROVE FrameOK(f, n)'
  <2>1. f.acid \in Acid /\ rx[f.acid].status # "EVALUATING"
    BY <1>8, TypeFacts DEF FrameOK
  <2> QED BY <1>4, <1>6, <1>7, <1>8, <2>1 DEF FrameOK
<1>e. ASSUME NEW a \in Acid, rx[a].status = "EVALUATING"
      PROVE  /\ Status(tx, a) = "WAITING" /\ tx.unit[a].pdu = rx[a].pdu
             /\ rx[a].transmissions = tx.unit[a].transmissions
             /\ rx[a].age \in Nat /\ rx[a].age < FbInterval
             /\ Since(a) = rx[a].age + 2 /\ deliveries[a] = 0
             /\ rx[a].pdu \in Pdu /\ rx[a].pdu.acid = a
  <2>1. EvaluationOK(a)
    BY <1>e DEF ExchangesOK
  <2>2. WaitsFor(a, rx[a].pdu, rx[a].age + 2)
    BY <1>1, <2>1 DEF EvaluationOK
  <2>3. Status(tx, a) = "WAITING" /\ tx.unit[a].pdu = rx[a].pdu
    BY <2>2 DEF WaitsFor
  <2>4. rx[a].pdu \in Pdu /\ rx[a].pdu.acid = a
    BY <2>3, TypeFacts DEF UnitsOK
  <2>5. rx[a].age \in Nat
    BY TypeFacts
  <2> QED BY <2>1, <2>2, <2>3, <2>4, <2>5 DEF EvaluationOK, RxHolds, WaitsFor
<1>9. ASSUME NEW a \in Acid, rx'[a].status = "EVALUATING" PROVE EvaluationOK(a)'
  <2>1. rx[a].status = "EVALUATING"
    BY <1>7, <1>9
  <2>2. ~Ends(a)
    <3> SUFFICES ASSUME Ends(a) PROVE FALSE
      OBVIOUS
    <3>1. rx'[a] = ResetCodeword \/ rx'[a].status = "CORRUPTED"
      BY <1>2
    <3> QED BY <1>9, <3>1 DEF ResetCodeword
  <2>3. rx'[a] = [rx[a] EXCEPT !.age = @ + 1]
    BY <1>2, <2>1, <2>2
  <2>4. /\ rx'[a].status = "EVALUATING" /\ rx'[a].pdu = rx[a].pdu
        /\ rx'[a].age = rx[a].age + 1 /\ rx'[a].transmissions = rx[a].transmissions
    BY <1>9, <2>3, TypeFacts DEF RxProcess
  <2>5. deliveries'[a] = 0
    <3>1. deliveries'[a] = deliveries[a]
      BY <1>2, <2>2
    <3> QED BY <1>e, <2>1, <3>1
  <2>6. WaitsFor(a, rx[a].pdu, rx[a].age + 1)'
    BY <1>4, <1>5, <1>e, <2>1, <2>4 DEF WaitsFor
  <2>7. RxHolds(a, "EVALUATING")'
    BY <1>4, <1>e, <2>1, <2>4 DEF RxHolds
  <2>8. rx'[a].age < FbInterval
    BY <1>e, <2>1, <2>2, <2>4, Numbers DEF Ends
  <2> HIDE DEF Inv
  <2> QED BY <1>1, <2>5, <2>6, <2>7, <2>8 DEF EvaluationOK
<1>10. ASSUME NEW fb \in Feedback, NEW n, FeedbackOK(fb, n) PROVE FeedbackOK(fb, n)'
  <2>1. fb.acid \in Acid /\ rx[fb.acid].status # "EVALUATING"
    BY <1>10, TypeFacts DEF FeedbackOK, RxHolds
  <2>2. rx'[fb.acid] = rx[fb.acid] /\ deliveries'[fb.acid] = deliveries[fb.acid]
    BY <1>7, <2>1
  <2>3. RxHolds(fb.acid, "CORRUPTED")' <=> RxHolds(fb.acid, "CORRUPTED")
    BY <1>4, <2>2 DEF RxHolds
  <2> QED BY <1>4, <1>6, <1>10, <2>2, <2>3 DEF FeedbackOK
<1>11. ASSUME NEW a \in Acid, Ends(a),
              NEW fb, fb = [acid |-> a, pdu |-> rx[a].pdu, ack |-> rx[a].result]
       PROVE  fb \in Feedback /\ fb \in sent /\ FeedbackOK(fb, FbInterval + 1)'
  <2>1. /\ rx[a].status = "EVALUATING" /\ rx[a].age + 1 = FbInterval
        /\ rx[a].result \in BOOLEAN
    BY <1>11, TypeFacts DEF Ends
  <2>2. fb.acid = a /\ fb.pdu = rx[a].pdu /\ fb.ack = rx[a].result
    BY <1>11
  <2>3. fb \in Feedback
    BY <1>e, <1>11, <2>1 DEF Feedback
  <2>4. fb \in sent
    BY <1>2, <1>11
  <2>5. WaitsFor(a, fb.pdu, FbInterval + 1)'
    BY <1>4, <1>5, <1>e, <2>1, <2>2 DEF WaitsFor
  <2>6. /\ rx[a].result \/ rx[a].transmissions = MaxHarqRtx + 1 =>
             rx'[a] = ResetCodeword
        /\ ~(rx[a].result \/ rx[a].transmissions = MaxHarqRtx + 1) =>
             /\ rx'[a].status = "CORRUPTED" /\ rx'[a].pdu = rx[a].pdu
             /\ rx'[a].transmissions = rx[a].transmissions
        /\ deliveries'[a] = IF rx[a].result THEN deliveries[a] + 1 ELSE deliveries[a]
    BY <1>2, <1>11
  <2> HIDE DEF Inv
  <2>7. IF fb.ack \/ tx'.unit[a].transmissions = MaxHarqRtx + 1
        THEN rx'[a].status = "EMPTY" ELSE RxHolds(a, "CORRUPTED")'
    <3>1. rx[a].transmissions = tx'.unit[a].transmissions
          /\ rx[a].pdu = tx'.unit[a].pdu
      BY <1>4, <1>e, <2>1
    <3>2. CASE rx[a].result \/ rx[a].transmissions = MaxHarqRtx + 1
      BY <2>2, <2>6, <3>1, <3>2 DEF ResetCodeword
    <3>3. CASE ~(rx[a].result \/ rx[a].transmissions = MaxHarqRtx + 1)
      <4>1. RxHolds(a, "CORRUPTED")'
        BY <2>6, <3>1, <3>3 DEF RxHolds
      <4> QED BY <2>2, <3>1, <3>3, <4>1
    <3> QED BY <3>2, <3>3
  <2>8. deliveries'[a] = IF fb.ack THEN 1 ELSE 0
    <3>1. deliveries[a] = 0
      BY <1>e, <2>1
    <3> QED BY <2>1, <2>2, <2>6, <3>1
  <2>9. FeedbackOK(fb, FbInterval + 1)'
    BY <2>2, <2>5, <2>7, <2>8 DEF FeedbackOK
  <2> QED BY <2>3, <2>4, <2>9
<1>12. ASSUME NEW a \in Acid
       PROVE  /\ Status(tx, a)' = "WAITING" =>
                   \/ DataUnderway(a)' \/ rx'[a].status = "EVALUATING"
                   \/ FeedbackUnderway(a)'
              /\ IsReady(tx, a)' =>
                   RxHolds(a, "CORRUPTED")' /\ deliveries'[a] = 0
              /\ Status(tx, a)' = "EMPTY" =>
                   rx'[a].status = "EMPTY" /\ deliveries'[a] = 0
              /\ rx'[a].status = "EMPTY" => rx'[a] = ResetCodeword
              /\ rx'[a].status # "CORRECT"
              /\ rx'[a].pdu # NoPdu => rx'[a].pdu.acid = a
  <2>1. DataUnderway(a)' <=> DataUnderway(a)
    BY <1>1 DEF DataUnderway
  <2>2. FeedbackUnderway(a) => FeedbackUnderway(a)'
    BY <1>1 DEF FeedbackUnderway
  <2>3. CASE rx[a].status # "EVALUATING"
    <3>1. tx' = tx /\ rx'[a] = rx[a] /\ deliveries'[a] = deliveries[a]
      BY <1>4, <1>7, <2>3
    <3>2. /\ Status(tx, a)' = Status(tx, a) /\ (IsReady(tx, a)' <=> IsReady(tx, a))
          /\ RxHolds(a, "CORRUPTED")' <=> RxHolds(a, "CORRUPTED")
      BY <3>1 DEF RxHolds
    <3> QED BY <2>1, <2>2, <3>1, <3>2 DEF ExchangesOK
  <2>4. CASE rx[a].status = "EVALUATING"
    <3>1. Status(tx, a) = "WAITING" /\ rx[a].pdu.acid = a
      BY <1>e, <2>4
    <3>2. CASE Ends(a)
      <4>1. FeedbackUnderway(a)'
        <5> DEFINE fb == [acid |-> a, pdu |-> rx[a].pdu, ack |-> rx[a].result]
        <5>1. fb \in Feedback /\ fb \in sent /\ fb.acid = a
          BY <1>11, <3>2
        <5>2. HarqPkt(fb) \in toUeSent'
          BY <1>3, <5>1
        <5> HIDE DEF fb
        <5> QED BY <5>1, <5>2 DEF FeedbackUnderway
      <4>2. \/ rx'[a] = ResetCodeword
            \/ rx'[a].status = "CORRUPTED" /\ rx'[a].pdu = rx[a].pdu
        BY <1>2, <3>2
      <4> HIDE DEF Inv
      <4> QED BY <1>4, <3>1, <4>1, <4>2 DEF IsReady, ResetCodeword
    <3>3. CASE ~Ends(a)
      <4>1. rx'[a] = [rx[a] EXCEPT !.age = @ + 1]
        BY <1>2, <2>4, <3>3
      <4>2. rx'[a].status = "EVALUATING" /\ rx'[a].pdu = rx[a].pdu
        BY <2>4, <4>1, TypeFacts DEF RxProcess
      <4> QED BY <1>4, <3>1, <4>2 DEF IsReady
    <3> QED BY <3>2, <3>3
  <2> QED BY <2>3, <2>4
<1>13. ExchangesOK'
  <2>1. \A f \in DataFrame : /\ DataPkt(f) \in toEnbSent' => FrameOK(f, 0)'
                             /\ DataPkt(f) \in toEnb' => FrameOK(f, 1)'
    BY <1>1, <1>8 DEF ExchangesOK
  <2>2. \A fb \in Feedback :
          /\ HarqPkt(fb) \in toUeSent' => FeedbackOK(fb, FbInterval + 1)'
          /\ HarqPkt(fb) \in toUe' => FeedbackOK(fb, FbInterval + 2)'
    <3>1. ASSUME NEW fb \in sent PROVE FeedbackOK(fb, FbInterval + 1)'
      <4>1. PICK a \in Acid : /\ Ends(a)
                              /\ fb = [acid |-> a, pdu |-> rx[a].pdu,
                                       ack |-> rx[a].result]
        BY <1>2, <3>1
      <4> QED BY <1>11, <4>1
    <3> QED BY <1>1, <1>3, <1>10, <3>1 DEF ExchangesOK
  <2> HIDE DEF Inv
  <2> QED BY <1>9, <1>12, <2>1, <2>2 DEF ExchangesOK
<1> QED BY <1>4, <1>13

LEMMA EnbTickInv == ASSUME Inv, NEW d \in Decision, EnbTick(d) PROVE Inv'
<1> USE DEF Inv
<1> DEFINE sent == FeedbackSent(OneTtiLater(rx))
           backlogged == bsrPending \/ \E p \in CorrectPdus(OneTtiLater(rx)) : p.bsr
<1>1. /\ "enb" \notin ticked /\ ticked' = ticked \cup {"enb"}
      /\ harqStatus' = NextHarqStatus /\ racPending' = FALSE
      /\ bsrPending' \in IF d.new THEN BOOLEAN ELSE {backlogged}
      /\ toUeSent' = toUeSent \cup {HarqPkt(fb) : fb \in sent}
                              \cup GrantsSent(d, NextHarqStatus)
      /\ UNCHANGED <<ueVars, rxCreated, toEnbSent, toEnb, toUe, err>>
  BY DEF EnbTick
<1>2. UnitsOK' /\ ExchangesOK'
  <2> HIDE DEF Inv
  <2> QED BY EnbTickExchanges
<1>3. rx' \in [Acid -> RxProcess] /\ deliveries' \in [Acid -> Nat]
  <2> HIDE DEF Inv
  <2> QED BY EnbReceptionFacts
<1>4. bsrPending' \in BOOLEAN
  <2>1. backlogged \in BOOLEAN
    BY DEF TypeOK
  <2> HIDE DEF backlogged
  <2> QED BY <1>1, <2>1
<1> HIDE DEF backlogged
<1>5. NextHarqStatus \in Acid \cup {HarqNone}
  <2> HIDE DEF Inv
  <2> QED BY <1>1, CounterAfterTick
<1>6. GrantsSent(d, NextHarqStatus) \subseteq {GrantPkt(g) : g \in Grant}
  <2>1. d.rtx \in BOOLEAN /\ d.new \in BOOLEAN
    BY DEF Decision
  <2>2. CASE NextHarqStatus = HarqNone
    <3>1. ~d.rtx
      BY <2>2 DEF EnbTick, Possible, CanRetransmit
    <3> QED BY <2>1, <3>1 DEF GrantsSent, Grant
  <2>3. CASE NextHarqStatus \in Acid
    <3>1. (NextHarqStatus + 2) % NumProc \in Acid
      BY <2>3, NextProcess
    <3> QED BY <2>1, <3>1 DEF GrantsSent, Grant
  <2> QED BY <1>5, <2>2, <2>3
<1>7. \A fb \in sent : fb \in Feedback
  <2>1. ASSUME NEW a \in Acid, Ends(a)
        PROVE  [acid |-> a, pdu |-> rx[a].pdu, ack |-> rx[a].result] \in Feedback
    <3>1. /\ rx[a].pdu = tx.unit[a].pdu /\ Status(tx, a) = "WAITING"
          /\ rx[a].result \in BOOLEAN
      BY <2>1, TypeFacts DEF Ends, ExchangesOK, EvaluationOK, RxHolds, WaitsFor
    <3>2. rx[a].pdu \in Pdu
      BY <3>1, TypeFacts DEF UnitsOK
    <3> QED BY <3>1, <3>2 DEF Feedback
  <2>2. \A fb : fb \in sent =>
          \E a \in Acid : /\ Ends(a)
                          /\ fb = [acid |-> a, pdu |-> rx[a].pdu,
                                   ack |-> rx[a].result]
    <3> HIDE DEF Inv
    <3> QED BY EnbReceptionFacts
  <2> HIDE DEF Inv, sent
  <2> QED BY <2>1, <2>2
<1> HIDE DEF sent
<1>8. TypeOK'
  <2>1. toUeSent' \subseteq ToUeFrame
    BY <1>1, <1>6, <1>7, ToUePackets DEF TypeOK
  <2> QED BY <1>1, <1>3, <1>4, <1>5, <2>1 DEF TypeOK, ueVars, Node
<1>9. NoRuntimeError'
  BY <1>1 DEF NoRuntimeError
<1>10. CountersOK'
  <2>1. NextHarqStatus # HarqNone =>
          /\ NextHarqStatus \in Acid
          /\ currentHarq = IF "ue" \in ticked THEN (NextHarqStatus + 1) % NumProc
                           ELSE NextHarqStatus
    <3> HIDE DEF Inv
    <3> QED BY <1>1, CounterAfterTick
  <2>2. ticked' = IF "ue" \in ticked THEN Node ELSE {"enb"}
    BY <1>1, TypeFacts DEF Node
  <2>3. Node # {"enb"} /\ Node # {"ue"} /\ {"enb"} # {"ue"}
    BY DEF Node
  <2>4. UNCHANGED <<tx, firstTx, rxCreated, toEnb, toEnbSent, currentHarq>>
    BY <1>1 DEF ueVars
  <2>5. /\ rxCreated => NextHarqStatus # HarqNone
        /\ ~rxCreated => NextHarqStatus = HarqNone
    <3>1. ~rxCreated => harqStatus = HarqNone
      BY DEF CountersOK
    <3>2. harqStatus # HarqNone => harqStatus \in Acid
      BY TypeFacts
    <3> QED BY <3>1, <3>2, NextProcess, NoneIsNoProcess, Numbers
            DEF NextHarqStatus, Acid, HarqNone
  <2>6. harqStatus' # HarqNone =>
          currentHarq' = CASE ticked' = {"enb"} -> harqStatus'
                           [] ticked' = {"ue"} -> (harqStatus' + 2) % NumProc
                           [] OTHER -> (harqStatus' + 1) % NumProc
    BY <1>1, <2>1, <2>2, <2>3, <2>4
  <2>7. /\ (~firstTx => \A a \in Acid : Status(tx, a) = "EMPTY")'
        /\ (rxCreated => firstTx)'
        /\ (~rxCreated =>
              /\ \A f \in DataFrame : DataPkt(f) \in toEnb => f.acid = NumProc - 2
              /\ firstTx => DataUnderway(NumProc - 2))'
    BY <2>4 DEF CountersOK, DataUnderway
  <2>8. /\ (~rxCreated)' => harqStatus' = HarqNone
        /\ rxCreated' => harqStatus' # HarqNone
    BY <1>1, <2>4, <2>5
  <2> HIDE DEF Inv
  <2> QED BY <2>6, <2>7, <2>8 DEF CountersOK
<1>11. GrantsOK'
  <2>1. ASSUME NEW g, NEW n, g.rtx \in Acid \cup {HarqNone}, GrantOK(g, n)
        PROVE  GrantOK(g, n)'
    <3>1. \A a \in Acid : rx[a].status # "EVALUATING" => rx'[a] = rx[a]
      <4> HIDE DEF Inv
      <4> QED BY EnbReceptionFacts
    <3>2. Since(g.rtx)' = Since(g.rtx)
      BY <1>1, SinceKept DEF ueVars
    <3> QED BY <2>1, <3>1, <3>2 DEF GrantOK
  <2>2. ASSUME NEW g \in Grant, GrantPkt(g) \in toUeSent'
        PROVE  GrantOK(g, NumProc - 2)'
    <3>1. CASE GrantPkt(g) \in toUeSent
      BY <2>1, <3>1, TypeFacts DEF GrantsOK
    <3>2. CASE GrantPkt(g) \in GrantsSent(d, NextHarqStatus)
      <4>1. g.rtx # HarqNone => rx'[g.rtx].status = "CORRUPTED"
                                /\ Since(g.rtx) = NumProc - 2
        <5> HIDE DEF Inv
        <5> QED BY <3>2, GrantAims
      <4>2. Since(g.rtx)' = Since(g.rtx)
        BY <1>1, SinceKept DEF ueVars
      <4> QED BY <4>1, <4>2 DEF GrantOK
    <3> QED BY <1>1, <2>2, <3>1, <3>2, ToUePackets
  <2>3. grant # NoGrant => grant.rtx \in Acid \cup {HarqNone}
    BY TypeFacts DEF TypeOK
  <2>4. grant' = grant /\ toUe' = toUe /\ ("ue" \in ticked' <=> "ue" \in ticked)
    BY <1>1 DEF ueVars
  <2> QED BY <2>1, <2>2, <2>3, <2>4, TypeFacts DEF GrantsOK
<1>12. FirstAccessOK'
  <2>1. UNCHANGED <<firstTx, grant, bsrTriggered, toUe>>
    BY <1>1 DEF ueVars
  <2>2. ASSUME ~firstTx, NEW g \in Grant, GrantPkt(g) \in toUeSent'
        PROVE  bsrTriggered \/ RacPkt \in toUe
    <3>1. CASE GrantPkt(g) \in toUeSent
      BY <2>2, <3>1 DEF FirstAccessOK
    <3>2. CASE GrantPkt(g) \in GrantsSent(d, NextHarqStatus)
      <4>1. racPending
        <5> HIDE DEF Inv
        <5> QED BY <2>2, <3>2, GrantAims
      <4> QED BY <1>1, <2>2, <4>1 DEF FirstAccessOK
    <3> QED BY <1>1, <2>2, <3>1, <3>2, ToUePackets
  <2> QED BY <1>1, <2>1, <2>2 DEF FirstAccessOK
<1> QED BY <1>2, <1>8, <1>9, <1>10, <1>11, <1>12

----------------------------------------------------------------------------
(* The theorems.                                                           *)

LEMMA InvStep == Inv /\ [Next]_vars => Inv'
<1> SUFFICES ASSUME Inv, [Next]_vars PROVE Inv'
  OBVIOUS
<1>1. CASE SduArrives
  BY <1>1, SduArrivesInv
<1>2. CASE UeStep
  BY <1>2, ChecksRacInv, RetransmitsInv, TransmitsInv, WastesGrantInv DEF UeStep
<1>3. CASE EnbStep
  BY <1>3, EnbTickInv DEF EnbStep
<1>4. CASE Arrival
  BY <1>4, EnbReceivesDataInv, EnbReceivesRacInv, UeReceivesFeedbackInv,
     UeReceivesGrantInv, UeReceivesRacInv DEF Arrival
<1>5. CASE NextTti
  BY <1>5, NextTtiInv
<1>6. CASE UNCHANGED vars
  BY <1>6, StutterInv
<1> QED BY <1>1, <1>2, <1>3, <1>4, <1>5, <1>6 DEF Next

\* The strengthening holds in every reachable state.
THEOREM InvInvariant == Spec => []Inv
  BY InitInv, InvStep, PTL DEF Spec

\* Every variable keeps its type: both MACs, the packets on the air and the
\* history.
THEOREM TypeInvariant == Spec => []TypeOK
<1>1. Inv => TypeOK
  BY DEF Inv
<1> QED BY InvInvariant, <1>1, PTL

\* No cRuntimeError of the H-ARQ classes is ever thrown in the uplink,
\* although no grant names the process it is for.
THEOREM NeverThrows == Spec => []NoRuntimeError
<1>1. Inv => NoRuntimeError
  BY DEF Inv
<1> QED BY InvInvariant, <1>1, PTL

\* currentHarq_ of the UE and harqStatus_ of the eNodeB, started at different
\* times by different events, stay one process apart.
THEOREM CountersStayInStep == Spec => []ProcessesInStep
<1>1. Inv => ProcessesInStep
  <2> SUFFICES ASSUME Inv, harqStatus # HarqNone, ticked \in {{}, Node}
               PROVE  currentHarq = (harqStatus + 1) % NumProc
    BY DEF ProcessesInStep
  <2>1. ticked # {"enb"} /\ ticked # {"ue"}
    BY DEF Node
  <2> QED BY <2>1 DEF Inv, CountersOK
<1> QED BY InvInvariant, <1>1, PTL

\* A grant for a retransmission finds the UE on its process, with the PDU
\* there to send.
THEOREM GrantsFindTheirProcess == Spec => []GrantFindsItsProcess
<1>1. Inv => GrantFindsItsProcess
  <2> SUFFICES ASSUME Inv, grant # NoGrant, grant.rtx # HarqNone, ticked = {}
               PROVE  firstTx /\ grant.rtx = currentHarq /\ IsReady(tx, grant.rtx)
    BY DEF GrantFindsItsProcess
  <2> DEFINE a == grant.rtx
  <2>1. a \in Acid /\ currentHarq \in Acid
    BY TypeFacts DEF Inv, TypeOK
  <2>2. rx[a].status = "CORRUPTED" /\ Since(a) = NumProc
    BY DEF Inv, GrantsOK, GrantOK
  <2>3. a = currentHarq
    BY <2>1, <2>2, SinceFacts
  <2>4. Status(tx, a) # "EMPTY"
    BY <2>1, <2>2 DEF Inv, ExchangesOK
  <2>5. firstTx
    BY <2>1, <2>4 DEF Inv, CountersOK
  <2>6. Status(tx, a) # "WAITING"
    <3> SUFFICES ASSUME Status(tx, a) = "WAITING" PROVE FALSE
      OBVIOUS
    <3>1. ~DataUnderway(a)
      BY <2>2, Numbers DEF Inv, ExchangesOK, DataUnderway, FrameOK, WaitsFor
    <3>2. ~FeedbackUnderway(a)
      BY <2>2, Numbers DEF Inv, ExchangesOK, FeedbackUnderway, FeedbackOK, WaitsFor
    <3> QED BY <2>1, <2>2, <3>1, <3>2 DEF Inv, ExchangesOK
  <2>7. Status(tx, a) # "SELECTED"
    BY <2>1, NoneIsNoProcess DEF Inv, UnitsOK, CountersMatchUnits
  <2>8. IsReady(tx, a)
    BY <2>1, <2>4, <2>6, <2>7, TypeFacts DEF Inv, IsReady, Status, TxStatus
  <2> QED BY <2>3, <2>5, <2>8
<1> QED BY InvInvariant, <1>1, PTL

\* Transmitter and receiver agree on every PDU that awaits retransmission.
THEOREM SidesAgree == Spec => []RetransmissionsAgree
<1>1. Inv => RetransmissionsAgree
  BY DEF Inv, ExchangesOK, RxHolds, RetransmissionsAgree
<1> QED BY InvInvariant, <1>1, PTL

\* Nothing is left, on the air or at the eNodeB, of the last PDU of a process
\* that is free.
THEOREM FreeProcessForgotten == Spec => []FreeMeansForgotten
<1>1. Inv => FreeMeansForgotten
  <2> SUFFICES ASSUME Inv, NEW a \in Acid, Status(tx, a) = "EMPTY"
               PROVE  /\ rx[a].status = "EMPTY"
                      /\ \A m \in toEnbSent \cup toEnb :
                           m.type = "DATAPKT" => m.frame.acid # a
                      /\ \A m \in toUeSent \cup toUe :
                           m.type = "HARQPKT" => m.feedback.acid # a
    BY DEF FreeMeansForgotten
  <2>1. rx[a].status = "EMPTY"
    BY DEF Inv, ExchangesOK
  <2>2. ASSUME NEW m \in toEnbSent \cup toEnb, m.type = "DATAPKT"
        PROVE  m.frame.acid # a
    <3>1. m.frame \in DataFrame /\ m = DataPkt(m.frame)
      BY <2>2, ToEnbPackets DEF Inv, TypeOK
    <3>2. Status(tx, m.frame.acid) = "WAITING"
      BY <2>2, <3>1 DEF Inv, ExchangesOK, FrameOK, WaitsFor
    <3> QED BY <3>2
  <2>3. ASSUME NEW m \in toUeSent \cup toUe, m.type = "HARQPKT"
        PROVE  m.feedback.acid # a
    <3>1. m.feedback \in Feedback /\ m = HarqPkt(m.feedback)
      BY <2>3, ToUePackets DEF Inv, TypeOK
    <3>2. Status(tx, m.feedback.acid) = "WAITING"
      BY <2>3, <3>1 DEF Inv, ExchangesOK, FeedbackOK, WaitsFor
    <3> QED BY <3>2
  <2> QED BY <2>1, <2>2, <2>3
<1> QED BY InvInvariant, <1>1, PTL

\* Only feedback frees a process of the UE.
LEMMA TickFreesNone ==
  ASSUME TypeOK, UeStep, NEW a \in Acid, Status(tx, a) # "EMPTY"
  PROVE  Status(tx', a) # "EMPTY"
<1>1. tx.unit \in [Acid -> TxUnit]
  BY TypeFacts
<1>2. ASSUME NEW buf, Status(buf, a) # "EMPTY"
      PROVE  Status(SendSelectedDown(buf), a) # "EMPTY"
  BY <1>2 DEF Status, SendSelectedDown
<1>3. CASE UeTickChecksRac
  BY <1>3 DEF UeTickChecksRac
<1>4. CASE UeTickRetransmits
  <2>1. Status(MarkSelected(tx, UsedHarq), a) # "EMPTY"
    BY <1>1 DEF Status, MarkSelected, TxUnit
  <2> QED BY <1>2, <1>4, <2>1 DEF UeTickRetransmits, UseGrant
<1>5. ASSUME NEW served \in 0 .. sdus, UeTickTransmits(served)
      PROVE  Status(tx', a) # "EMPTY"
  <2> DEFINE p == NewPdu(UsedHarq, bsrTriggered)
  <2>1. Status(InsertPdu(tx, UsedHarq, p), a) # "EMPTY"
    BY <1>1 DEF Status, InsertPdu
  <2> QED BY <1>2, <1>5, <2>1 DEF UeTickTransmits, UseGrant
<1>6. CASE UeTickWastesGrant
  BY <1>2, <1>6 DEF UeTickWastesGrant, UseGrant
<1> QED BY <1>3, <1>4, <1>5, <1>6 DEF UeStep

\* The feedback that frees a process finds its PDU delivered once and
\* acknowledged, or never delivered and at its last transmission.
LEMMA FeedbackSettles ==
  ASSUME Inv, NEW m \in toUe, UeReceivesFeedback(m), NEW a \in Acid,
         Status(tx, a) # "EMPTY", Status(tx', a) = "EMPTY"
  PROVE  \/ deliveries[a] = 1
         \/ /\ deliveries[a] = 0
            /\ tx.unit[a].transmissions = MaxHarqRtx + 1
<1> DEFINE fb == m.feedback
           c == fb.acid
           n == tx.unit[c].transmissions
           resets == FeedbackResets(tx, fb)
<1>1. /\ fb \in Feedback /\ m = HarqPkt(fb)
      /\ c \in Acid /\ fb.pdu \in Pdu /\ fb.ack \in BOOLEAN
      /\ tx \in TxBuffer /\ CountersMatchUnits(tx) /\ tx.selectedAcid = HarqNone
      /\ tx.unit \in [Acid -> TxUnit]
  BY ToUePackets, TypeFacts DEF Inv, TypeOK, UeReceivesFeedback, UnitsOK
<1>2. FeedbackOK(fb, FbInterval + 2)
  BY <1>1 DEF Inv, ExchangesOK
<1>3. /\ Status(tx, c) = "WAITING" /\ tx.unit[c].pdu = fb.pdu
      /\ deliveries[c] = IF fb.ack THEN 1 ELSE 0
      /\ n \in 1 .. MaxHarqRtx + 1
  BY <1>1, <1>2 DEF Inv, FeedbackOK, WaitsFor, UnitsOK
<1>4. ReceiveFeedback(tx, fb).unit =
        [tx.unit EXCEPT ![c] =
           IF resets THEN ResetUnit
           ELSE [status |-> "BUFFERED", pdu |-> fb.pdu, transmissions |-> n]]
  BY <1>1, <1>3, FeedbackAccepted
<1>5. tx' = ReceiveFeedback(tx, fb)
  BY DEF UeReceivesFeedback
<1>6. resets <=> fb.ack \/ n = MaxHarqRtx + 1
  BY DEF FeedbackResets, IsLastAttempt
<1> HIDE DEF n, resets
<1>7. a = c
  BY <1>1, <1>4, <1>5 DEF Status
<1>8. resets
  BY <1>1, <1>4, <1>5, <1>7 DEF Status
<1> QED BY <1>3, <1>6, <1>7, <1>8 DEF n

\* A PDU leaves the UE delivered once and acknowledged, or never delivered
\* and given up after maxHarqRtx + 1 transmissions.
THEOREM PdusSettledOnce == Spec => SettledOnce
<1>1. ASSUME Inv, Next, NEW a \in Acid,
             Status(tx, a) # "EMPTY", Status(tx', a) = "EMPTY"
      PROVE  \/ deliveries[a] = 1
             \/ /\ deliveries[a] = 0
                /\ tx.unit[a].transmissions = MaxHarqRtx + 1
  <2>1. tx' # tx /\ TypeOK
    BY <1>1 DEF Inv
  <2>2. ~UeStep
    BY <1>1, <2>1, TickFreesNone
  <2>3. ~SduArrives /\ ~NextTti /\ ~EnbStep
    BY <2>1 DEF SduArrives, NextTti, EnbStep, EnbTick, ueVars
  <2>4. \A m : /\ ~EnbReceivesData(m) /\ ~EnbReceivesRac(m)
               /\ ~UeReceivesGrant(m) /\ ~UeReceivesRac(m)
    BY <2>1 DEF EnbReceivesData, EnbReceivesRac, EnbReceives, UeReceivesGrant,
                UeReceivesRac, ueVars
  <2>5. PICK m \in toUe : UeReceivesFeedback(m)
    BY <1>1, <2>2, <2>3, <2>4 DEF Next, Arrival
  <2> QED BY <1>1, <2>5, FeedbackSettles
<1>2. Inv /\ [Next]_vars =>
        [\A a \in Acid :
           Status(tx, a) # "EMPTY" /\ Status(tx', a) = "EMPTY" =>
             \/ deliveries[a] = 1
             \/ /\ deliveries[a] = 0
                /\ tx.unit[a].transmissions = MaxHarqRtx + 1]_vars
  BY <1>1
<1> QED BY InvInvariant, <1>2, PTL DEF Spec, SettledOnce
============================================================================
