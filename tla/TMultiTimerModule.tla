------------------------- MODULE TMultiTimerModule -------------------------
(***************************************************************************)
(* A module with one multi-timer, as AmTxQueue and UmRxQueue have: it adds *)
(* and removes events as it likes, with positive times, and passes each    *)
(* timer message on to handle().                                           *)
(***************************************************************************)
EXTENDS TMultiTimer

CONSTANTS Event,       \* what timeouts are for: numbers of PDUs or packets
          MaxTime      \* bound on the times asked for

ASSUME MaxTimeAssumption == MaxTime \in Nat

VARIABLES
  timer,
  expired      \* the event of the last timer message, or {} after other steps

vars == <<timer, expired>>

TypeOK ==
  /\ timer \in [list : Seq(Entry(Event)), armed : SUBSET Entry(Event), busy : BOOLEAN]
  /\ expired \subseteq Event

Init == timer = IdleTimer /\ expired = {}

Add(e, time) ==
  /\ ~TimerAddThrows(timer, e)
  /\ timer' = TimerAdd(timer, time, e)
  /\ expired' = {}

Cancel(e) ==
  /\ ~TimerRemoveThrows(timer, e)
  /\ timer' = TimerRemove(timer, e)
  /\ expired' = {}

\* handleMessage: the message m names its event, handle() drops the earliest.
Timeout(m) ==
  /\ m \in Due(timer)
  /\ timer' = TimerHandle(Fired(timer, m))
  /\ expired' = {m.event}

\* The kernel executes what is due before time goes on.
Tick ==
  /\ Due(timer) = {}
  /\ timer' = Aged(timer)
  /\ expired' = {}

Next ==
  \/ \E e \in Event : (\E time \in 1 .. MaxTime : Add(e, time)) \/ Cancel(e)
  \/ \E m \in Due(timer) : Timeout(m)
  \/ Tick

\* The kernel delivers what is due, and time goes on: a model that does
\* something infinitely often does so at infinitely many instants.
Fairness == SF_vars(Tick) /\ WF_vars(\E m \in Due(timer) : Timeout(m))

Spec == Init /\ [][Next]_vars

FairSpec == Spec /\ Fairness

----------------------------------------------------------------------------
(* Properties.                                                             *)

\* Whatever is added and removed, the timer has the structure that its
\* operations rely on without checking it.
StructureOK == WellFormed(Event, timer)

Inv == TypeOK /\ StructureOK

\* No event is forgotten: it expires, or is removed.
EveryEventEnds == \A e \in Event : e \in Pending(timer) ~> e \notin Pending(timer)

\* One kernel message is enough: every event expires when its own time is
\* over, and the event the module is told is the one that ends.
runningBar == TimeLeft(timer)

Service == INSTANCE TimerService WITH running <- runningBar

ImplementsService == Service!Spec
============================================================================
