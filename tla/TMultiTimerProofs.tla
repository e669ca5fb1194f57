------------------------- MODULE TMultiTimerProofs -------------------------
(* The structure of a multi-timer is an invariant, whatever is added and   *)
(* removed, and a multi-timer implements independent timers.               *)
EXTENDS TMultiTimerModule, TMultiTimerLemmas

----------------------------------------------------------------------------
(* The structure is an invariant.                                          *)

LEMMA InvWellFormed == Inv => WellFormed(Event, timer) /\ expired \subseteq Event
  BY DEF Inv, TypeOK, StructureOK

LEMMA InvInit == Init => Inv
<1>1. SUFFICES ASSUME Init PROVE Inv
  OBVIOUS
<1>2. /\ timer = [list |-> <<>>, armed |-> {}, busy |-> FALSE]
      /\ expired = {}
  BY <1>1 DEF Init, IdleTimer
<1>3. <<>> \in Seq(Entry(Event)) /\ DOMAIN <<>> = {}
  BY EmptySeq, LenProperties
<1> QED BY <1>2, <1>3 DEF Inv, TypeOK, StructureOK, WellFormed, InOrder, MessageFor

LEMMA InvStep == Inv /\ [Next]_vars => Inv'
<1> SUFFICES ASSUME Inv, [Next]_vars PROVE WellFormed(Event, timer') /\ expired' \subseteq Event
  BY WellFormedTimer DEF Inv, TypeOK, StructureOK
<1>1. WellFormed(Event, timer) /\ expired \subseteq Event
  BY InvWellFormed
<1>2. ASSUME NEW e \in Event, NEW time \in 1 .. MaxTime, Add(e, time)
      PROVE  WellFormed(Event, timer') /\ expired' \subseteq Event
  BY <1>1, <1>2, AddWellFormed, MaxTimeAssumption DEF Add
<1>3. ASSUME NEW e \in Event, Cancel(e)
      PROVE  WellFormed(Event, timer') /\ expired' \subseteq Event
  BY <1>1, <1>3, RemoveWellFormed DEF Cancel
<1>4. ASSUME NEW m \in Due(timer), Timeout(m)
      PROVE  WellFormed(Event, timer') /\ expired' \subseteq Event
  <2>1. timer.list # <<>> /\ m = Head(timer.list) /\ m.event \in Event
    BY <1>1, DueIsFirst
  <2>2. WellFormed(Event, TimerHandle(Fired(timer, m)))
    BY <1>1, <2>1, HandleWellFormed
  <2> QED BY <1>4, <2>1, <2>2 DEF Timeout
<1>5. CASE Tick
  BY <1>1, <1>5, AgedWellFormed DEF Tick
<1>6. CASE UNCHANGED vars
  BY <1>1, <1>6 DEF vars
<1> QED BY <1>2, <1>3, <1>4, <1>5, <1>6 DEF Next

\* In every state of a module with a multi-timer, for any events and times: the
\* list is in order, its events are distinct, and the kernel holds exactly the
\* message of the first entry (TTimer.cc add, handle and remove).
THEOREM InvInvariant == Spec => []Inv
<1> QED BY InvInit, InvStep, PTL DEF Spec

----------------------------------------------------------------------------
(* A multi-timer implements independent timers.                            *)

LEMMA AddStarts ==
  ASSUME Inv, NEW e \in Event, NEW time \in 1 .. MaxTime, Add(e, time)
  PROVE  Service!Start(e, time)
<1> DEFINE now == TimeLeft(timer)
           next == TimeLeft(timer')
<1>1. /\ Pending(timer') = Pending(timer) \cup {e}
      /\ \A a \in Pending(timer') : next[a] = IF a = e THEN time ELSE now[a]
  BY InvWellFormed, AddTimes, MaxTimeAssumption DEF Add
<1>2. e \notin Pending(timer)
  BY DEF Add, TimerAddThrows
<1>3. DOMAIN now = Pending(timer) /\ next = [a \in Pending(timer') |-> next[a]]
  BY DEF TimeLeft
<1> HIDE DEF now, next
<1>4. next = [a \in DOMAIN now \cup {e} |-> IF a = e THEN time ELSE now[a]]
  BY <1>1, <1>3
<1> QED BY <1>2, <1>3, <1>4 DEF Service!Start, runningBar, now, next, Add

LEMMA PendingEnds ==
  ASSUME NEW e, Pending(timer') = Pending(timer) \ {e},
         \A a \in Pending(timer') : TimeLeft(timer')[a] = TimeLeft(timer)[a]
  PROVE  Service!Ended(e)
<1> DEFINE now == TimeLeft(timer)
           next == TimeLeft(timer')
<1>1. DOMAIN now = Pending(timer) /\ next = [a \in Pending(timer') |-> next[a]]
  BY DEF TimeLeft
<1>2. \A a \in Pending(timer') : next[a] = now[a]
  OBVIOUS
<1> HIDE DEF now, next
<1>3. next = [a \in DOMAIN now \ {e} |-> now[a]]
  BY <1>1, <1>2
<1> QED BY <1>3 DEF Service!Ended, runningBar, now, next

LEMMA CancelStops ==
  ASSUME Inv, NEW e \in Event, Cancel(e)
  PROVE  Service!Stop(e)
<1>1. Service!Ended(e)
  BY InvWellFormed, RemoveTimes, PendingEnds DEF Cancel
<1>2. e \in DOMAIN TimeLeft(timer)
  BY DEF TimeLeft, Cancel, TimerRemoveThrows
<1> QED BY <1>1, <1>2 DEF Service!Stop, runningBar, Cancel

LEMMA TimeoutExpires ==
  ASSUME Inv, NEW m \in Due(timer), Timeout(m)
  PROVE  m.event \in Event /\ Service!Expire(m.event)
<1>1. Service!Ended(m.event)
  BY InvWellFormed, HandleTimes, PendingEnds DEF Timeout
<1>2. /\ m.event \in Event
      /\ m.event \in Pending(timer) /\ TimeLeft(timer)[m.event] = 0
  BY InvWellFormed, HandleTimes
<1>3. DOMAIN TimeLeft(timer) = Pending(timer)
  BY DEF TimeLeft
<1> QED BY <1>1, <1>2, <1>3 DEF Service!Expire, runningBar, Timeout

LEMMA TickTicks ==
  ASSUME Inv, Tick
  PROVE  Service!Tick
<1> DEFINE now == TimeLeft(timer)
           next == TimeLeft(timer')
<1>1. /\ Pending(timer') = Pending(timer)
      /\ \A a \in Pending(timer) : now[a] > 0 /\ next[a] = now[a] - 1
  BY InvWellFormed, AgedTimes DEF Tick
<1>2. DOMAIN now = Pending(timer) /\ next = [a \in Pending(timer') |-> next[a]]
  BY DEF TimeLeft
<1> HIDE DEF now, next
<1>3. next = [a \in DOMAIN now |-> now[a] - 1]
  BY <1>1, <1>2
<1> QED BY <1>1, <1>2, <1>3 DEF Service!Tick, runningBar, now, next, Tick

\* The events expire one by one, each exactly when the time it was added with is
\* over, and none that was removed: the one message that TTimer.cc keeps in the
\* kernel is as good as one message for every event.
THEOREM Implementation == Spec => ImplementsService
<1>1. Init => Service!Init
  <2>1. SUFFICES ASSUME Init PROVE Service!Init
    OBVIOUS
  <2>2. DOMAIN timer.list = {}
    BY <2>1, EmptySeq, LenProperties DEF Init, IdleTimer
  <2>3. runningBar = [e \in {} |-> 0]
    BY <2>2 DEF runningBar, TimeLeft, Pending
  <2>4. <<>> = [e \in {} |-> 0]
    OBVIOUS
  <2> QED BY <2>1, <2>3, <2>4 DEF Init, Service!Init
<1>2. Inv /\ [Next]_vars => [Service!Next]_Service!vars
  <2> SUFFICES ASSUME Inv, [Next]_vars PROVE [Service!Next]_Service!vars
    OBVIOUS
  <2>1. ASSUME NEW e \in Event, NEW time \in 1 .. MaxTime, Add(e, time) PROVE Service!Next
    BY <2>1, AddStarts DEF Service!Next
  <2>2. ASSUME NEW e \in Event, Cancel(e) PROVE Service!Next
    BY <2>2, CancelStops DEF Service!Next
  <2>3. ASSUME NEW m \in Due(timer), Timeout(m) PROVE Service!Next
    BY <2>3, TimeoutExpires DEF Service!Next
  <2>4. CASE Tick
    BY <2>4, TickTicks DEF Service!Next
  <2>5. CASE UNCHANGED vars
    BY <2>5 DEF vars, Service!vars, runningBar
  <2> QED BY <2>1, <2>2, <2>3, <2>4, <2>5 DEF Next
<1> QED BY <1>1, <1>2, InvInvariant, PTL DEF Spec, Service!Spec, ImplementsService
============================================================================
