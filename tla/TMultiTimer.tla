---------------------------- MODULE TMultiTimer ----------------------------
(***************************************************************************)
(* TMultiTimer (simulte/src/common/timer): many timeouts on one kernel     *)
(* message, as operators on one timer, a record of                         *)
(*   list    directList_, a multimap from expiry times to events; the      *)
(*           sequence is in its order: by time, equal times in the order   *)
(*           of insertion (the code inserts with end() as the hint)        *)
(*   armed   the timer messages the kernel holds for this timer (intr_)    *)
(*   busy    busy_                                                         *)
(* reverseList_ has an iterator into directList_ for every event there and *)
(* changes with it: its keys are Pending.  Times are what is left of them. *)
(***************************************************************************)
EXTENDS SequencesExt

Entry(Event) == [event : Event, left : Nat]

IdleTimer == [list |-> <<>>, armed |-> {}, busy |-> FALSE]

Pending(t) == {t.list[i].event : i \in DOMAIN t.list}

\* What is left of the times of the pending events.
TimeLeft(t) ==
  [e \in Pending(t) |-> t.list[CHOOSE i \in DOMAIN t.list : t.list[i].event = e].left]

\* The place of a new entry: behind those that expire no later.
PlaceOf(list, entry) ==
  CHOOSE k \in 1 .. Len(list) + 1 :
    \A i \in DOMAIN list : i < k <=> list[i].left <= entry.left

\* The kernel message for the earliest entry.
MessageFor(list) == IF list = <<>> THEN {} ELSE {Head(list)}

\* The structure the operations rely on without checking it: the list is in
\* order of time, its events are distinct, and the one kernel message is the one
\* of its first entry, so that handle(), which drops the first entry whatever
\* event it is told, drops the right one.
InOrder(list) ==
  \A i, j \in DOMAIN list :
    i < j => list[i].left <= list[j].left /\ list[i].event # list[j].event

WellFormed(Event, t) ==
  /\ t = [list |-> t.list, armed |-> t.armed, busy |-> t.busy]
  /\ t.list \in Seq(Entry(Event))
  /\ InOrder(t.list)
  /\ t.armed = MessageFor(t.list)
  /\ t.busy = (t.list # <<>>)

----------------------------------------------------------------------------
TimerAddThrows(t, e) == e \in Pending(t)

\* Mutant of TimerAdd: the kernel message keeps its time.
TimerAddUnscheduled(t, time, e) ==
  LET entry == [event |-> e, left |-> time] IN
  [list  |-> InsertAt(t.list, PlaceOf(t.list, entry), entry),
   armed |-> IF t.busy THEN t.armed ELSE t.armed \cup {entry},
   busy  |-> TRUE]

TimerAdd(t, time, e) ==
  LET entry == [event |-> e, left |-> time] IN
  [list  |-> InsertAt(t.list, PlaceOf(t.list, entry), entry),
   armed |-> IF ~t.busy THEN t.armed \cup {entry}
             ELSE IF time < t.list[1].left THEN {entry} ELSE t.armed,
   busy  |-> TRUE]

TimerHandleThrows(t) == t.list = <<>>

\* Mutant of TimerHandle: the next event is not scheduled.
TimerHandleOnce(t) == [t EXCEPT !.list = Tail(@), !.busy = (Tail(t.list) # <<>>)]

\* handle(event) does not look at its argument: it drops the earliest event.
TimerHandle(t) ==
  LET rest == Tail(t.list) IN
  [list  |-> rest,
   armed |-> t.armed \cup MessageFor(rest),
   busy  |-> rest # <<>>]

TimerRemoveThrows(t, e) == e \notin Pending(t)

\* Mutant of TimerRemove: the kernel message of the event stays.
TimerRemoveArmed(t, e) ==
  LET k == CHOOSE i \in DOMAIN t.list : t.list[i].event = e
      rest == RemoveAt(t.list, k)
  IN [t EXCEPT !.list = rest, !.busy = (rest # <<>>)]

TimerRemove(t, e) ==
  LET k == CHOOSE i \in DOMAIN t.list : t.list[i].event = e
      rest == RemoveAt(t.list, k)
  IN IF k = 1 THEN [list |-> rest, armed |-> MessageFor(rest), busy |-> rest # <<>>]
              ELSE [t EXCEPT !.list = rest]

----------------------------------------------------------------------------
(* The kernel: a message is due when its time has come, leaves the kernel  *)
(* when it is delivered, and time does not pass while a message is due.    *)

Due(t) == {m \in t.armed : m.left = 0}

Fired(t, m) == [t EXCEPT !.armed = @ \ {m}]

OneTickLess(entry) == [entry EXCEPT !.left = IF @ > 0 THEN @ - 1 ELSE 0]

Aged(t) == [list  |-> [i \in DOMAIN t.list |-> OneTickLess(t.list[i])],
            armed |-> {OneTickLess(m) : m \in t.armed},
            busy  |-> t.busy]
============================================================================
