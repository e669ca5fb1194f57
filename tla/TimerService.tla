---------------------------- MODULE TimerService ----------------------------
(***************************************************************************)
(* What a multi-timer promises: every timeout runs on its own, and expires *)
(* exactly when its time is over, unless it is stopped before.             *)
(***************************************************************************)
EXTENDS Naturals

CONSTANTS Event, MaxTime

VARIABLES
  running,     \* from the events that are running to the time left
  expired      \* the event that has just expired, if one has

vars == <<running, expired>>

Init == running = <<>> /\ expired = {}

Start(e, time) ==
  /\ e \notin DOMAIN running
  /\ running' = [x \in DOMAIN running \cup {e} |-> IF x = e THEN time ELSE running[x]]
  /\ expired' = {}

Ended(e) == running' = [x \in DOMAIN running \ {e} |-> running[x]]

Stop(e) ==
  /\ e \in DOMAIN running
  /\ Ended(e)
  /\ expired' = {}

Expire(e) ==
  /\ e \in DOMAIN running
  /\ running[e] = 0
  /\ Ended(e)
  /\ expired' = {e}

Tick ==
  /\ \A e \in DOMAIN running : running[e] > 0
  /\ running' = [e \in DOMAIN running |-> running[e] - 1]
  /\ expired' = {}

Next ==
  \/ \E e \in Event : (\E time \in 1 .. MaxTime : Start(e, time)) \/ Stop(e) \/ Expire(e)
  \/ Tick

Spec == Init /\ [][Next]_vars
============================================================================
