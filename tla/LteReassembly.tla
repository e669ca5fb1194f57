--------------------------- MODULE LteReassembly ---------------------------
(***************************************************************************)
(* What the receiving side of RLC UM promises for one UE: every SDU has a  *)
(* window of its own that opens with its first fragment.  The SDU is       *)
(* delivered when the last fragment arrives, and counted as lost when the  *)
(* window closes before.  A UE that leaves ends everything.                *)
(***************************************************************************)
EXTENDS Naturals

CONSTANTS
  Sdu,
  Total,       \* [Sdu -> number of fragments]
  Timeout

VARIABLES
  collected,   \* [Sdu -> the numbers of the fragments collected]
  window,      \* [Sdu -> the time its open window has left]
  delivered,   \* the SDUs delivered
  lost,        \* [Sdu -> how often it was counted as lost]
  present      \* the UE has not left

vars == <<collected, window, delivered, lost, present>>

Nothing == [s \in Sdu |-> {}]
Closed == [s \in Sdu |-> 0]

Open(s) == collected[s] # {}

Init ==
  /\ collected = Nothing
  /\ window = Closed
  /\ delivered = {}
  /\ lost = [s \in Sdu |-> 0]
  /\ present = TRUE

Close(s) ==
  /\ collected' = [collected EXCEPT ![s] = {}]
  /\ window' = [window EXCEPT ![s] = 0]

Collect(s, sno) ==
  /\ present
  /\ sno \in 0 .. Total[s] - 1
  /\ sno \notin collected[s]
  /\ collected' = [collected EXCEPT ![s] = @ \cup {sno}]
  /\ collected'[s] # 0 .. Total[s] - 1
  /\ window' = [window EXCEPT ![s] = IF Open(s) THEN @ ELSE Timeout]
  /\ UNCHANGED <<delivered, lost, present>>

Deliver(s, sno) ==
  /\ present
  /\ sno \notin collected[s]
  /\ collected[s] \cup {sno} = 0 .. Total[s] - 1
  /\ s \notin delivered
  /\ delivered' = delivered \cup {s}
  /\ Close(s)
  /\ UNCHANGED <<lost, present>>

Expire(s) ==
  /\ present
  /\ Open(s)
  /\ window[s] = 0
  /\ s \notin delivered
  /\ lost' = [lost EXCEPT ![s] = @ + 1]
  /\ Close(s)
  /\ UNCHANGED <<delivered, present>>

Tick ==
  /\ present
  /\ \A s \in Sdu : Open(s) => window[s] > 0
  /\ window' = [s \in Sdu |-> IF Open(s) THEN window[s] - 1 ELSE 0]
  /\ UNCHANGED <<collected, delivered, lost, present>>

Leave ==
  /\ present
  /\ present' = FALSE
  /\ collected' = Nothing
  /\ window' = Closed
  /\ UNCHANGED <<delivered, lost>>

Next ==
  \/ \E s \in Sdu :
       \/ \E sno \in 0 .. Total[s] - 1 : Collect(s, sno) \/ Deliver(s, sno)
       \/ Expire(s)
  \/ Tick
  \/ Leave

Spec == Init /\ [][Next]_vars
============================================================================
