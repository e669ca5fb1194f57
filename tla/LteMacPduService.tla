-------------------------- MODULE LteMacPduService --------------------------
(***************************************************************************)
(* What H-ARQ promises to the layers above it, with nothing of how: a PDU  *)
(* is transmitted at most MaxHarqRtx + 1 times, and ends up delivered      *)
(* once, or lost.  It may be lost without a transmission (the MAC found no *)
(* place for it) or after the last one; it may not be lost in between, nor *)
(* both delivered and lost.                                                *)
(***************************************************************************)
EXTENDS Naturals

CONSTANTS Pdu, MaxHarqRtx

VARIABLES fate, attempts

vars == <<fate, attempts>>

Fate == {"queued", "pending", "delivered", "lost"}

TypeOK ==
  /\ fate \in [Pdu -> Fate]
  /\ attempts \in [Pdu -> 0 .. MaxHarqRtx + 1]

Init ==
  /\ fate = [p \in Pdu |-> "queued"]
  /\ attempts = [p \in Pdu |-> 0]

\* A first transmission, or one more of a PDU that may still be delivered.
Transmit(p) ==
  /\ fate[p] \in {"queued", "pending"}
  /\ attempts[p] <= MaxHarqRtx
  /\ attempts' = [attempts EXCEPT ![p] = @ + 1]
  /\ fate' = [fate EXCEPT ![p] = "pending"]

Deliver(p) ==
  /\ fate[p] = "pending"
  /\ fate' = [fate EXCEPT ![p] = "delivered"]
  /\ UNCHANGED attempts

Lose(p) ==
  /\ \/ fate[p] = "queued"
     \/ fate[p] = "pending" /\ attempts[p] = MaxHarqRtx + 1
  /\ fate' = [fate EXCEPT ![p] = "lost"]
  /\ UNCHANGED attempts

Next == \E p \in Pdu : Transmit(p) \/ Deliver(p) \/ Lose(p)

Spec == Init /\ [][Next]_vars
============================================================================
