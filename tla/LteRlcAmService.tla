-------------------------- MODULE LteRlcAmService --------------------------
(***************************************************************************)
(* What RLC AM promises about the PDUs of a flow, with nothing of how: the *)
(* PDUs offered are sent in order, never more than Window of them at once, *)
(* and the window moves past a PDU only when it is settled, which means    *)
(* that it has arrived or was given up.  If it may break, it keeps its     *)
(* order and size from then on, but may move past PDUs that are not        *)
(* settled.                                                                *)
(***************************************************************************)
EXTENDS Naturals

CONSTANTS
  WindowSize,
  MayBreak    \* what is known of the two ends does not exclude that it breaks

VARIABLES
  offered,  \* how many PDUs there are; they are numbered from 0
  base,     \* the first PDU of the window
  next,     \* the first PDU not yet sent
  settled,  \* the PDUs that arrived or were given up
  broken    \* whether it is broken

vars == <<offered, base, next, settled, broken>>

\* The window is always as full as the PDUs offered allow.
Filled(b, o) == IF o < b + WindowSize THEN o ELSE b + WindowSize

Init == offered = 0 /\ base = 0 /\ next = 0 /\ settled = {} /\ broken = FALSE

Offer ==
  /\ offered' \in Nat /\ offered' > offered
  /\ next' = Filled(base, offered')
  /\ UNCHANGED <<base, settled, broken>>

\* PDUs that the window has passed can only come late if it is broken.
Settle ==
  /\ settled \subseteq settled'
  /\ settled' \ settled \subseteq (IF broken THEN 0 ELSE base) .. next - 1
  /\ UNCHANGED <<offered, base, next, broken>>

Slide ==
  /\ base' \in base + 1 .. next
  /\ ~broken => base .. base' - 1 \subseteq settled
  /\ next' = Filled(base', offered)
  /\ UNCHANGED <<offered, settled, broken>>

Break ==
  /\ MayBreak /\ broken' = TRUE
  /\ UNCHANGED <<offered, base, next, settled>>

Next == Offer \/ Settle \/ Slide \/ Break

Spec == Init /\ [][Next]_vars
============================================================================
