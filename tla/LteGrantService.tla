-------------------------- MODULE LteGrantService --------------------------
(***************************************************************************)
(* What the downlink of a cell promises of a TTI, with nothing of how a    *)
(* grant goes through the bands: a UE is granted at once, and once, the    *)
(* packets at the head of one of its connections, on blocks that nobody    *)
(* else has and that carry them; between two TTIs packets arrive.  Not     *)
(* promised are the packets of broken connections, and that bytes which    *)
(* were booked have blocks.                                                *)
(***************************************************************************)
EXTENDS Naturals, Sequences

CONSTANTS
  Cid, Ue, Owner, Band, SduSize,
  BandSize,        \* the blocks of a band
  Carries(_, _),   \* the bytes that a UE gets on so many blocks of each band
  PduSize(_)       \* the bytes of a PDU of some packets

VARIABLES
  queue,    \* the packets of each connection that wait for a grant
  pdu,      \* those granted in this TTI
  broken,   \* connections of which nothing is promised
  phase,    \* "idle" between two TTIs, "open" in one, "stopped"
  taken,    \* the blocks taken of each band
  given,    \* those given to each UE
  served,   \* UEs that had their grant, or a retransmission
  spread    \* UEs whose grant used booked bytes

vars == <<queue, pdu, broken, phase, taken, given, served, spread>>

NoPdu == [c \in Cid |-> <<>>]
NoBlocks == [b \in Band |-> 0]

Init ==
  /\ queue = NoPdu /\ pdu = NoPdu /\ broken = {} /\ phase = "idle"
  /\ taken = NoBlocks /\ given = [u \in Ue |-> NoBlocks]
  /\ served = {} /\ spread = {}

Arrive(c, size) ==
  /\ phase = "idle" /\ c \notin broken
  /\ queue' = [queue EXCEPT ![c] = Append(@, size)]
  /\ UNCHANGED <<pdu, broken, phase, taken, given, served, spread>>

\* A connection breaks at its first packet.
Break(c) ==
  /\ phase = "idle" /\ queue[c] = <<>>
  /\ broken' = broken \cup {c}
  /\ UNCHANGED <<queue, pdu, phase, taken, given, served, spread>>

\* Retransmissions take blocks and serve UEs.
Start ==
  /\ phase = "idle" /\ phase' = "open"
  /\ taken' \in [Band -> Nat] /\ served' \subseteq Ue
  /\ served' = {} <=> taken' = NoBlocks
  /\ UNCHANGED <<queue, pdu, broken, given, spread>>

Grant(c, n) ==
  LET u == Owner[c]
  IN  /\ phase = "open" /\ u \notin served
      /\ c \notin broken => n > 0
      /\ pdu' = [pdu EXCEPT ![c] = SubSeq(queue[c], 1, n)]
      /\ queue' = [queue EXCEPT ![c] = SubSeq(@, n + 1, Len(@))]
      /\ served' = served \cup {u}
      /\ spread' \in {spread, spread \cup {u}}
      /\ \E use \in [Band -> 0 .. BandSize] :
           /\ \A b \in Band : use[b] > 0 => taken[b] + use[b] <= BandSize
           /\ taken' = [b \in Band |-> taken[b] + use[b]]
           /\ given' = [given EXCEPT ![u] = use]
           /\ c \notin broken /\ u \notin spread' =>
                PduSize(pdu'[c]) <= Carries(u, use)
      /\ UNCHANGED <<broken, phase>>

\* The PDUs are sent, unless the simulation stops at a broken connection.
End ==
  /\ phase = "open"
  /\ phase' \in {"idle"} \cup IF broken = {} THEN {} ELSE {"stopped"}
  /\ pdu' = NoPdu
  /\ taken' = NoBlocks /\ given' = [u \in Ue |-> NoBlocks]
  /\ served' = {} /\ spread' = {}
  /\ UNCHANGED <<queue, broken>>

Next ==
  \/ \E c \in Cid, size \in SduSize : Arrive(c, size)
  \/ \E c \in Cid : Break(c)
  \/ Start
  \/ \E c \in Cid : \E n \in 0 .. Len(queue[c]) : Grant(c, n)
  \/ End

Spec == Init /\ [][Next]_vars
============================================================================
