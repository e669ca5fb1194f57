--------------------------- MODULE LteEnbDownlink ---------------------------
(***************************************************************************)
(* The downlink of an eNodeB from the MAC buffers to the MAC PDUs: packets *)
(* are queued in a real and a virtual buffer per connection, once per TTI  *)
(* the scheduler (Max C/I) grants resource blocks to connections against   *)
(* the virtual buffers, and macPduMake() takes as many packets from the    *)
(* real ones.                                                              *)
(*                                                                         *)
(* Code: LteMacBase::bufferizePacket(), LteSchedulerEnb::schedule() and    *)
(* scheduleGrant(), LteMaxCi, LteMacEnb::macPduMake(). A TTI is the steps  *)
(* from "idle" to "idle"; packets come between two TTIs. A packet is its   *)
(* size. One codeword, one antenna, no limits on bands (Max C/I sets       *)
(* none), UEs that stay in the cell.                                       *)
(***************************************************************************)
EXTENDS LteAllocation

CONSTANTS
  Cid,           \* the downlink connections
  Owner,         \* the UE of each connection
  SduSize,       \* the sizes of packets
  QueueSize,     \* capacity of a MAC queue in bytes, 0 if it has no limit
  MacHeader,     \* bytes of the header of a MAC PDU
  RtxBlocks,     \* the blocks of each band that retransmissions may take
  NoCid

ASSUME DownlinkAssumption ==
  /\ Owner \in [Cid -> Ue]
  /\ SduSize \subseteq Nat \ {0}
  /\ QueueSize \in Nat /\ MacHeader \in Nat
  /\ RtxBlocks \subseteq [Band -> Nat]
  /\ NoCid \notin Cid

VARIABLES
  mbuf,          \* the real queue of each connection (LteMacQueue)
  vbuf,          \* its virtual one, which the scheduler consumes (LteMacBuffer)
  created,       \* connections that have queues
  rejected,      \* history: connections whose first packet their queue refused
  active,        \* activeConnectionSet_ of the discipline
  pc,            \* the step of the TTI
  temp,          \* activeConnectionTempSet_
  candidates,    \* connections on the score list
  top,           \* the one at its top, or NoCid
  cws,           \* UEs with an allocated codeword in this TTI
  alloc,         \* the allocator
  g,             \* the local variables of scheduleGrant()
  spread,        \* history: UEs granted bytes that were booked on an earlier band
  scheduleList   \* packets scheduled of each connection

buffers == <<mbuf, vbuf, created, rejected>>
vars == <<buffers, active, pc, temp, candidates, top, cws, alloc, g, spread,
          scheduleList>>

Bytes(q) == SumFunction(q)

Request == [band : Band, bytes : Nat, blocks : Nat]

\* A grant that begins: no band tried, nothing allocated.
NewGrant ==
  [band |-> 1, bytes |-> 0, blocks |-> 0, allocated |-> 0, cwBytes |-> 0,
   items |-> 0, firstSdu |-> TRUE, booked |-> <<>>, li |-> 1, toServe |-> 0,
   used |-> 0, stop |-> FALSE, active |-> TRUE]

Grant ==
  [band : 1 .. NumBands + 1, bytes : Nat, blocks : Nat, allocated : Nat,
   cwBytes : Nat, items : Nat, firstSdu : BOOLEAN, booked : Seq(Request),
   li : Nat \ {0}, toServe : Nat, used : Nat, stop : BOOLEAN, active : BOOLEAN]

\* bookedRequests, and the bytes they can contribute.
TotalBooked == SumFunction([i \in DOMAIN g.booked |-> g.booked[i].bytes])

\* Mutant of ToServe: the header of the PDU is not counted.
ToServeBare == Head(vbuf[top])

\* What the first packet of the virtual buffer needs: the header of the PDU is
\* counted at the first attempt to serve one.
ToServe == Head(vbuf[top]) + IF g.firstSdu THEN MacHeader ELSE 0

Init ==
  /\ mbuf = [c \in Cid |-> <<>>]
  /\ vbuf = [c \in Cid |-> <<>>]
  /\ created = {} /\ rejected = {}
  /\ active = {} /\ temp = {} /\ candidates = {} /\ top = NoCid
  /\ pc = "idle"
  /\ cws = {} /\ spread = {}
  /\ alloc = Allocated([b \in Band |-> 0])
  /\ g = NewGrant
  /\ scheduleList = [c \in Cid |-> 0]
-----------------------------------------------------------------------------
\* Mutant of IsCounted: a packet that the queue refused is counted all the same.
IsCountedAlways(c, fits) == TRUE

\* A packet its queue has no room for is dropped, but the first of a connection
\* goes to the new virtual buffer unseen.
IsCounted(c, fits) == fits \/ c \notin created

\* LteMacEnb::bufferizePacket()
BufferizePacket(c, size) ==
  LET fits == QueueSize = 0 \/ Bytes(mbuf[c]) + size <= QueueSize
  IN  /\ pc = "idle"
      /\ created' = created \cup {c}
      /\ mbuf' = IF fits THEN [mbuf EXCEPT ![c] = Append(@, size)] ELSE mbuf
      /\ IF IsCounted(c, fits)
         THEN /\ vbuf' = [vbuf EXCEPT ![c] = Append(@, size)]
              /\ active' = active \cup {c}
         ELSE UNCHANGED <<vbuf, active>>
      /\ rejected' = IF fits \/ c \in created THEN rejected
                     ELSE rejected \cup {c}
      /\ UNCHANGED <<pc, temp, candidates, top, cws, alloc, g, spread,
                     scheduleList>>

\* The top of the score list: any connection on it, the scores depend on radio.
TopOf(set) == IF set = {} THEN {NoCid} ELSE set

\* LteSchedulerEnb::schedule() up to the score list of LteMaxCi: retransmissions
\* took some blocks and the codewords of some UEs; if they left nothing the
\* discipline is not asked. Connections of UEs out of range, or without a
\* codeword left, are not scored.
StartTti ==
  /\ pc = "idle"
  /\ \E taken \in RtxBlocks, busy, heard \in SUBSET Ue :
       /\ (busy = {}) <=> (\A b \in Band : taken[b] = 0)
       /\ alloc' = Allocated(taken)
       /\ cws' = busy
       /\ IF ComputeTotalRbs(Allocated(taken)) = 0
          THEN /\ pc' = "make"
               /\ UNCHANGED <<temp, candidates, top>>
          ELSE /\ pc' = "rank"
               /\ temp' = active
               /\ candidates' = {c \in active : Owner[c] \in heard \ busy}
               /\ top' \in TopOf(candidates')
  /\ UNCHANGED <<buffers, active, g, spread, scheduleList>>

\* The next request of LteMaxCi, and the first part of scheduleGrant(), which
\* ends the scheduling of this TTI if there are no blocks or the UE has a
\* codeword already. commitSchedule() follows.
RequestGrant ==
  LET terminate == ComputeTotalRbs(alloc) = 0 \/ Owner[top] \in cws
  IN  /\ pc = "rank"
      /\ IF top = NoCid \/ terminate
         THEN pc' = "make" /\ active' = temp /\ UNCHANGED g
         ELSE pc' = "band" /\ g' = NewGrant /\ UNCHANGED active
      /\ UNCHANGED <<buffers, temp, candidates, top, cws, alloc, spread,
                     scheduleList>>

\* The loop over the bands: one without room is skipped.
NextBand ==
  LET blocks == AvailableBlocks(alloc, g.band)
      bytes == ComputeBytesOnNRbs(Owner[top], blocks)
  IN  /\ pc = "band"
      /\ \/ /\ g.band > NumBands
            /\ pc' = "end" /\ UNCHANGED g
         \/ /\ g.band <= NumBands /\ bytes = 0
            /\ g' = [g EXCEPT !.band = @ + 1]
            /\ UNCHANGED pc
         \/ /\ g.band <= NumBands /\ bytes > 0
            /\ g' = [g EXCEPT !.bytes = bytes, !.blocks = blocks, !.allocated = 0]
            /\ pc' = "serve"
      /\ UNCHANGED <<buffers, active, temp, candidates, top, cws, alloc, spread,
                     scheduleList>>

\* The virtual buffer is empty: the connection has been served.
AllServed ==
  /\ pc = "serve"
  /\ vbuf[top] = <<>>
  /\ g' = [g EXCEPT !.active = FALSE, !.stop = TRUE]
  /\ pc' = "close"
  /\ UNCHANGED <<buffers, active, temp, candidates, top, cws, alloc, spread,
                 scheduleList>>

\* Mutant of NextBandBooked: the packet is given up for this TTI.
NextBandBookedStop(r) ==
  [g EXCEPT !.firstSdu = FALSE, !.booked = Append(@, r), !.stop = TRUE]

NextBandBooked(r) == [g EXCEPT !.firstSdu = FALSE, !.booked = Append(@, r)]

\* The next packet does not fit: what is left of the band is booked for it.
BookBand ==
  LET blocksAdded == ComputeReqRbs(Owner[top], g.allocated)
  IN  /\ pc = "serve"
      /\ vbuf[top] # <<>>
      /\ ToServe > g.bytes + TotalBooked
      /\ IF blocksAdded > g.blocks
         THEN pc' = "error" /\ UNCHANGED g
         ELSE /\ g' = NextBandBooked([band |-> g.band, bytes |-> g.bytes,
                                      blocks |-> g.blocks - blocksAdded])
              /\ pc' = "close"
      /\ UNCHANGED <<buffers, active, temp, candidates, top, cws, alloc, spread,
                     scheduleList>>

\* The next packet fits, with the booked bytes if there are any.
StartSdu ==
  /\ pc = "serve"
  /\ vbuf[top] # <<>>
  /\ ToServe <= g.bytes + TotalBooked
  /\ g' = [g EXCEPT !.firstSdu = FALSE, !.toServe = ToServe, !.used = 0,
                    !.li = IF TotalBooked > 0 THEN 1 ELSE Len(g.booked) + 1]
  /\ pc' = "booked"
  /\ UNCHANGED <<buffers, active, temp, candidates, top, cws, alloc, spread,
                 scheduleList>>

MoreBooked == g.li <= Len(g.booked) /\ g.used <= g.toServe

\* Mutant of BytesUsed: all the bytes booked on a band are used at once.
BytesUsedAll(r) == r.bytes

BytesUsed(r) == IF r.bytes > g.toServe THEN g.toServe ELSE r.bytes

\* One round of the loop over the booked requests: its bytes are used, and its
\* blocks noted, none if it has fewer left than the bytes need.
UseBooked ==
  LET r == g.booked[g.li]
      uBytes == BytesUsed(r)
      needed == ComputeReqRbs(Owner[top], uBytes)
      uBlocks == IF needed <= r.blocks THEN needed ELSE 0
      left == [r EXCEPT !.bytes = @ - g.toServe,
                        !.blocks = IF needed <= @ THEN @ - needed ELSE 0]
      depleted == r.bytes <= g.toServe
  IN  /\ pc = "booked"
      /\ MoreBooked
      /\ alloc' = AddBlocks(alloc, Owner[top], r.band, uBlocks, uBytes)
      /\ g' = [g EXCEPT
                 !.used = @ + uBytes, !.cwBytes = @ + uBytes,
                 !.booked = IF depleted THEN RemoveAt(@, g.li)
                            ELSE [@ EXCEPT ![g.li] = left],
                 !.li = IF depleted THEN @ ELSE @ + 1]
      /\ spread' = IF uBytes > 0 THEN spread \cup {Owner[top]} ELSE spread
      /\ UNCHANGED <<buffers, active, pc, temp, candidates, top, cws,
                     scheduleList>>

\* The rest of the packet comes from this band; the difference is unsigned.
ServeSdu ==
  LET own == g.toServe - g.used
  IN  /\ pc = "booked"
      /\ ~MoreBooked
      /\ IF g.used > g.toServe \/ own > g.bytes
         THEN pc' = "error" /\ UNCHANGED <<g, vbuf>>
         ELSE /\ g' = [g EXCEPT !.bytes = @ - own, !.allocated = @ + own,
                                !.items = @ + 1]
              /\ vbuf' = [vbuf EXCEPT ![top] = Tail(@)]
              /\ pc' = "serve"
      /\ UNCHANGED <<mbuf, created, rejected, active, temp, candidates, top, cws,
                     alloc, spread, scheduleList>>

\* The end of a band: the allocator notes the blocks that its bytes need.
CloseBand ==
  LET blocksAdded == ComputeReqRbs(Owner[top], g.allocated)
      overflow == /\ g.allocated > 0
                  /\ \/ blocksAdded > g.blocks
                     \/ AddBlocksFails(alloc, g.band, blocksAdded, g.allocated)
  IN  /\ pc = "close"
      /\ IF overflow
         THEN pc' = "error" /\ UNCHANGED <<g, alloc>>
         ELSE /\ alloc' = AddBlocks(alloc, Owner[top], g.band, blocksAdded,
                                    g.allocated)
              /\ g' = [g EXCEPT !.cwBytes = @ + g.allocated, !.band = @ + 1]
              /\ pc' = IF g.stop THEN "end" ELSE "band"
      /\ UNCHANGED <<buffers, active, temp, candidates, top, cws, spread,
                     scheduleList>>

\* Mutant of StillActive: the connection leaves whatever the grant said.
StillActiveNever(eligible) == FALSE

\* Mutant of StillActive: a connection that got nothing leaves.
StillActiveIfServed(eligible) == g.active /\ eligible

StillActive(eligible) == g.active

\* The end of scheduleGrant() and of a round of LteMaxCi: a connection that is
\* served, or got nothing, leaves the score list; one served leaves the active
\* set too.
EndGrant ==
  LET eligible == g.cwBytes > 0
  IN  /\ pc = "end"
      /\ IF eligible
         THEN /\ cws' = cws \cup {Owner[top]}
              /\ scheduleList' = [scheduleList EXCEPT ![top] = @ + g.items]
         ELSE UNCHANGED <<cws, scheduleList>>
      /\ IF g.active /\ eligible
         THEN UNCHANGED <<candidates, top>>
         ELSE /\ candidates' = candidates \ {top}
              /\ top' \in TopOf(candidates')
      /\ temp' = IF StillActive(eligible) THEN temp ELSE temp \ {top}
      /\ g' = NewGrant
      /\ pc' = "rank"
      /\ UNCHANGED <<buffers, active, alloc, spread>>

\* The scheduled packets of each connection, the first ones of its real queue.
Scheduled(c) == SubSeq(mbuf[c], 1, scheduleList[c])

\* LteMacEnb::macPduMake(). What it leaves for the next TTI is the buffers and
\* the active set; the rest is initialised there, and is here.
MacPduMake ==
  /\ pc = "make"
  /\ IF \E c \in Cid : Len(mbuf[c]) < scheduleList[c]
     THEN pc' = "error" /\ UNCHANGED mbuf
     ELSE /\ mbuf' = [c \in Cid |-> SubSeq(mbuf[c], scheduleList[c] + 1, Len(mbuf[c]))]
          /\ pc' = "idle"
  /\ temp' = {} /\ candidates' = {} /\ top' = NoCid
  /\ cws' = {} /\ spread' = {}
  /\ alloc' = Allocated([b \in Band |-> 0])
  /\ scheduleList' = [c \in Cid |-> 0]
  /\ UNCHANGED <<vbuf, created, rejected, active, g>>

\* The simulation stops with the run-time error.
Failed == pc = "error" /\ UNCHANGED vars
-----------------------------------------------------------------------------
TtiStep ==
  \/ StartTti \/ RequestGrant \/ NextBand \/ AllServed \/ BookBand \/ StartSdu
  \/ UseBooked \/ ServeSdu \/ CloseBand \/ EndGrant \/ MacPduMake

Next ==
  \/ \E c \in Cid, size \in SduSize : BufferizePacket(c, size)
  \/ TtiStep
  \/ Failed

Spec == Init /\ [][Next]_vars
-----------------------------------------------------------------------------
\* Fairness: the TTI message is never lost, and every backlogged connection is
\* again and again the best one of a TTI without retransmissions, as its channel
\* may have it; Max C/I promises nothing to the others.
BestOfFreeTti(c) ==
  /\ StartTti
  /\ top' = c
  /\ \A b \in Band : alloc'.taken[b] = 0

FairSpec ==
  /\ Spec
  /\ WF_vars(TtiStep)
  /\ \A c \in Cid : SF_vars(BestOfFreeTti(c))
-----------------------------------------------------------------------------
TypeOK ==
  /\ mbuf \in [Cid -> Seq(SduSize)] /\ vbuf \in [Cid -> Seq(SduSize)]
  /\ rejected \subseteq created /\ created \subseteq Cid
  /\ active \subseteq Cid /\ temp \subseteq Cid
  /\ pc \in {"idle", "rank", "band", "serve", "booked", "close", "end", "make",
             "error"}
  /\ candidates \subseteq temp
  /\ top \in TopOf(candidates)
  /\ cws \subseteq Ue /\ spread \subseteq Ue
  /\ alloc \in Allocation
  /\ g \in Grant
  /\ scheduleList \in [Cid -> Nat]

\* Packets of the connection that this TTI has taken from its virtual buffer.
Consumed(c) == scheduleList[c] + IF c = top THEN g.items ELSE 0

\* The virtual buffer of a connection is its real queue less the packets that
\* this TTI has scheduled, all of which are there for macPduMake() to take,
\* unless the queue refused the first packet.
QueuesInStep ==
  pc # "error" =>
    \A c \in Cid \ rejected :
      /\ Len(mbuf[c]) = Consumed(c) + Len(vbuf[c])
      /\ \A i \in DOMAIN vbuf[c] : vbuf[c][i] = mbuf[c][Consumed(c) + i]

Backlogged == {c \in Cid : vbuf[c] # <<>>}

\* Between two TTIs the active set of the discipline is the set of connections
\* with a backlog: none is forgotten by the copies, commits and grants of the
\* TTI, none is kept that has nothing to send.
BacklogIsActive == pc = "idle" => active = Backlogged

\* None of the run-time errors of scheduleGrant() (overflow of a band, of the
\* allocator or of the booked bytes) and of macPduMake() (fewer packets than
\* scheduled) is reachable, unless a queue refused the first packet of its
\* connection.
OnlyRejectedThrows == pc = "error" => rejected # {}

\* Inside a TTI the copy of the active set follows the virtual buffers, but for
\* the connection of the grant, whose end is what its buffer says.
ActiveFollows ==
  /\ pc \in {"idle", "make"} => active = Backlogged
  /\ pc = "rank" => temp = Backlogged
  /\ pc \in {"band", "serve", "booked", "close", "end"} =>
       top # NoCid /\ temp \ {top} = Backlogged \ {top}
  /\ pc \in {"band", "serve", "booked"} => g.active /\ ~g.stop
  /\ pc \in {"band", "booked"} => vbuf[top] # <<>>
  /\ pc \in {"close", "end"} =>
       (g.active <=> vbuf[top] # <<>>) /\ (g.stop <=> ~g.active)

\* A connection with scheduled packets was granted bytes.
ItemsHaveBytes ==
  /\ pc \in {"idle", "rank", "make"} => g.items = 0
  /\ pc \in {"band", "end"} => (g.items > 0 => g.cwBytes > 0)
  /\ pc \in {"serve", "booked", "close"} =>
       (g.items > 0 => g.cwBytes + g.allocated > 0)
  /\ pc = "booked" => g.toServe > 0 /\ g.used <= g.cwBytes

\* A grant takes from a band what was there when it came to it, and books only
\* on bands behind it, so that the blocks its bytes need are always available.
BandFits ==
  /\ pc \in {"serve", "booked", "close"} =>
       /\ g.band <= NumBands
       /\ g.blocks <= AvailableBlocks(alloc, g.band)
       /\ g.allocated + g.bytes = ComputeBytesOnNRbs(Owner[top], g.blocks)
  /\ pc \in {"band", "serve", "booked"} =>
       \A i \in DOMAIN g.booked : g.booked[i].band < g.band
  /\ pc = "close" => \A i \in DOMAIN g.booked : g.booked[i].band <= g.band

\* The inductive invariant of the buffers and of the bands: it strengthens
\* QueuesInStep and BacklogIsActive to the steps inside a TTI.
BufferInv == TypeOK /\ QueuesInStep /\ ActiveFollows /\ ItemsHaveBytes /\ BandFits

InGrant == pc \in {"band", "serve", "booked", "close", "end"}

\* Bytes of two or more bands are booked for the packet at the head of the queue
\* and fall short of it, so that it takes all of them, and the rest from the band
\* that is served; of the bytes of one band it may leave some.
BookedSpent ==
  /\ pc \in {"band", "serve", "booked", "close"} =>
       (g.booked # <<>> => ~g.firstSdu)
  /\ pc \in {"band", "serve", "close"} =>
       (Len(g.booked) > 1 /\ TotalBooked > 0 =>
          vbuf[top] # <<>> /\ TotalBooked < Head(vbuf[top]))
  /\ pc = "booked" =>
       /\ ~g.firstSdu
       /\ g.toServe <= g.used + TotalBooked + g.bytes
       /\ \/ g.li = 1 /\ g.used + TotalBooked <= g.toServe
          \/ /\ g.li = 1 /\ Len(g.booked) = 1
             /\ g.used = 0 /\ TotalBooked > g.toServe
          \/ g.li = 2 /\ Len(g.booked) = 1 /\ g.used = g.toServe
          \/ g.li = Len(g.booked) + 1 /\ g.used = 0 /\ TotalBooked = 0

\* The blocks noted for a UE are blocks its band has, and a UE has blocks only
\* with a codeword, or while it is granted some: none then on the bands to come.
BlocksNoted ==
  /\ \A u \in Ue, b \in Band :
       /\ alloc.blocks[u][b] <= alloc.taken[b]
       /\ alloc.blocks[u][b] <= BlocksPerBand
       /\ u \notin cws /\ ~(InGrant /\ u = Owner[top]) => alloc.blocks[u][b] = 0
  /\ InGrant => \A b \in Band :
       g.band <= b \/ g.cwBytes = 0 => alloc.blocks[Owner[top]][b] = 0

\* The blocks of a band noted for all UEs.
Given(b) == SumFunction([u \in Ue |-> alloc.blocks[u][b]])

\* No block of a band is given to two UEs, or to one after a retransmission took
\* it: neither the bands of a grant nor the booked ones it comes back to, when the
\* blocks left of them were counted long before, give more than the band has.
BlocksGivenOnce ==
  \A b \in Band :
    /\ Given(b) <= alloc.taken[b]
    /\ Given(b) > 0 => alloc.taken[b] <= BlocksPerBand

\* The bytes that the blocks noted for a UE carry.
Carried(u) == SumFunction([b \in Band |-> ComputeBytesOnNRbs(u, alloc.blocks[u][b])])

\* A PDU of the first n packets of a connection.
PduBytes(c, n) == MacHeader + Bytes(SubSeq(mbuf[c], 1, n))

\* One codeword per UE and TTI.
ScheduledOnce ==
  /\ pc = "idle" => scheduleList = [c \in Cid |-> 0]
  /\ \A c \in Cid : scheduleList[c] > 0 => Owner[c] \in cws
  /\ InGrant => Owner[top] \notin cws

\* The PDU of a connection fits the blocks noted for its UE.
ScheduledFits ==
  pc # "error" => \A c \in Cid \ rejected :
    scheduleList[c] > 0 /\ Owner[c] \notin spread =>
      PduBytes(c, scheduleList[c]) <= Carried(Owner[c])

\* That of a grant fits those and the bytes it has taken from its band. The header
\* is counted with the first packet, or lost with the first booking, and then
\* there are booked bytes for that packet to use.
GrantFits ==
  InGrant /\ top \notin rejected /\ Owner[top] \notin spread =>
    /\ g.items > 0 =>
         PduBytes(top, g.items) <=
           Carried(Owner[top]) +
             IF pc \in {"serve", "booked", "close"} THEN g.allocated ELSE 0
    /\ pc \in {"band", "serve", "close"} =>
         /\ g.firstSdu => g.items = 0
         /\ g.items = 0 /\ ~g.firstSdu => TotalBooked > 0
    /\ pc = "serve" /\ g.firstSdu => g.bytes > 0
    /\ pc = "booked" =>
         /\ g.used = 0
         /\ \/ TotalBooked > 0 /\ g.li = 1
            \/ /\ TotalBooked = 0
               /\ g.toServe = Head(vbuf[top]) + IF g.items = 0 THEN MacHeader ELSE 0

\* A codeword goes with a packet: only the bytes of the packet that is being served
\* may come before it is counted.
CodewordHasPacket ==
  /\ pc \in {"band", "serve", "close", "end"} =>
       (g.cwBytes + (IF pc \in {"serve", "close"} THEN g.allocated ELSE 0) > 0
          => g.items > 0)
  /\ pc = "booked" => (g.cwBytes + g.allocated > g.used => g.items > 0)

\* What a TTI leaves behind, and what a grant has spread so far.
TtiForgotten ==
  /\ pc = "idle" => cws = {} /\ spread = {}
  /\ spread \subseteq cws \cup IF InGrant /\ g.cwBytes > 0 THEN {Owner[top]} ELSE {}
  /\ \A c \in Cid : vbuf[c] # <<>> => c \in created

\* The inductive invariant of the downlink: it strengthens OnlyRejectedThrows and
\* PduFitsItsBlocks to the steps inside a grant.
Inv ==
  /\ BufferInv
  /\ BookedSpent /\ BlocksNoted /\ ScheduledOnce /\ ScheduledFits /\ GrantFits
  /\ OnlyRejectedThrows /\ BlocksGivenOnce /\ CodewordHasPacket /\ TtiForgotten

\* A PDU with its header fits the resource blocks noted for its UE, on whatever
\* bands, unless some of its bytes were booked (see HeaderIsCounted).
PduFitsItsBlocks ==
  pc = "make" =>
    \A c \in Cid \ rejected :
      scheduleList[c] > 0 /\ Owner[c] \notin spread =>
        MacHeader + Bytes(Scheduled(c)) <=
          SumFunction([b \in Band |->
            ComputeBytesOnNRbs(Owner[c], alloc.blocks[Owner[c]][b])])

\* The bytes that the allocator notes for a UE hold its PDU with the header, as
\* the comment of scheduleGrant() has it: "for the first SDU, add 2 byte for the
\* MAC PDU Header".
HeaderIsCounted ==
  pc = "make" =>
    \A c \in Cid :
      scheduleList[c] > 0 =>
        MacHeader + Bytes(Scheduled(c)) <= SumFunction(alloc.bytes[Owner[c]])

\* The service that the steps of a TTI implement. Nothing of a grant is seen there
\* before it ends: its packets are still in the queue, its blocks not yet taken.
Granting(u) == InGrant /\ u = Owner[top]

QueueSeen ==
  [c \in Cid |-> IF c \in rejected THEN <<>>
                 ELSE IF InGrant /\ c = top THEN mbuf[c] ELSE vbuf[c]]
PduSeen == [c \in Cid |-> IF c \in rejected THEN <<>> ELSE Scheduled(c)]
GivenSeen ==
  [u \in Ue |-> [b \in Band |-> IF Granting(u) THEN 0 ELSE alloc.blocks[u][b]]]
TakenSeen ==
  [b \in Band |-> alloc.taken[b] - IF InGrant THEN alloc.blocks[Owner[top]][b] ELSE 0]
SpreadSeen == {u \in spread : ~Granting(u)}
PhaseSeen == IF pc = "idle" THEN "idle" ELSE IF pc = "error" THEN "stopped" ELSE "open"

CarriedBy(u, use) == SumFunction([b \in Band |-> ComputeBytesOnNRbs(u, use[b])])
PduOf(packets) == MacHeader + Bytes(packets)

Service == INSTANCE LteGrantService WITH
  BandSize <- BlocksPerBand, Carries <- CarriedBy, PduSize <- PduOf,
  queue <- QueueSeen, pdu <- PduSeen, broken <- rejected, phase <- PhaseSeen,
  taken <- TakenSeen, given <- GivenSeen, served <- cws, spread <- SpreadSeen

\* The loops of scheduleGrant() over bands and booked requests, between which the
\* allocator, the buffers and the schedule list do not agree, amount to one grant.
ImplementsGrants == Service!Spec

\* A connection is emptied, or gets packets into a PDU, again and again: none is
\* stuck behind a packet at the head of its queue, a booked band, or its own
\* absence from the active set.
BacklogIsServed ==
  [](rejected = {}) =>
    \A c \in Cid :
      \/ []<>(mbuf[c] = <<>>)
      \/ []<><<MacPduMake /\ scheduleList[c] > 0>>_vars
=============================================================================
