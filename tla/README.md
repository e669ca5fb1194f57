# SimuLTE in TLA+

SimuLTE (`src/simulte`) simulates the user plane of LTE on OMNeT++ and INET:
eNodeBs and UEs with PDCP, RLC, MAC and PHY.  This directory holds TLA+
specifications of the protocols inside it, the configurations that check them
with TLC, and proofs for TLAPS.  Paths below are relative to
`src/simulte/src`.

The program is a discrete event simulation: one thread, one event queue.  What
is hard in it is not data races but the distributed protocols it plays between
node objects: messages that take a TTI to arrive, counters that two nodes keep
independently, state read when a message is sent and used when it arrives,
losses on the radio channel.  An inconsistency usually ends in a
`cRuntimeError`, which stops the whole simulation.

## Inventory

| Component | State | Operations | Interacts with |
|---|---|---|---|
| H-ARQ transmit buffers (`stack/mac/buffer/harq/*Tx*`) | per process: state, PDU and transmissions of each unit, number of empty and selected units; selected process | insert, mark for retransmission, extract and send, feedback | MAC, schedulers |
| H-ARQ receive buffers (`stack/mac/buffer/harq/*Rx*`) | per process: state, PDU, decoding result, reception time; transmissions | insert, evaluate and answer, extract, purge | MAC |
| MAC of the eNodeB (`LteMacEnb`) | H-ARQ buffers per UE, BSR buffers, RAC requests, SDU queues | main loop of the TTI, RAC, BSR, grants, PDU making | schedulers, AMC, PHY, RLC |
| MAC of the UE (`LteMacUe`) | H-ARQ buffers, process counter, grant, RAC timers, SDU queues | main loop of the TTI, RAC, grant handling, PDU making | LCG scheduler, PHY, RLC |
| MAC buffers and PDUs (`LteMacBase`, `stack/mac/buffer`) | per connection: queue of SDUs, virtual buffer of their sizes, traffic descriptor, LCG entry | bufferize, pop, delete | RLC, schedulers |
| eNodeB scheduler core (`LteSchedulerEnb`, `-Dl`, `-Ul`) | schedule list, codewords allocated in the TTI, uplink process counters, RAC requests | retransmissions, RAC, grant, backlog | MAC, disciplines, allocator, AMC |
| Disciplines (MaxCI, PF, DRR, MaxCiOptMB) | set of active connections, credits or rates | choose connections, notify | scheduler core |
| LCG scheduler (`LcgScheduler`) | none that lasts | serve SDUs of a grant | UE MAC buffers |
| Allocator (`LteAllocationModule`) | free and assigned blocks by plane, antenna, band | add, remove, count | scheduler core |
| AMC (`LteAmc`) | feedback history, transmission parameters | push feedback, compute parameters and bytes | PHY feedback, scheduler |
| RLC AM (`stack/rlc/am`) | transmit and receive windows, fragments, timers, MRW commands | fragment, send, acknowledge, retransmit, discard, status report, reassemble | PDCP, MAC, timers |
| RLC UM, TM (`stack/rlc/um`, `tm`) | sequence numbers, partial SDUs with a timeout | fragment, reassemble | PDCP, MAC, timers |
| Timers (`common/timer`) | one or many pending timeouts | start, stop, handle | RLC |
| PDCP / RRC | connection table, sequence numbers | assign logical channel, compress, forward | IP2lte, RLC |
| PHY and channel model | antenna and interference data | send, receive, decide on errors | MAC |
| Channel feedback | last reports | generate, send | PHY, AMC |
| Binder, deployer, node life cycle | global tables of nodes | register, unregister | everything |
| IP adaptation, EPC (GTP, X2) | static tables | encapsulate, forward | INET |
| Applications | statistics | send, receive | INET |
| Vehicles with two radios (`src/veins/src/veins/modules/lte`, `heterogeneous`) | statistics | choose a radio for each message | Veins, IP |

What makes each correct, beyond its types:

* **H-ARQ, downlink**: no class ever throws; a process has at most one exchange
  underway; a PDU goes up at most once; a PDU leaves delivered, or after all
  its attempts; no process is lost; the counters agree with the units.
* **H-ARQ, uplink**: the same, and: both ends agree, without saying so, on the
  process each grant is for, and on the PDU and attempt a retransmission is.
* **Random access**: a UE with data is served in the end.
* **MAC buffers**: a queue and its virtual buffer, or the BSRs of a UE and its
  backlog, stay in step; what is scheduled is there to be popped.
* **Allocator and schedulers**: no block is given out twice, no connection is
  forgotten while it has backlog, DRR shares in proportion.
* **RLC AM**: SDUs are delivered once, in order, or discarded; window edges at
  the two ends stay within a window of each other; every PDU is acknowledged,
  retransmitted or skipped.
* **RLC UM**: an SDU goes up once, complete, before its timeout, or not at all.
* **Node life cycle**: nothing refers to a node that has left.

## Plan

1. `LteHarqTx`, `LteHarqRx`: the H-ARQ classes as operators on one buffer. *Done.*
2. `LteDlHarq`: the downlink exchange, with `LteMacPduService`, the abstract
   service it implements; its safety and the implementation proved for all
   parameters.  *Done.*
3. `LteUlHarq`: random access, grants and synchronous H-ARQ; its safety proved
   for all parameters. *Done.*
4. `TMultiTimer`, with `TimerService`, the abstract timers it implements; the
   implementation proved.  *Done.*
5. `LteRlcUm`: RLC UM over a channel that is what `LteMacPduService` promises
   (loss, no duplicate), with `LteReassembly`, the abstract windows it
   implements; its safety and the implementation proved.  *Done.*
6. `AmTxQueue`, `AmRxQueue`, `LteRlcAm`: RLC AM over the same channel, with
   `LteRlcAmService`, the sliding window it implements; its safety and the
   implementation proved.  *Done.*
7. `LteAllocation`, `LteEnbDownlink`: the downlink of an eNodeB by bytes and
   blocks: MAC buffers, `scheduleGrant`, Max C/I, allocator, `macPduMake`, with
   `LteGrantService`, the grants given at once that it implements; its safety and
   the implementation proved.  *Done.*
8. Next: the bytes of uplink grants (BSR buffers, `sendGrants`,
   `LcgScheduler`); DRR's deficits; node life cycle with binder,
   erasure of buffers and misaligned ticks; the connection table of PDCP.

## Modules

| Module | Models |
|---|---|
| `LteHarqTx` | `LteHarqUnitTx`, `LteHarqProcessTx`, `LteHarqBufferTx`: operators on a transmit buffer, and the condition under which each operation throws |
| `LteHarqRx` | `LteHarqProcessRx`, `LteHarqBufferRx`: operators on a receive buffer |
| `LteDlHarq` | the downlink between `LteMacEnb` and one `LteMacUe`: ticks, scheduling, frames, feedback; safety and liveness properties; the inductive invariant `Inv` |
| `LteMacPduService` | what H-ARQ promises to its users: at most `MaxHarqRtx + 1` transmissions, then delivered once or lost |
| `LteUlHarq` | the uplink: RAC, grants, BSR, the two process counters, synchronous H-ARQ; the inductive invariant `Inv` |
| `LteHarqProofs` | lemmas about the operators of `LteHarqTx` and `LteHarqRx` |
| `LteDlHarqProofs` | the theorems about `LteDlHarq` |
| `LteUlHarqProofs` | the theorems about `LteUlHarq` |
| `TMultiTimer` | `TMultiTimer`: operators on one timer, and on the kernel's hold of its message |
| `TMultiTimerModule` | any module with a multi-timer: adds, removes, is called by the kernel |
| `TimerService` | what a multi-timer promises: timers that know nothing of one another |
| `LteRlcUm` | RLC UM on one flow: `UmTxQueue`, `UmRxQueue`, `UmFragbuf` and a `TMultiTimer`; the inductive invariant `Inv` |
| `LteReassembly` | what RLC UM promises: a reassembly window for every SDU |
| `TMultiTimerLemmas`, `TMultiTimerProofs` | lemmas about the operators of `TMultiTimer`; the theorems about `TMultiTimerModule` |
| `LteRlcUmProofs` | the theorems about `LteRlcUm` |
| `AmTxQueue` | `AmTxQueue`: operators on the transmit queue of RLC AM |
| `AmRxQueue` | `AmRxQueue`: operators on its receive queue |
| `LteRlcAm` | RLC AM on one flow: the two queues, their timers, and data, reports and window commands underway; the inductive invariant `Inv` |
| `LteRlcAmService` | what RLC AM promises about PDUs: one sliding window, of which only settled ones leave; where a stale status is possible it may break |
| `LteRlcAmProofs` | lemmas about the operators of the queues; the theorems about `LteRlcAm` |
| `LteAllocation` | the conversion of blocks and bytes in `LteAmc`, and `LteAllocationModule`: operators on an allocation |
| `LteEnbDownlink` | the downlink of an eNodeB between MAC buffers and PDUs: `bufferizePacket`, Max C/I, `scheduleGrant`, `macPduMake`; the inductive invariant `Inv` |
| `LteGrantService` | what the downlink promises of a TTI: a UE gets at once the first packets of one connection, on blocks nobody else has |
| `LteEnbDownlinkProofs` | the theorems about `LteEnbDownlink`, and the lemmas about `LteAllocation` |
| `MCLteDlHarq`, `MCLteUlHarq`, `MCLteRlcUm`, `MCLteRlcAm`, `MCLteEnbDownlink` | instances for TLC |

### How state and actions correspond to the code

*Time.*  Every MAC has a self message per TTI (`LteMacBase::handleMessage`), of
priority 1; frames last a TTI and arrive with priority 10
(`LtePhyBase::airFramePriority_`), that is, after the ticks of the instant at
which they arrive.  Frames sent by the tick of TTI *k* thus arrive after the
ticks of TTI *k*+1 and matter to the ticks of *k*+2.  In the models a TTI is:
`EnbTick`/`UeTick` in either order (simultaneous events have no order the
protocols may rely on), the arrivals in any order, then `NextTti`, which moves
what was sent to what arrives.  `ticked` says which ticks of the TTI have run.

*The channel.*  Nothing on the air is lost without a trace: `LtePhyUe` and
`LtePhyEnb` decide whether a data frame was decoded, and hand it up either way
with the decision.  Control frames are always decoded.  The decision is a free
choice of `UeReceivesData` and `EnbReceivesData`.

*A `cRuntimeError`* sets `err`, after which nothing happens any more.

*Codewords.*  `MAX_CODEWORDS` is 2, but the AMC pilot only hands out
transmission modes with one layer and `scheduleGrant` sets the number of
codewords to 1, so only the unit of codeword 0 is kept; the counters still
count two units.

*Downlink.*  `LteMacEnb::handleSelfMessage` is one of `EnbTickRetransmits`
(`rtxschedule` serves a process), `EnbTickTransmits` (`scheduleGrant`,
`macPduMake`, `insertPdu`), `EnbTickDrops` (as before, with every process
busy) or `EnbTickIdle`; each ends with `sendSelectedDown`.
`LteMacUe::handleSelfMessage` is `UeTick`: feedback, extraction, purge.  Which
of the four happens depends on sizes and on other UEs: a free choice.

*Uplink.*  `UeTickChecksRac` is the main loop of the UE without a grant;
`UeTickRetransmits`, `UeTickTransmits`, `UeTickWastesGrant` with one.
`EnbTick(d)` is the main loop of the eNodeB: reception, `updateHarqDescs`,
the decision `d` of the scheduler (limited by `Possible` to what it may
decide), `sendGrants`, and no purge, because the purge loop of the code starts
where the reception loop ended.  A grant in the code says nothing of its
purpose; in the model it carries, as history, the process it was scheduled for
and whether it was for new data, so that properties can speak of it; no action
of the UE reads them.

*Timers.*  `directList_` is a sequence of events with what is left of their
times, in the order of the multimap; `armed` is what the kernel holds: the
message `intr_` points to, or a message that an operation forgot to cancel.
`add`, `remove` and `handle` are `TimerAdd`, `TimerRemove` and `TimerHandle`,
each with the condition under which it throws.  Due messages are delivered one
by one, in any order with the other events of the instant, before `Tick` lets
time go on; the kernel's exact order of equal times is not relied on.

*RLC UM.*  A flow goes from a UE to its eNodeB.  `Fragment` is
`handleUpperMessage` with `fragment()`, which sends all fragments of an SDU in
one event.  `net` holds them in the MAC layer below, which delivers each at
most once, in any order, or drops it (`Lose`): that is what
`LteMacPduService` promises.  `Defragment` is `handleLowerMessage`: the
fragment is inserted, then one of `DefragmentUnknown` (the UE has left),
`DefragmentMissing` and `DefragmentComplete`.  `TimerMessage` is
`handleMessage`.  `UnregisterNode` is the removal of a vehicle: the binder
forgets it, the queue at the eNodeB stays.  In the downlink the queue is in the
UE and goes with it: the model without `UnregisterNode`.  The bitmap of a
packet is the set `got`, `fragsleft_` and `size_` are `left` and `bytes`.

*RLC AM.*  `AmTxQueue` keeps the SDUs that wait, the one being cut and the
window; as fragments enter the window in order and none is skipped, the first
two are the sequence `pdus` of all fragments, of which those from `seqNum` on
are still to come.  `pduRtxQueue_`, `received_` and `discarded_` are functions of
the slot, with the placement in the first free slot as the code has it, which
is why `PdusKeepTheirSlot` is a property and not a shape.  `Enque` is
`handleUpperMessage` with `addPdus`; `PduTimer`, `MrwTimer` and
`BufferStatusTimer` are the three branches of `AmTxQueue::handleMessage`;
`ReceiveAck` and `ReceiveMrwAck` those of `handleControlPacket`; `ReceiveData`
and `ReceiveMrw` are `AmRxQueue::enque`, `StatusTimer` its `handleMessage`, and
`ReportInterval` the time after which it may report again.  Every handler is one
action, with the window command it may send (`CheckForMrw`) and the PDUs it may
add.  `SearchBackward`, `SearchForward` and `PassedUp` are `checkCompleteSdu`,
its wrong position included.  No clock is kept: a timer that runs may run out at
any time, which adds behaviours.  A message stays in `net` until it arrives, so
one that never does is one that is lost; the number of a window command is used
again when nothing holds it any more.

*RLC AM: stale status and small windows.*  Nothing relates the sizes of the two
windows, so neither do the models and the theorems.  A window move may leave the
status of a PDU that is gone (`LeavesStale`), and `stale` remembers that one did.
What the queues report from then on can be false: `NothingSkipped`, the errors
of `NeverThrows` but one, the last part of `WholeSdusGoUp` and the `Slide` of the
service, which may then `Break`, are claimed as long as none did.
`StatusIsTrue` says when that is for ever: if the receive window is at least twice
the transmit window.  `NeverThrows` also says when no PDU and no window command is
outside the receive window: if it is not smaller than the transmit window.  What
does not depend on the sizes or on reports is claimed without condition:
`PdusKeepTheirSlot`, `TimerIffOutstanding`, `WindowsOverlap`, that the window of the
service keeps its order and size, and that no whole SDU goes up twice.

*The downlink of the eNodeB.*  A TTI is a sequence of steps, `pc` telling which
is next, from `StartTti` (retransmissions, copy of the active set, score list)
over grants to `MacPduMake`; packets are bufferized between two TTIs
(`BufferizePacket`).  A grant is `RequestGrant` (the checks on blocks and
codewords), then for each band `NextBand`, the packets of the band, and
`CloseBand`, which asks the allocator for the blocks, then `EndGrant`, which
hands eligibility and activity back to Max C/I.  For one packet: `AllServed` if
the virtual buffer is empty, `BookBand` if the packet needs more than this band
and those booked before, else `StartSdu`, a `UseBooked` for each booked band,
and `ServeSdu` for what comes from this band.  The record `g` is the local
variables of `scheduleGrant`.  The four places that throw go to the step
`"error"`.  Retransmissions take any of the blocks in `RtxBlocks`, and the codewords of
any UEs; the order of the score list is free, since it depends on the channel.
A packet is its size; the real queue and the virtual buffer are two sequences
of sizes that only the actions keep alike.

*Names of PDUs.*  The code tells PDUs apart by `getId()`, unique for ever.  In
the downlink a PDU is a model value used once.  In the uplink a PDU that
nothing holds any more is used again, so that the state space is finite and
runs without end: of two PDUs of a process one is always free.

*History variables.*  `attempts`, `delivered`, `discarded`, `dropped`
(downlink), `deliveries` (uplink), `taken`, `delivered` and `lost` (RLC UM),
`taken`, `delivered`, `given` and `stale` (RLC AM), `rejected` and `spread` (eNodeB
downlink) record what happened; no guard reads them.  `expired` in `TMultiTimerModule` is
the event of the last step, if that was a timeout, so that an implementation of
`TimerService` also has to tell its module the right event.

## Runs

| Run | Shows |
|---|---|
| `dl_harq` | the downlink: no run-time error, stop and wait per process, every PDU settled once, processes freed again, `Inv` an invariant, and that it implements `LteMacPduService` |
| `ul_harq` | safety of the uplink with the code's eight processes: no run-time error, counters in step, every grant finds its process, both ends agree, every PDU settled |
| `ul_live` | that `Inv` is an invariant of the uplink, and liveness of uplink retransmissions and of random access |
| `ul_eligibility` | finding: eligibility is asked of the wrong process |
| `multi_timer` | the structure of a multi-timer holds, it implements `TimerService`, no event is forgotten |
| `rlc_um` | safety and liveness of RLC UM, that `Inv` is an invariant, and that RLC UM implements `LteReassembly` |
| `rlc_am` | safety of RLC AM, with and without a stale status, that `Inv` is an invariant, and that the two queues implement `LteRlcAmService` |
| `rlc_am_live` | every PDU leaves the window of RLC AM, whatever is lost |
| `rlc_am_stale` | finding: a move of the receive window leaves status without a PDU |
| `rlc_am_complete` | finding: RLC AM passes up SDUs that are not complete |
| `enb_dl` | the eNodeB downlink: queues in step, no backlogged connection forgotten, no overflow, PDUs that fit their blocks, `Inv` an invariant, connections served, and that it implements `LteGrantService` |
| `enb_header` | finding: the header of a PDU is not counted when the first packet does not fit the first band |

**Bounds.**  Downlink: two processes and three PDUs (one more than there are
processes, so that `EnbTickDrops` occurs and a process is reused), two
retransmissions (a first, a middle and a last attempt), an evaluation of three
TTIs, as in the code.  No symmetry, because the run also checks liveness.

Uplink: what matters is how the cycle of processes relates to the round trip.
`ul_harq` and `ul_eligibility` have the code's eight processes and three TTIs of
evaluation, with which a NACKed process comes round when its evaluation has
just ended.  Four processes with an evaluation of one TTI are as tight, and are
the instance of `ul_live`, which is small enough to check `Inv` as well.  `MaxLoad` bounds the
SDUs queued plus the busy processes, which keeps the arrivals going for ever
without a counter; the constraints `TwoBusyProcesses` and `OneBusyProcess` cut
instances with many processes, whose exchanges do not touch one another but
for the counters they share.  `RaRespWinStart` is small: the timer only counts
down.  Transmissions and deliveries are bounded by the protocol itself.

Timers: four events, of which two may share a time and one may be put before,
between or behind the others; times up to three, so that entries of different
ages meet.  RLC UM: SDUs of one, two and three fragments (complete at once, with
a first and a last, and with one in the middle), two of them with a shorter last
fragment; a timeout of two ticks, so that two packets can have windows that
overlap and end at different times.  Fragments and SDUs are finite; time is
not counted.

RLC AM: `rlc_am` has a transmit window of two and a receive window of three, with
which a move by two can leave a stale status and one by one cannot; two SDUs of together three PDUs
(so the window moves, an SDU of two or three PDUs spans a move, and whole and cut
SDUs meet), one retransmission, and two window commands underway at once, one of
them obsolete; `FewUnderway` bounds the PDUs on their way at one time to three,
not those sent.  `rlc_am_live` has windows of one and two: the flow then stands
still unless each single window command gets through.  `rlc_am_stale` has windows of
three and two: as by the defaults of `LteRlc.ned` (lines 200 and 210: 200 and 20)
the receive window is the smaller one.  What RLC AM keeps for windows of any
sizes, and what only for some, is said by the properties themselves, see *RLC AM:
stale status and small windows*.

eNodeB downlink: three bands of two blocks, two connections of one UE and one of
another with a worse channel.  Sizes 2, 5 and 6 over bands that carry at most 4
and 3 bytes: a packet with the header fits one band, needs two (one
booked), or three (two booked), which one TTI may not have; a queue of 5 bytes takes one or two
packets and refuses the largest, as the first packet of its connection or a
later one.  Retransmissions take nothing, half a band, all but one block, or
everything.

**Fairness.**  Weak fairness of ticks, arrivals and `NextTti`: the kernel
executes every event.  The rest is an assumption about the load of the cell,
stated where it is used: a process that asks again and again for a
retransmission (`EnbTickRetransmits`, `RetransmissionsServed`), new data, or a
random access with a grant large enough for an SDU (`AccessServed`) is served
at some of those times.  It is strong fairness because each opportunity lasts
one TTI.  The scheduler does not promise it: MaxCI starves a UE with a bad
channel, and an SDU larger than a TTI is never served.

Timers and RLC UM: weak fairness of due timer messages and of time.  A module
that used its multi-timer infinitely often at one instant would stop time for
ever; `TMultiTimerModule` therefore takes strong fairness of `Tick`.  In
`LteRlcUm` an instant has finitely many events, and weak fairness is enough.
Nothing is assumed about the arrival of fragments.

RLC AM: weak fairness of each PDU's timer and of each window command's, which
the kernel delivers, and strong fairness of the arrival of window commands and
of their answers: they are repeated until one arrives, and a channel that lost
every one would stop any protocol.  Data and status reports may all be lost.

eNodeB downlink: weak fairness of the steps of a TTI, which is one event, and
strong fairness of `BestOfFreeTti`: again and again a connection leads the
score list in a TTI that retransmissions leave alone.  That is an assumption
about the channel: Max C/I promises nothing to others, not even to the second
on the list, as `LteSchedulerEnb.cc:261` ends the TTI once a connection asks
again after its codeword.

**Mutants.**  Beside some operators stands a variant with a plausible bug
(`Mutant of ...`), defined just before the operator it replaces.  With it the
property it is listed for in `PROJECT.json` is violated: it shows that the
property depends on that line of the code.

## Findings

With a run that shows them:

* `ul_eligibility`: eligibility of new uplink data is asked of the process of the
  current TTI (`LteSchedulerEnbUl.cc:27`), but the grant is used on another, two
  TTIs later: a grant meant for new data meets a PDU to retransmit, and a free
  process may be refused.
* `rlc_am_stale`: `moveRxWindow` shifts the status of the window in a loop that
  only touches the positions it reads and those it copies them to
  (`AmRxQueue.cc:686` to 700).  After a move by more than half the window some
  keep their status although their PDU is gone, against `AmRxQueue.h:47`: the
  status stands for another PDU, which then counts as received.
* `rlc_am_complete`: after its backward search `checkCompleteSdu` forgets what it
  found (`AmRxQueue.cc:469`) and passes up the SDU at the start of the window.
  `WholeSdusGoUp` shows that nothing of the kind happens while every SDU fits
  one PDU.
* `enb_header`: the header of a PDU is counted with the first packet tried, not
  the first served (`LteSchedulerEnb.cc:419`): if that packet only books the
  band, the bytes granted are two short.

By reading, while modelling:

* `LteSchedulerEnbDl::checkEligibility` answers yes when no process is free
  (`LteSchedulerEnbDl.cc:39`), against its description
  (`LteSchedulerEnb.h:247`); the PDU is made and deleted (`LteMacEnb.cc:552`),
  its SDUs lost.  The action `EnbTickDrops` of `dl_harq` is this case.
* The purge of corrupted PDUs at the eNodeB never runs (`LteMacEnb.cc:691`),
  against the comment before it.  Had it run, uplink retransmissions would
  lose their count of transmissions: the mutant `ExtractAndPurge` shows it.
* The UE advances its process counter in every TTI (`LteMacUe.cc:459`),
  against the comment at line 312.  Synchronous H-ARQ needs it to.
* When a UE has left, the timeout of a packet of RLC UM returns early
  (`UmRxQueue.cc:203`) and neither discards the fragments, against the comment
  at line 195, nor calls `handle()`: the timeouts of the other packets of that
  queue never come.  `NoRuntimeError` shows that nothing worse follows.
* RLC AM: an SDU of several PDUs whose first PDU arrives last is passed up from
  position -1, which throws (`AmRxQueue.cc:409` and 538; the error `"order"`
  of the model); a window command that arrives before any data is answered
  through a null pointer (line 197; the error `"null"`); and with the defaults,
  200 PDUs for the transmitter and 20 for the receiver, the 21st PDU sent without
  an answer ends the simulation at line 258 (the error `"window"`).
* eNodeB downlink: of a booked band whose bytes need more blocks than are left
  of it no block is noted (`LteSchedulerEnb.cc:501`), so blocks that carry bytes
  of one UE may go to another: `PduFitsItsBlocks` excepts PDUs with booked bytes
  for this reason.  A first packet too large for its queue is counted in the
  virtual buffer all the same (`LteMacBase.cc:157`), and `macPduMake` throws for
  it in the end: hence the condition of `OnlyRejectedThrows`.
* DRR: its deficit is unsigned, so the check for a negative one never fires
  (`LteDrr.cc:49`), and the commit empties the set that mirrors its list (98).
* `LteMacEnb::sendGrants` counts the blocks of the first band only (line 398),
  `LtePhyUe::sendFeedback` stores the uplink report as downlink (line 434).

## Proofs

`LteDlHarqProofs` proves for every number of PDUs, processes, retransmissions
and TTIs of evaluation, from the assumptions named in `LteHarqTx` and
`LteHarqRx` only:

| Theorem | Property |
|---|---|
| `InvInvariant` | `Spec => []Inv` |
| `TypeInvariant` | `Spec => []TypeOK` |
| `NeverThrows` | `Spec => []NoRuntimeError` |
| `StopAndWaitInvariant` | `Spec => []StopAndWait` |
| `BookkeepingInvariant` | `Spec => []BookkeepingOK` |
| `SettledOnceInvariant` | `Spec => []SettledOnce` |
| `AtMostOnceInvariant` | `Spec => []DeliveredAtMostOnce` |
| `Implementation` | `Spec => ImplementsService` |

None of these but the type invariant is inductive by itself.  That feedback
always finds its PDU in a waiting unit depends on there being one message per
exchange; that there is one depends on the receiver being empty when the frame
arrives; that it is depends on its purge and on the transmitter waiting.
`Inv` says it all at once: `ExchangesOK` (each waiting process has one
exchange at one of three stages, about its PDU, delivered only in the third,
with an ACK), `RxOK` (after its tick the UE keeps only PDUs under evaluation),
`UnitsOK` (units, counters, no PDU in two units) and `HistoryOK` (the
history of PDUs never sent, held and settled).  There is one lemma per action;
the two that send a frame share `SendStep`.  `OneFramePerTti` is for the
implementation: no two PDUs under evaluation are equally old, so a tick of the UE
is the delivery of one PDU of the service, or nothing (`UeTickDelivers`).

`LteUlHarqProofs` proves, for every number of processes, retransmissions and
TTIs of evaluation such that feedback comes before the turn of its process does
(`RoundTripAssumption`: `NumProc >= FbInterval + 3`; the code has 8 processes
against 3 TTIs, `LteCommon.h:656-665`):

| Theorem | Property |
|---|---|
| `InvInvariant` | `Spec => []Inv` |
| `TypeInvariant` | `Spec => []TypeOK` |
| `NeverThrows` | `Spec => []NoRuntimeError` |
| `CountersStayInStep` | `Spec => []ProcessesInStep` |
| `GrantsFindTheirProcess` | `Spec => []GrantFindsItsProcess` |
| `SidesAgree` | `Spec => []RetransmissionsAgree` |
| `FreeProcessForgotten` | `Spec => []FreeMeansForgotten` |
| `PdusSettledOnce` | `Spec => SettledOnce` |

Synchronous H-ARQ sends no process number with a grant, so everything rests on
time, and the only clock is the UE's process counter.  `Since(a)` reads from it
how many TTIs ago process *a* had its turn.  `ExchangesOK` says that every frame,
every PDU under evaluation and every feedback is exactly as old as its stage
demands; two processes never have the same age (`SinceFacts`), so at each stage
there is one exchange at most, and none is left when the turn of the process
comes round.  `CountersOK` dates the counter of the eNodeB by that of the UE,
through the first access, when it is not yet running; `FirstAccessOK` is needed
there: the first grant must not be wasted, or the eNodeB would start its
counter at another offset.  `GrantsOK` dates the grants: one for a retransmission
is used one whole round after the turn in which its process was used last.
There is one lemma per action; those of the UE's tick share `TurnFacts`,
`SilentTurn` and `SendingTurn`, and the tick of the eNodeB is split into
reception, counter and grants.

`TMultiTimerProofs` proves, for any set of events and any bound on the times,
and `LteRlcUmProofs`, for any SDUs, sizes, fragment size and timeout
(`SizeAssumption`: none of them 0):

| Theorem | Property |
|---|---|
| `TMultiTimerProofs!InvInvariant` | `Spec => []Inv` |
| `TMultiTimerProofs!Implementation` | `Spec => ImplementsService` |
| `LteRlcUmProofs!InvInvariant` | `Spec => []Inv` |
| `LteRlcUmProofs!TypeInvariant` | `Spec => []TypeOK` |
| `LteRlcUmProofs!NeverThrows` | `Spec => []NoRuntimeError` |
| `LteRlcUmProofs!WholeOnlyInvariant` | `Spec => []WholeOnly` |
| `LteRlcUmProofs!SizeRestoredInvariant` | `Spec => []SizeRestored` |
| `LteRlcUmProofs!TimerPerPacketInvariant` | `Spec => []TimerPerPacket` |
| `LteRlcUmProofs!Implementation` | `Spec => ImplementsReassembly` |

The heart of the timer is `WellFormed`: the list in order of time, without
duplicates, and exactly one kernel message, that of its first entry.  It is
inductive, and from it follow both halves of the implementation: a due message
is the first entry, so `handle()` drops the event the module was told of; and
nothing behind it can be due earlier, so no event is late.  The lemmas in
`TMultiTimerLemmas` say, operation by operation, that `WellFormed` is kept and
what becomes of the times of all events; their proofs are about positions in
the sequence, and those of the modules that use timers only about events.

For RLC UM, that nothing throws needs `WellFormed`, `TimerPerPacket` (to find
the timer that is removed, and the entry of a timeout), `NetOK` (no fragment is
inserted twice) and, when the UE has left, `TimerOK`: the one message that may
still come finds an entry.  `WholeOnly` needs `BufferOK`: `left` is what is
missing of the bitmap, and a packet that timed out once has a fragment it will
never get again, so it cannot become complete.  `SizeRestored` needs its part about
bytes: the buffer counts the bytes of the fragments it holds, `BytesOf`, which is
a product and a last fragment rather than a sum, so that one more fragment is
arithmetic.  For the implementation, a
window is what the timer has left for the packet: what `AddTimes`,
`RemoveTimes`, `HandleTimes` and `AgedTimes` say of the times of all events is
that no step touches the windows of other SDUs (`OthersKept`, `EndCloses`).
After the UE has left every step is a stutter (`NothingSeen`).

`LteRlcAmProofs` proves, for a transmit and a receive window of any sizes, any
number of attempts, of window commands and of PDUs:

| Theorem | Property |
|---|---|
| `InvInvariant` | `Spec => []Inv` |
| `TypeInvariant` | `Spec => []TypeOK` |
| `AmNeverThrows` | `Spec => []NeverThrows` |
| `PdusStayInSlot` | `Spec => []PdusKeepTheirSlot` |
| `TimersMatch` | `Spec => []TimerIffOutstanding` |
| `AmWindowsOverlap` | `Spec => []WindowsOverlap` |
| `AmNothingSkipped` | `Spec => []NothingSkipped` |
| `AmStatusIsTrue` | `Spec => []StatusIsTrue` |
| `AmWholeSdusGoUp` | `Spec => []WholeSdusGoUp` |
| `Implementation` | `Spec => ImplementsService` |

The messages are what makes it hard: a report or a window command may arrive
after any number of window moves.  `MessagesOK` says of each only what never
stops being true, because `tx.seqNum`, `rx.firstSeqNum`, `pdus` and the PDUs that
are finished only grow: that what a report acknowledges is finished, and that
all below the new start of a window is.  From it follows that a PDU the transmitter
takes for received did arrive or was given up, that the receiver's window starts
in the transmitter's, and so that no check on either side throws.  All that ends
with the first stale status, and is claimed as long as there is none; what remains
true, that a window command never asks for more than the transmitter has sent, is
what keeps the two windows together (`MrwInReach`).  `InOrder`
says of the transmit queue that slots, timers and flags agree; with it the first
free slot is always the right one.  `RxOK` says of the receive buffer that
nothing lies beyond what was sent.  A move reaches at most to what was sent, so one
by more than half of the window finds the rest of it empty if the window is at least
twice the transmit window: nothing stale is left then (`StaleOnlyIfSmall`).  Nor can
a PDU or a move be outside a receive window that is not smaller than the transmit
window.  For the implementation every step is `Offer`, `Settle`, `Slide`, `Break`
(a stale status) or a stutter of the service.

`LteEnbDownlinkProofs` proves, for any UEs, connections, bands, rows of the block
size table (`TbsAssumption`: more blocks never carry less), packets, header and
queue capacity, and any retransmissions; UEs are finitely many (`UeAssumption`),
since their blocks are added up:

| Theorem | Property |
|---|---|
| `InvInvariant` | `Spec => []Inv` |
| `TypeInvariant` | `Spec => []TypeOK` |
| `QueuesStayInStep` | `Spec => []QueuesInStep` |
| `BacklogStaysActive` | `Spec => []BacklogIsActive` |
| `GrantsFitTheirBands` | `Spec => []BandNeverOverflows` |
| `BookedBytesFit` | `Spec => []BookedNeverUnderflows` |
| `OnlyRejectedConnectionsThrow` | `Spec => []OnlyRejectedThrows` |
| `PdusFitTheirBlocks` | `Spec => []PduFitsItsBlocks` |
| `NoBlockIsGivenTwice` | `Spec => []BlocksGivenOnce` |
| `Implementation` | `Spec => ImplementsGrants` |

Neither `QueuesInStep` nor `BacklogIsActive` is inductive.  The first counts the
packets of the grant underway, which join the schedule list only if bytes were
granted: `ItemsHaveBytes` says that they were, through the bytes of the booked
bands.  The second speaks of the end of a TTI only: `ActiveFollows` says at each
step which copy of the set is the true one, and that the flags with which a band
is closed agree with the virtual buffer.  `BandFits` is the reason why no band
overflows: bytes left and bytes allocated are together what the blocks carried
when the grant came to the band, and `UseBooked` touches bands behind it only;
the lemma `ReqRbs` about the two conversions does the rest.

Nor are the two that speak of errors and PDUs.  `OnlyRejectedThrows` depends on
the unsigned subtractions of `UseBooked`: `BookedSpent` says that the bytes of two
or more bands are booked only for a packet they fall short of, which therefore
takes them all; of one band, some may be left, but then the loop ends there.
`PduFitsItsBlocks` speaks of PDUs scheduled, and needs to be told what makes one:
`GrantFits` compares the packets granted so far with the blocks noted and the bytes
taken from the band at hand, header included, and `ScheduledFits` is what is left
of that when the grant ends.  That the blocks of other bands and UEs are untouched
in between is `BlocksNoted`, and that no second grant spends them again is
`ScheduledOnce`.  
`BlocksGivenOnce` is about all UEs at once: what they were given of a band adds up
to no more than is taken of it.  The allocator knows the blocks taken, by whomever,
and a grant asks it again at the end of each band, also of booked bands, where the
blocks left were counted when the band was passed.  It is inductive: `SumRaised`
and `SumZero` tell what one more allocation does to the sum.

`Implementation` hides the steps of a grant.  Nothing of a grant is seen before it
ends: the queue of the granted connection is until then the real one without what
earlier grants scheduled (`QueueSeen`), the blocks noted for its UE count as free
(`GivenSeen`, `TakenSeen`), and so do its booked bytes (`SpreadSeen`).  All steps of
a grant but `EndGrant` are then stutters, and so is `EndGrant` if no bytes were
granted; else it is `Grant` of the service, and what the service asks of it is what
the invariants say: `QueuesInStep` that the packets are the first ones of the queue
and in order, `BlocksGivenOnce` that the blocks were free, `GrantFits` that they
carry the PDU, `ScheduledOnce` that the UE had no grant before.  `CodewordHasPacket`
(bytes are never granted without a packet) and `TtiForgotten` (nothing of a TTI is
left in the next) are there for it.  The service promises nothing of connections
whose first packet the queue refused (`Break`), may stop if there are any, and asks
no blocks for bytes that were booked; it promises no liveness.

All this counts bytes with folds over sequences and functions
(`SumFunction`, `Bytes`), about which the library has only their definition.
`SumTake`, that the sum of a function is one of its values and the sum of the rest,
whichever value it is, and what follows from it about one more packet or one more
band, are proved by induction on the number of elements: `LeastElement` and
`Induction` are the principle, stated about a set, since theorems about an operator
cannot be instantiated.

Model-checked only: the liveness properties, which are beyond the prover (it has
no ENABLED and no fairness).  Every invariant of a run that passes, and the safety
of every abstract specification, is a theorem.

## Not modelled

* Uplink bytes: grants, BSRs and `LcgScheduler` are free choices of `LteUlHarq`.
* Disciplines other than Max C/I: PF ranks by another number; DRR and the
  multi-band Max C/I, with limits on bands and bytes, are planned.
* Second codewords, MU-MIMO, remote antennas and periodic grants: nothing in the
  code reaches them.  `selfNack`, `dropPdu`, `forceDropUnit`, `removeBlocks`, and
  of RLC AM `discard` and `computeWindowShift` of the receive queue, are never
  called.
* Handover: the code that would start it is disabled (`LtePhyEnb.cc:72`), and
  with it `deleteQueues` of MAC and RLC.
* Nodes that leave (but for the receiver of RLC UM), and nodes whose ticks are not
  aligned with those of their eNodeB.
* Channel, choice of modulation, feedback computation and statistics are
  arithmetic on real numbers.  The tables of the AMC are a constant.
* PDCP, RRC, IP adaptation, GTP and X2 keep tables that are configured or grow
  with new flows, and forward; RLC TM and applications keep no protocol state.
* INET and Veins are vendored, and are most of the lines of the repository: what
  is modelled is a large part of SimuLTE's protocol code and a small part of the
  whole.

The components are listed one by one, with reasons, in `PROJECT.json`.
