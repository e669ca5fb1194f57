------------------------------ MODULE LteRlcUm ------------------------------
(***************************************************************************)
(* RLC unacknowledged mode (simulte/src/stack/rlc/um): one flow from a UE  *)
(* to its eNB, with the UmTxQueue that cuts SDUs into fragments, and the   *)
(* UmRxQueue with its UmFragbuf and its multi-timer that puts them         *)
(* together again.  The MAC layer between them delivers a fragment at most *)
(* once, late, out of order or not at all (module LteMacPduService).  The  *)
(* UE may be removed from the simulation at any time; a flow to a UE has   *)
(* its receiving queue in the UE: there this does not happen.              *)
(***************************************************************************)
EXTENDS TMultiTimer, Integers

CONSTANTS
  Sdu,            \* the SDUs of the flow; their numbers (snoMainPacket) differ
  SduSize,        \* [Sdu -> size in bytes, with the RLC header]
  FragmentSize,   \* fragmentSize_
  Timeout         \* timeout_, in ticks

ASSUME SizeAssumption ==
  /\ SduSize \in [Sdu -> Nat \ {0}]
  /\ FragmentSize \in Nat \ {0}
  /\ Timeout \in Nat \ {0}

VARIABLES
  unsent,      \* the SDUs that the upper layer has not sent yet
  net,         \* the fragments on their way through the MAC layer
  frags,       \* frags_: [Sdu -> MainPktInfo_], where no entry is NoEntry
  timer,       \* timer_
  registered,  \* the UE is registered with the binder
  failed,      \* a run-time error has ended the simulation
  taken,       \* history: [Sdu -> the fragments given to defragment()]
  delivered,   \* history: [Sdu -> the sizes it was passed up with]
  lost         \* history: [Sdu -> how often rlcPacketLoss counted it]

rxVars == <<frags, timer>>
history == <<delivered, lost>>
vars == <<unsent, net, rxVars, registered, failed, taken, history>>

NoEntry == [left |-> 0, bytes |-> 0, got |-> {}]

Buffered(s) == frags[s].got # {}

----------------------------------------------------------------------------
(* UmTxQueue.                                                              *)

TotalFragments(size) ==
  size \div FragmentSize + (IF size % FragmentSize # 0 THEN 1 ELSE 0)

LastSize(size) == IF size % FragmentSize # 0 THEN size % FragmentSize ELSE FragmentSize

Numbers(s) == 0 .. TotalFragments(SduSize[s]) - 1

FragmentsOf(s) ==
  LET total == TotalFragments(SduSize[s]) IN
  {[sdu |-> s, sno |-> sno, total |-> total,
    size |-> IF sno < total - 1 THEN FragmentSize ELSE LastSize(SduSize[s])] :
     sno \in Numbers(s)}

\* handleUpperMessage: fragment() sends all fragments of an SDU in one event.
Fragment(s) ==
  /\ registered /\ ~failed
  /\ s \in unsent
  /\ unsent' = unsent \ {s}
  /\ net' = net \cup FragmentsOf(s)
  /\ UNCHANGED <<rxVars, registered, failed, taken, history>>

\* The MAC layer drops a fragment: its buffer is full, or H-ARQ gives up.
Lose(f) ==
  /\ ~failed
  /\ f \in net
  /\ net' = net \ {f}
  /\ UNCHANGED <<unsent, rxVars, registered, failed, taken, history>>

----------------------------------------------------------------------------
(* UmFragbuf.                                                              *)

InsertThrows(f) == f.sno \in frags[f.sdu].got

First(f) == ~Buffered(f.sdu)

\* Mutant of Entered: the size is that of the first fragment.
EnteredUnsized(f) ==
  LET pkt == frags[f.sdu] IN
  [left  |-> (IF First(f) THEN f.total ELSE pkt.left) - 1,
   bytes |-> IF First(f) THEN f.size ELSE pkt.bytes,
   got   |-> pkt.got \cup {f.sno}]

\* The entry of the packet after insert(f).
Entered(f) ==
  LET pkt == frags[f.sdu] IN
  [left  |-> (IF First(f) THEN f.total ELSE pkt.left) - 1,
   bytes |-> pkt.bytes + f.size,
   got   |-> pkt.got \cup {f.sno}]

\* Mutant of Complete: one fragment may be missing.
CompleteButOne(f) == Entered(f).left <= 1

\* check(), after insert(f)
Complete(f) == Entered(f).left = 0

----------------------------------------------------------------------------
(* UmRxQueue.                                                              *)

\* Mutant of Started: every fragment starts the timer again.
StartedAgain(f) ==
  IF TimerAddThrows(timer, f.sdu)
  THEN TimerAdd(TimerRemove(timer, f.sdu), Timeout, f.sdu)
  ELSE TimerAdd(timer, Timeout, f.sdu)

\* The timer when the fragment has been inserted.
Started(f) == IF First(f) THEN TimerAdd(timer, Timeout, f.sdu) ELSE timer

DefragmentThrows(f) ==
  \/ InsertThrows(f)
  \/ registered /\ First(f) /\ TimerAddThrows(timer, f.sdu)
  \/ registered /\ Complete(f) /\ TimerRemoveThrows(Started(f), f.sdu)

Take(f) ==
  /\ ~failed
  /\ f \in net
  /\ net' = net \ {f}
  /\ taken' = [taken EXCEPT ![f.sdu] = @ \cup {f.sno}]
  /\ failed' = DefragmentThrows(f)
  /\ UNCHANGED <<unsent, registered>>

\* getRlcByMacNodeId finds no UE: the fragment is in the buffer, and that is all.
DefragmentUnknown(f) ==
  /\ Take(f)
  /\ ~registered
  /\ frags' = [frags EXCEPT ![f.sdu] = Entered(f)]
  /\ UNCHANGED <<timer, history>>

DefragmentMissing(f) ==
  /\ Take(f)
  /\ registered
  /\ ~Complete(f)
  /\ frags' = [frags EXCEPT ![f.sdu] = Entered(f)]
  /\ timer' = Started(f)
  /\ UNCHANGED history

\* The packet gets its size back before it is decapsulated and sent up.
DefragmentComplete(f) ==
  /\ Take(f)
  /\ registered
  /\ Complete(f)
  /\ frags' = [frags EXCEPT ![f.sdu] = NoEntry]
  /\ timer' = IF DefragmentThrows(f) THEN timer ELSE TimerRemove(Started(f), f.sdu)
  /\ delivered' = [delivered EXCEPT ![f.sdu] = Append(@, Entered(f).bytes)]
  /\ UNCHANGED lost

Defragment(f) == DefragmentUnknown(f) \/ DefragmentMissing(f) \/ DefragmentComplete(f)

\* Mutant of Discarded: what has been gathered of the packet stays.
DiscardedNot(s) == frags

Discarded(s) == [frags EXCEPT ![s] = NoEntry]

\* getLteInfo() has no entry, or handle() no event.
TimerMessageThrows(m) ==
  \/ ~Buffered(m.event)
  \/ registered /\ TimerHandleThrows(timer)

\* handleMessage: when the binder no longer knows the UE, the message is deleted
\* and nothing else is done.
TimerMessage(m) ==
  /\ ~failed
  /\ m \in Due(timer)
  /\ failed' = TimerMessageThrows(m)
  /\ \/ /\ ~registered
        /\ timer' = Fired(timer, m)
        /\ UNCHANGED <<frags, lost>>
     \/ /\ registered
        /\ frags' = Discarded(m.event)
        /\ timer' = TimerHandle(Fired(timer, m))
        /\ lost' = [lost EXCEPT ![m.event] = @ + 1]
  /\ UNCHANGED <<unsent, net, registered, taken, delivered>>

----------------------------------------------------------------------------

\* LteBinder::unregisterNode, when the mobility of a vehicle ends
UnregisterNode ==
  /\ registered /\ ~failed
  /\ registered' = FALSE
  /\ UNCHANGED <<unsent, net, rxVars, failed, taken, history>>

\* The kernel executes what is due before time goes on.
Tick ==
  /\ ~failed
  /\ Due(timer) = {}
  /\ timer' = Aged(timer)
  /\ UNCHANGED <<unsent, net, frags, registered, failed, taken, history>>

Init ==
  /\ unsent = Sdu
  /\ net = {}
  /\ frags = [s \in Sdu |-> NoEntry]
  /\ timer = IdleTimer
  /\ registered = TRUE
  /\ failed = FALSE
  /\ taken = [s \in Sdu |-> {}]
  /\ delivered = [s \in Sdu |-> <<>>]
  /\ lost = [s \in Sdu |-> 0]

Next ==
  \/ \E s \in Sdu : Fragment(s)
  \/ \E f \in net : Lose(f) \/ Defragment(f)
  \/ \E m \in Due(timer) : TimerMessage(m)
  \/ UnregisterNode
  \/ Tick

\* The kernel delivers what is due, and time goes on.
Fairness == WF_vars(Tick) /\ WF_vars(\E m \in Due(timer) : TimerMessage(m))

Spec == Init /\ [][Next]_vars

FairSpec == Spec /\ Fairness

----------------------------------------------------------------------------
(* Properties.                                                             *)

TypeOK ==
  /\ unsent \subseteq Sdu
  /\ net \subseteq UNION {FragmentsOf(s) : s \in Sdu}
  /\ frags \in [Sdu -> [left : Nat, bytes : Nat, got : SUBSET Nat]]
  /\ timer \in [list : Seq(Entry(Sdu)), armed : SUBSET Entry(Sdu), busy : BOOLEAN]
  /\ taken \in [Sdu -> SUBSET Nat]
  /\ delivered \in [Sdu -> Seq(Nat)]
  /\ lost \in [Sdu -> Nat]
  /\ registered \in BOOLEAN /\ failed \in BOOLEAN

\* No fragment, timeout or removal of the UE, in any order, makes UmFragbuf,
\* TMultiTimer or std::map::at() throw.
NoRuntimeError == ~failed

\* A packet is passed up at most once, from all of its fragments, and never when
\* it was or will be counted as lost.
WholeOnly ==
  \A s \in Sdu : /\ Len(delivered[s]) <= 1
                 /\ delivered[s] # <<>> => taken[s] = Numbers(s) /\ lost[s] = 0

\* The packet that is decapsulated has the size of the SDU: fragments of the same
\* SDU add up to it, whatever their order (decapsulate() throws otherwise).
SizeRestored ==
  \A s \in Sdu : \A i \in DOMAIN delivered[s] : delivered[s][i] = SduSize[s]

\* The fragment buffer and the multi-timer agree while the UE is known: a packet
\* is in the buffer exactly as long as a timeout for it is running.
TimerPerPacket ==
  registered => \A s \in Sdu : Buffered(s) <=> s \in Pending(timer)

\* A packet does not stay in the buffer, unless its UE leaves.
EveryWindowCloses ==
  \A s \in Sdu : Buffered(s) /\ registered ~> ~Buffered(s) \/ ~registered

\* One buffer and one timer are as good as a reassembly window for every SDU.
collectedBar == [s \in Sdu |-> IF registered THEN frags[s].got ELSE {}]

windowBar == [s \in Sdu |-> IF registered /\ Buffered(s) THEN TimeLeft(timer)[s] ELSE 0]

deliveredBar == {s \in Sdu : delivered[s] # <<>>}

Reassembly == INSTANCE LteReassembly WITH
  Total     <- [s \in Sdu |-> TotalFragments(SduSize[s])],
  collected <- collectedBar,
  window    <- windowBar,
  delivered <- deliveredBar,
  present   <- registered

ImplementsReassembly == Reassembly!Spec

----------------------------------------------------------------------------
(* The inductive invariant.                                                *)

\* Every fragment is on its way at most once.
NetOK ==
  /\ \A f \in net : f.sdu \notin unsent /\ f.sno \notin taken[f.sdu]
  /\ \A s \in unsent : taken[s] = {}

\* What the fragments of s with numbers got add up to: all but the last of an
\* SDU are of the same size.
BytesOf(s, got) ==
  IF TotalFragments(SduSize[s]) - 1 \in got
  THEN FragmentSize * (Cardinality(got) - 1) + LastSize(SduSize[s])
  ELSE FragmentSize * Cardinality(got)

\* What a packet waits for and has is counted right; after a loss it waits for
\* ever.
BufferOK ==
  \A s \in Sdu :
    /\ taken[s] \subseteq Numbers(s)
    /\ frags[s].got \subseteq taken[s]
    /\ IF Buffered(s)
       THEN /\ frags[s].left = TotalFragments(SduSize[s]) - Cardinality(frags[s].got)
            /\ frags[s].bytes = BytesOf(s, frags[s].got)
       ELSE frags[s] = NoEntry
    /\ delivered[s] # <<>> => ~Buffered(s)
    /\ lost[s] > 0 => \E n \in taken[s] : n \notin frags[s].got

\* A UE that leaves may leave a timeout behind, which still finds its packet.
TimerOK ==
  IF registered THEN WellFormed(Sdu, timer)
                ELSE \A m \in timer.armed : Buffered(m.event)

Inv ==
  /\ TypeOK /\ NoRuntimeError /\ WholeOnly /\ SizeRestored
  /\ TimerPerPacket /\ NetOK /\ BufferOK /\ TimerOK
=============================================================================
