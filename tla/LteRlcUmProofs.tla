--------------------------- MODULE LteRlcUmProofs ---------------------------
(* RLC UM never fails, passes up whole packets only, and implements one    *)
(* reassembly window for every SDU, for any SDUs, sizes and timeout.       *)
EXTENDS LteRlcUm, TMultiTimerLemmas, FiniteSetTheorems

LEMMA FragmentFacts ==
  ASSUME NEW s \in Sdu
  PROVE  /\ TotalFragments(SduSize[s]) \in Nat
         /\ \A f \in FragmentsOf(s) :
              /\ f.sdu = s /\ f.sno \in Numbers(s) /\ f.sno \in Nat
              /\ f.total = TotalFragments(SduSize[s])
              /\ f.size \in Nat
              /\ f.size = IF f.sno < TotalFragments(SduSize[s]) - 1
                          THEN FragmentSize ELSE LastSize(SduSize[s])
         /\ \A f, g \in FragmentsOf(s) : f.sno = g.sno => f = g
         /\ IsFiniteSet(Numbers(s)) /\ Numbers(s) \subseteq Nat
         /\ Cardinality(Numbers(s)) = TotalFragments(SduSize[s])
<1>1. SduSize[s] \in Nat /\ FragmentSize \in Nat /\ FragmentSize > 0
  BY SizeAssumption
<1>2. /\ SduSize[s] \div FragmentSize \in Nat
      /\ SduSize[s] % FragmentSize \in Nat
  BY <1>1
<1>3. TotalFragments(SduSize[s]) \in Nat /\ LastSize(SduSize[s]) \in Nat
  BY <1>1, <1>2 DEF TotalFragments, LastSize
<1>4. /\ IsFiniteSet(Numbers(s)) /\ Numbers(s) \subseteq Nat
      /\ Cardinality(Numbers(s)) = TotalFragments(SduSize[s])
  <2> DEFINE n == TotalFragments(SduSize[s])
  <2>1. n \in Nat
    BY <1>3
  <2> HIDE DEF n
  <2>2. /\ IsFiniteSet(0 .. n - 1)
        /\ Cardinality(0 .. n - 1) = IF 0 > n - 1 THEN 0 ELSE (n - 1) - 0 + 1
    BY <2>1, FS_Interval
  <2>3. Cardinality(0 .. n - 1) = n
    BY <2>1, <2>2
  <2> QED BY <2>1, <2>2, <2>3 DEF n, Numbers
<1>5. \A f \in FragmentsOf(s) :
        /\ f.sdu = s /\ f.sno \in Numbers(s)
        /\ f.total = TotalFragments(SduSize[s])
        /\ f.size \in Nat
        /\ f.size = IF f.sno < TotalFragments(SduSize[s]) - 1
                    THEN FragmentSize ELSE LastSize(SduSize[s])
  BY <1>1, <1>3 DEF FragmentsOf
<1>6. \A f, g \in FragmentsOf(s) : f.sno = g.sno => f = g
  BY DEF FragmentsOf
<1> QED BY <1>3, <1>4, <1>5, <1>6

LEMMA Division ==
  ASSUME NEW a \in Nat, NEW b \in Nat, b > 0
  PROVE  a \div b \in Nat /\ a % b \in Nat /\ a = b * (a \div b) + (a % b)
OBVIOUS

\* The sizes of the fragments of an SDU add up to its size.
LEMMA WholeBytes ==
  ASSUME NEW s \in Sdu
  PROVE  BytesOf(s, Numbers(s)) = SduSize[s]
<1> DEFINE size == SduSize[s]
           F == FragmentSize
           q == size \div F
           m == size % F
           n == TotalFragments(size)
<1>1. size \in Nat /\ size > 0 /\ F \in Nat /\ F > 0
  BY SizeAssumption
<1>2. q \in Nat /\ m \in Nat /\ size = F * q + m
  BY <1>1, Division
<1>3. n = IF m # 0 THEN q + 1 ELSE q
  BY <1>2 DEF TotalFragments
<1>4. LastSize(size) = IF m # 0 THEN m ELSE F
  BY DEF LastSize
<1> HIDE DEF q, m, F, size, n
<1>5. m = 0 => q > 0
  <2>1. F * 0 = 0
    BY <1>1
  <2> QED BY <1>1, <1>2, <2>1
<1>6. n \in Nat /\ n > 0
  BY <1>2, <1>3, <1>5
<1>7. F * (n - 1) + LastSize(size) = size
  <2>1. CASE m # 0
    BY <1>1, <1>2, <1>3, <1>4, <2>1
  <2>2. CASE m = 0
    <3>1. F * q = F * (q - 1) + F
      BY <1>1, <1>2
    <3> QED BY <1>1, <1>2, <1>3, <1>4, <2>2, <3>1
  <2> QED BY <2>1, <2>2
<1>8. Cardinality(Numbers(s)) = n
  BY FragmentFacts DEF n, size
<1>9. n - 1 \in Numbers(s)
  BY <1>6 DEF Numbers, n, size
<1> QED BY <1>7, <1>8, <1>9 DEF BytesOf, F, n, size

\* One more fragment adds its size.
LEMMA MoreBytes ==
  ASSUME NEW s \in Sdu, NEW got \in SUBSET Numbers(s),
         NEW sno \in Numbers(s), sno \notin got
  PROVE  BytesOf(s, got \cup {sno}) =
           BytesOf(s, got) + IF sno < TotalFragments(SduSize[s]) - 1
                             THEN FragmentSize ELSE LastSize(SduSize[s])
<1> DEFINE F == FragmentSize
           n == TotalFragments(SduSize[s])
           last == LastSize(SduSize[s])
           k == Cardinality(got)
           more == got \cup {sno}
<1>1. SduSize[s] \in Nat /\ F \in Nat /\ F > 0 /\ n \in Nat
  BY SizeAssumption, FragmentFacts
<1>2. last \in Nat
  BY <1>1 DEF LastSize
<1>3. k \in Nat /\ Cardinality(more) = k + 1
  BY FragmentFacts, FS_Subset, FS_AddElement, FS_CardinalityType
<1>4. BytesOf(s, got) = IF n - 1 \in got THEN F * (k - 1) + last ELSE F * k
  BY DEF BytesOf
<1>5. BytesOf(s, more) =
        IF n - 1 \in more THEN F * ((k + 1) - 1) + last ELSE F * (k + 1)
  BY <1>3 DEF BytesOf
<1>6. sno \in Nat /\ sno <= n - 1
  BY <1>1 DEF Numbers
<1> HIDE DEF F, n, last, k
<1>7. F * (k + 1) = F * k + F /\ F * ((k + 1) - 1) = F * (k - 1) + F
      /\ F * ((k + 1) - 1) = F * k
  BY <1>1, <1>3
<1>8. F * k \in Int /\ F * (k - 1) \in Int
  BY <1>1, <1>3
<1>9. CASE sno = n - 1
  BY <1>1, <1>2, <1>4, <1>5, <1>6, <1>7, <1>8, <1>9 DEF F, n, last
<1>10. CASE sno # n - 1
  <2>1. sno < n - 1 /\ (n - 1 \in more <=> n - 1 \in got)
    BY <1>1, <1>6, <1>10
  <2> HIDE DEF more
  <2> QED BY <1>1, <1>2, <1>4, <1>5, <1>7, <1>8, <2>1 DEF F, n, last, more
<1> QED BY <1>9, <1>10

LEMMA NoBytes ==
  ASSUME NEW s \in Sdu
  PROVE  BytesOf(s, {}) = 0
<1>1. Cardinality({}) = 0 /\ FragmentSize \in Nat
  BY FS_EmptySet, SizeAssumption
<1> QED BY <1>1 DEF BytesOf

LEMMA NetFacts ==
  ASSUME TypeOK, NEW f \in net
  PROVE  f.sdu \in Sdu /\ f \in FragmentsOf(f.sdu)
<1>1. PICK s \in Sdu : f \in FragmentsOf(s)
  BY DEF TypeOK
<1> QED BY <1>1, FragmentFacts

\* insert() counts what it puts into the bitmap, and never finds it there.
LEMMA EnteredFacts ==
  ASSUME Inv, NEW f \in net
  PROVE  LET e == Entered(f)
             s == f.sdu IN
         /\ s \in Sdu /\ f.sno \in Numbers(s) /\ f.sno \notin taken[s]
         /\ e.got = frags[s].got \cup {f.sno} /\ ~ InsertThrows(f)
         /\ e.got \subseteq taken[s] \cup {f.sno}
         /\ e \in [left : Nat, bytes : Nat, got : SUBSET Nat]
         /\ e.left = TotalFragments(SduSize[s]) - Cardinality(e.got)
         /\ e.bytes = BytesOf(s, e.got)
         /\ Complete(f) <=> e.got = Numbers(s)
<1> DEFINE s == f.sdu
           e == Entered(f)
           n == TotalFragments(SduSize[s])
           got == frags[s].got
<1>1. s \in Sdu /\ f \in FragmentsOf(s)
  BY NetFacts DEF Inv
<1>2. /\ n \in Nat /\ f.sno \in Numbers(s) /\ f.sno \in Nat
      /\ f.total = n /\ f.size \in Nat
      /\ IsFiniteSet(Numbers(s)) /\ Numbers(s) \subseteq Nat /\ Cardinality(Numbers(s)) = n
  BY <1>1, FragmentFacts
<1>3. f.sno \notin taken[s]
  BY DEF Inv, NetOK
<1>4. /\ got \subseteq taken[s] /\ taken[s] \subseteq Numbers(s)
      /\ IF got # {}
         THEN frags[s].left = n - Cardinality(got) /\ frags[s].bytes = BytesOf(s, got)
         ELSE frags[s] = NoEntry
  BY <1>1 DEF Inv, BufferOK, Buffered
<1>5. frags[s] \in [left : Nat, bytes : Nat, got : SUBSET Nat]
  BY <1>1 DEF Inv, TypeOK
<1>6. f.sno \notin got
  BY <1>3, <1>4
<1>7. IsFiniteSet(got)
  BY <1>2, <1>4, FS_Subset
<1>8. Cardinality(got \cup {f.sno}) = Cardinality(got) + 1 /\ Cardinality(got) \in Nat
  BY <1>6, <1>7, FS_AddElement, FS_CardinalityType
<1>9. /\ IsFiniteSet(got \cup {f.sno}) /\ got \cup {f.sno} \subseteq Numbers(s)
      /\ Cardinality(got \cup {f.sno}) <= n
      /\ Cardinality(got \cup {f.sno}) = n <=> got \cup {f.sno} = Numbers(s)
  <2>1. got \cup {f.sno} \subseteq Numbers(s)
    BY <1>2, <1>4
  <2> QED BY <1>2, <2>1, FS_Subset
<1>10. /\ e.got = got \cup {f.sno}
       /\ e.bytes = frags[s].bytes + f.size
       /\ e.left = (IF got = {} THEN f.total ELSE frags[s].left) - 1
       /\ e = [left |-> e.left, bytes |-> e.bytes, got |-> e.got]
  BY DEF Entered, First, Buffered
<1>11. e.left = n - Cardinality(e.got)
  <2>1. CASE got = {}
    <3>1. Cardinality(got) = 0
      BY <2>1, FS_EmptySet
    <3> QED BY <1>2, <1>8, <1>10, <2>1, <3>1
  <2>2. CASE got # {}
    BY <1>2, <1>4, <1>8, <1>10, <2>2
  <2> QED BY <2>1, <2>2
<1>b. e.bytes = BytesOf(s, e.got)
  <2>1. frags[s].bytes = BytesOf(s, got)
    BY <1>1, <1>4, NoBytes DEF NoEntry
  <2>2. f.size = IF f.sno < n - 1 THEN FragmentSize ELSE LastSize(SduSize[s])
    BY <1>1, FragmentFacts
  <2>3. BytesOf(s, got \cup {f.sno}) = BytesOf(s, got) +
          IF f.sno < n - 1 THEN FragmentSize ELSE LastSize(SduSize[s])
    BY <1>1, <1>2, <1>4, <1>6, MoreBytes
  <2> HIDE DEF e, n, got
  <2> QED BY <1>10, <2>1, <2>2, <2>3
<1> HIDE DEF e, n
<1>12. e.left \in Nat /\ (e.left = 0 <=> e.got = Numbers(s))
  <2>1. Cardinality(e.got) \in Nat /\ Cardinality(e.got) <= n
    BY <1>8, <1>9, <1>10
  <2>2. Cardinality(e.got) = n <=> e.got = Numbers(s)
    BY <1>9, <1>10
  <2> QED BY <1>2, <1>11, <2>1, <2>2
<1>13. e.bytes \in Nat /\ e.got \in SUBSET Nat
  BY <1>2, <1>5, <1>9, <1>10
<1>14. e \in [left : Nat, bytes : Nat, got : SUBSET Nat]
  BY <1>10, <1>12, <1>13
<1>15. ~ InsertThrows(f)
  BY <1>6 DEF InsertThrows
<1>16. Complete(f) <=> e.got = Numbers(s)
  BY <1>12 DEF Complete, e
<1> QED BY <1>1, <1>2, <1>3, <1>4, <1>10, <1>11, <1>b, <1>14, <1>15, <1>16 DEF e, n

\* The timer of a packet starts with its first fragment and runs on.
LEMMA StartedFacts ==
  ASSUME Inv, registered, NEW f \in net
  PROVE  LET u == Started(f) IN
         /\ WellFormed(Sdu, u)
         /\ ~ DefragmentThrows(f)
         /\ Pending(u) = Pending(timer) \cup {f.sdu}
         /\ \A a \in Pending(u) :
              TimeLeft(u)[a] = IF First(f) /\ a = f.sdu THEN Timeout ELSE TimeLeft(timer)[a]
         /\ First(f) => f.sdu \notin Pending(timer)
<1> DEFINE s == f.sdu
<1>1. s \in Sdu /\ ~ InsertThrows(f)
  BY EnteredFacts
<1>2. WellFormed(Sdu, timer) /\ (Buffered(s) <=> s \in Pending(timer))
  BY <1>1 DEF Inv, TimerOK, TimerPerPacket
<1>3. Timeout \in Nat
  BY SizeAssumption
<1>4. CASE First(f)
  <2>1. ~ TimerAddThrows(timer, s) /\ s \notin Pending(timer)
    BY <1>2, <1>4 DEF First, TimerAddThrows
  <2>2. Started(f) = TimerAdd(timer, Timeout, s)
    BY <1>4 DEF Started
  <2> DEFINE u == TimerAdd(timer, Timeout, s)
  <2>3. /\ WellFormed(Sdu, u)
        /\ Pending(u) = Pending(timer) \cup {s}
        /\ \A a \in Pending(u) : TimeLeft(u)[a] = IF a = s THEN Timeout ELSE TimeLeft(timer)[a]
    BY <1>1, <1>2, <1>3, <2>1, AddTimes
  <2> HIDE DEF u
  <2>4. ~ TimerRemoveThrows(u, s)
    BY <2>3 DEF TimerRemoveThrows
  <2>5. ~ DefragmentThrows(f)
    BY <1>1, <2>1, <2>2, <2>4 DEF DefragmentThrows, u
  <2> QED BY <1>4, <2>1, <2>2, <2>3, <2>5 DEF u
<1>5. CASE ~ First(f)
  <2>1. Started(f) = timer /\ s \in Pending(timer)
    BY <1>2, <1>5 DEF Started, First
  <2>2. ~ DefragmentThrows(f)
    BY <1>1, <1>5, <2>1 DEF DefragmentThrows, TimerRemoveThrows
  <2> QED BY <1>2, <1>5, <2>1, <2>2
<1> QED BY <1>4, <1>5

----------------------------------------------------------------------------
(* Every step keeps the invariant.                                         *)

LEMMA InvInit == Init => Inv
<1> SUFFICES ASSUME Init PROVE Inv
  OBVIOUS
<1>1. /\ timer = [list |-> <<>>, armed |-> {}, busy |-> FALSE]
      /\ Pending(timer) = {}
  BY DEF Init, IdleTimer, Pending
<1>2. <<>> \in Seq(Entry(Sdu)) /\ <<>> \in Seq(Nat) /\ Len(<<>>) = 0 /\ DOMAIN <<>> = {}
  BY EmptySeq, LenProperties
<1>3. WellFormed(Sdu, timer)
  <2>1. InOrder(<<>>)
    BY <1>2 DEF InOrder
  <2> QED BY <1>1, <1>2, <2>1 DEF WellFormed, MessageFor
<1>4. TypeOK
  <2>1. timer \in [list : Seq(Entry(Sdu)), armed : SUBSET Entry(Sdu), busy : BOOLEAN]
    BY <1>3, WellFormedTimer
  <2>2. /\ frags \in [Sdu -> [left : Nat, bytes : Nat, got : SUBSET Nat]]
        /\ taken \in [Sdu -> SUBSET Nat] /\ lost \in [Sdu -> Nat]
    BY DEF Init, NoEntry
  <2>3. delivered \in [Sdu -> Seq(Nat)]
    BY <1>2 DEF Init
  <2> QED BY <2>1, <2>2, <2>3 DEF Init, TypeOK
<1>5. NoRuntimeError /\ WholeOnly /\ NetOK
  BY <1>2 DEF Init, NoRuntimeError, WholeOnly, NetOK
<1>c. SizeRestored
  BY <1>2 DEF Init, SizeRestored
<1>6. BufferOK
  BY DEF Init, BufferOK, Buffered, NoEntry
<1>7. TimerPerPacket /\ TimerOK
  BY <1>1, <1>3 DEF Init, TimerPerPacket, TimerOK, Buffered, NoEntry
<1> QED BY <1>4, <1>5, <1>6, <1>7, <1>c DEF Inv

\* Steps of the sender and of the MAC layer do not touch the receiver.
LEMMA ReceiverUnchanged ==
  ASSUME Inv, UNCHANGED <<rxVars, registered, failed, taken, history>>
  PROVE  /\ NoRuntimeError' /\ WholeOnly' /\ SizeRestored' /\ TimerPerPacket'
         /\ BufferOK' /\ TimerOK'
         /\ net' \subseteq UNION {FragmentsOf(s) : s \in Sdu} /\ unsent' \subseteq Sdu => TypeOK'
<1>1. UNCHANGED <<frags, timer, registered, failed, taken, delivered, lost>>
  BY DEF rxVars, history
<1>2. NoRuntimeError' /\ WholeOnly' /\ SizeRestored'
  BY <1>1 DEF Inv, NoRuntimeError, WholeOnly, SizeRestored
<1>3. TimerPerPacket' /\ TimerOK'
  BY <1>1 DEF Inv, TimerPerPacket, TimerOK, Buffered
<1>4. BufferOK'
  BY <1>1 DEF Inv, BufferOK, Buffered
<1> QED BY <1>1, <1>2, <1>3, <1>4 DEF Inv, TypeOK

LEMMA FragmentStep ==
  ASSUME Inv, NEW s \in Sdu, Fragment(s)
  PROVE  Inv'
<1>1. /\ s \in unsent /\ unsent' = unsent \ {s} /\ net' = net \cup FragmentsOf(s)
      /\ UNCHANGED <<rxVars, registered, failed, taken, history>> /\ taken' = taken
  BY DEF Fragment
<1>2. \A f \in FragmentsOf(s) : f.sdu = s
  BY FragmentFacts
<1>3. NetOK'
  BY <1>1, <1>2 DEF Inv, NetOK
<1>4. net' \subseteq UNION {FragmentsOf(x) : x \in Sdu} /\ unsent' \subseteq Sdu
  BY <1>1 DEF Inv, TypeOK
<1> QED BY <1>1, <1>3, <1>4, ReceiverUnchanged DEF Inv

LEMMA LoseStep ==
  ASSUME Inv, NEW f \in net, Lose(f)
  PROVE  Inv'
<1>1. /\ unsent' = unsent /\ net' = net \ {f} /\ taken' = taken
      /\ UNCHANGED <<rxVars, registered, failed, taken, history>>
  BY DEF Lose
<1>2. NetOK'
  BY <1>1 DEF Inv, NetOK
<1>3. net' \subseteq UNION {FragmentsOf(x) : x \in Sdu} /\ unsent' \subseteq Sdu
  BY <1>1 DEF Inv, TypeOK
<1> QED BY <1>1, <1>2, <1>3, ReceiverUnchanged DEF Inv

\* What every case of defragment() does.
LEMMA TakeFacts ==
  ASSUME Inv, NEW f \in net, Take(f)
  PROVE  /\ NetOK'
         /\ net' \subseteq UNION {FragmentsOf(s) : s \in Sdu}
         /\ unsent' = unsent /\ registered' = registered
         /\ failed' = DefragmentThrows(f)
         /\ taken' \in [Sdu -> SUBSET Nat]
         /\ taken'[f.sdu] = taken[f.sdu] \cup {f.sno}
         /\ taken'[f.sdu] \subseteq Numbers(f.sdu)
         /\ \A s \in Sdu : s # f.sdu => taken'[s] = taken[s]
<1>1. f.sdu \in Sdu /\ f.sno \in Numbers(f.sdu) /\ f.sno \in Nat
  BY EnteredFacts, FragmentFacts
<1>2. taken \in [Sdu -> SUBSET Nat] /\ net \subseteq UNION {FragmentsOf(s) : s \in Sdu}
  BY DEF Inv, TypeOK
<1>3. /\ net' = net \ {f} /\ unsent' = unsent /\ registered' = registered
      /\ failed' = DefragmentThrows(f)
      /\ taken' = [taken EXCEPT ![f.sdu] = @ \cup {f.sno}]
  BY DEF Take
<1>4. /\ taken' \in [Sdu -> SUBSET Nat]
      /\ taken'[f.sdu] = taken[f.sdu] \cup {f.sno}
      /\ \A s \in Sdu : s # f.sdu => taken'[s] = taken[s]
  BY <1>1, <1>2, <1>3
<1>5. taken'[f.sdu] \subseteq Numbers(f.sdu)
  BY <1>1, <1>4 DEF Inv, BufferOK
<1>6. ASSUME NEW g \in net'
      PROVE  g.sdu \notin unsent' /\ g.sno \notin taken'[g.sdu]
  <2>1. g \in net /\ g # f /\ g.sdu \in Sdu /\ g \in FragmentsOf(g.sdu)
    BY <1>3, NetFacts DEF Inv
  <2>2. f \in FragmentsOf(f.sdu)
    BY NetFacts DEF Inv
  <2>3. g.sdu = f.sdu => g.sno # f.sno
    BY <2>1, <2>2, FragmentFacts
  <2> QED BY <1>3, <1>4, <2>1, <2>3 DEF Inv, NetOK
<1>7. \A s \in unsent' : taken'[s] = {}
  BY <1>3, <1>4 DEF Inv, NetOK, TypeOK
<1> QED BY <1>2, <1>3, <1>4, <1>5, <1>6, <1>7 DEF NetOK

LEMMA TakeTyped ==
  ASSUME Inv, NEW f \in net, Take(f), ~ failed',
         frags' \in [Sdu -> [left : Nat, bytes : Nat, got : SUBSET Nat]],
         timer' \in [list : Seq(Entry(Sdu)), armed : SUBSET Entry(Sdu), busy : BOOLEAN],
         delivered' \in [Sdu -> Seq(Nat)], lost' \in [Sdu -> Nat]
  PROVE  TypeOK' /\ NetOK'
<1>1. /\ net' \subseteq UNION {FragmentsOf(s) : s \in Sdu}
      /\ unsent' = unsent /\ registered' = registered
      /\ taken' \in [Sdu -> SUBSET Nat]
      /\ NetOK'
  BY TakeFacts
<1>2. unsent \subseteq Sdu /\ registered \in BOOLEAN
  BY DEF Inv, TypeOK
<1>3. failed' \in BOOLEAN
  BY TakeFacts DEF Take, DefragmentThrows
<1> QED BY <1>1, <1>2, <1>3 DEF TypeOK

\* A fragment that does not complete its packet, with or without a UE.
LEMMA GatherFacts ==
  ASSUME Inv, NEW f \in net, Take(f),
         frags' = [frags EXCEPT ![f.sdu] = Entered(f)], UNCHANGED history,
         registered => ~ Complete(f)
  PROVE  /\ frags' \in [Sdu -> [left : Nat, bytes : Nat, got : SUBSET Nat]]
         /\ WholeOnly' /\ SizeRestored' /\ BufferOK'
         /\ \A s \in Sdu : Buffered(s)' <=> Buffered(s) \/ s = f.sdu
<1> DEFINE s == f.sdu
           e == Entered(f)
<1>1. /\ s \in Sdu /\ f.sno \in Numbers(s) /\ f.sno \notin taken[s]
      /\ e.got = frags[s].got \cup {f.sno} /\ e.got \subseteq taken[s] \cup {f.sno}
      /\ e \in [left : Nat, bytes : Nat, got : SUBSET Nat]
      /\ e.left = TotalFragments(SduSize[s]) - Cardinality(e.got)
      /\ e.bytes = BytesOf(s, e.got)
  BY EnteredFacts
<1>2. /\ frags \in [Sdu -> [left : Nat, bytes : Nat, got : SUBSET Nat]]
      /\ lost \in [Sdu -> Nat]
  BY DEF Inv, TypeOK
<1>3. delivered' = delivered /\ lost' = lost
  BY DEF history
<1> HIDE DEF e
<1>4. frags' = [frags EXCEPT ![s] = e]
  BY DEF e
<1>5. /\ frags' \in [Sdu -> [left : Nat, bytes : Nat, got : SUBSET Nat]]
      /\ frags'[s] = e
      /\ \A x \in Sdu : x # s => frags'[x] = frags[x]
  BY <1>1, <1>2, <1>4
<1>6. /\ taken'[s] = taken[s] \cup {f.sno} /\ taken'[s] \subseteq Numbers(s)
      /\ \A x \in Sdu : x # s => taken'[x] = taken[x]
  BY TakeFacts
<1>7. \A x \in Sdu : x # s => (Buffered(x)' <=> Buffered(x))
  BY <1>5 DEF Buffered
<1>8. Buffered(s)' /\ delivered[s] = <<>>
  <2>1. Buffered(s)'
    BY <1>1, <1>5 DEF Buffered
  <2>2. taken[s] # Numbers(s)
    BY <1>1
  <2> QED BY <1>1, <2>1, <2>2 DEF Inv, WholeOnly
<1>9. WholeOnly' /\ SizeRestored'
  BY <1>1, <1>3, <1>6, <1>8 DEF Inv, WholeOnly, SizeRestored
<1>10. BufferOK'
  <2> SUFFICES ASSUME NEW x \in Sdu
               PROVE  /\ taken'[x] \subseteq Numbers(x)
                      /\ frags'[x].got \subseteq taken'[x]
                      /\ IF Buffered(x)'
                         THEN /\ frags'[x].left = TotalFragments(SduSize[x]) - Cardinality(frags'[x].got)
                              /\ frags'[x].bytes = BytesOf(x, frags'[x].got)
                         ELSE frags'[x] = NoEntry
                      /\ delivered'[x] # <<>> => ~ Buffered(x)'
                      /\ lost'[x] > 0 => \E n \in taken'[x] : n \notin frags'[x].got
    BY DEF BufferOK, Buffered
  <2>1. CASE x # s
    BY <1>3, <1>5, <1>6, <1>7, <2>1 DEF Inv, BufferOK
  <2>2. CASE x = s
    <3>1. lost[s] > 0 => \E n \in taken[s] : n \notin frags[s].got
      BY <1>1 DEF Inv, BufferOK
    <3>2. lost[s] > 0 => \E n \in taken'[s] : n \notin e.got
      BY <1>1, <1>6, <3>1
    <3> QED BY <1>1, <1>3, <1>5, <1>6, <1>8, <2>2, <3>2
  <2> QED BY <2>1, <2>2
<1> QED BY <1>5, <1>7, <1>8, <1>9, <1>10

LEMMA UnknownStep ==
  ASSUME Inv, NEW f \in net, DefragmentUnknown(f)
  PROVE  Inv'
<1>1. /\ Take(f) /\ ~registered /\ ~registered'
      /\ frags' = [frags EXCEPT ![f.sdu] = Entered(f)]
      /\ timer' = timer /\ UNCHANGED history /\ delivered' = delivered /\ lost' = lost
  BY DEF DefragmentUnknown, history, Take
<1>2. /\ frags' \in [Sdu -> [left : Nat, bytes : Nat, got : SUBSET Nat]]
      /\ WholeOnly' /\ SizeRestored' /\ BufferOK'
      /\ \A s \in Sdu : Buffered(s)' <=> Buffered(s) \/ s = f.sdu
  BY <1>1, GatherFacts
<1>3. ~ failed'
  BY <1>1, EnteredFacts, TakeFacts DEF DefragmentThrows
<1>4. TypeOK' /\ NetOK'
  BY <1>1, <1>2, <1>3, TakeTyped DEF Inv, TypeOK
<1>5. TimerPerPacket' /\ TimerOK'
  <2>1. \A m \in timer.armed : m.event \in Sdu /\ Buffered(m.event)
    BY <1>1 DEF Inv, TimerOK, TypeOK, Entry
  <2> QED BY <1>1, <1>2, <2>1 DEF TimerPerPacket, TimerOK
<1> QED BY <1>2, <1>3, <1>4, <1>5 DEF Inv, NoRuntimeError

LEMMA MissingStep ==
  ASSUME Inv, NEW f \in net, DefragmentMissing(f)
  PROVE  Inv'
<1>1. /\ Take(f) /\ registered /\ registered' /\ ~ Complete(f)
      /\ frags' = [frags EXCEPT ![f.sdu] = Entered(f)]
      /\ timer' = Started(f) /\ UNCHANGED history /\ delivered' = delivered /\ lost' = lost
  BY DEF DefragmentMissing, history, Take
<1>2. /\ frags' \in [Sdu -> [left : Nat, bytes : Nat, got : SUBSET Nat]]
      /\ WholeOnly' /\ SizeRestored' /\ BufferOK'
      /\ \A s \in Sdu : Buffered(s)' <=> Buffered(s) \/ s = f.sdu
  BY <1>1, GatherFacts
<1>3. /\ WellFormed(Sdu, timer') /\ ~ DefragmentThrows(f)
      /\ Pending(timer') = Pending(timer) \cup {f.sdu}
  BY <1>1, StartedFacts
<1>4. ~ failed'
  BY <1>1, <1>3, TakeFacts
<1>5. timer' \in [list : Seq(Entry(Sdu)), armed : SUBSET Entry(Sdu), busy : BOOLEAN]
  BY <1>3, WellFormedTimer
<1>6. TypeOK' /\ NetOK'
  <2>1. delivered' \in [Sdu -> Seq(Nat)] /\ lost' \in [Sdu -> Nat]
    BY <1>1 DEF Inv, TypeOK
  <2> QED BY <1>1, <1>2, <1>4, <1>5, <2>1, TakeTyped
<1>7. TimerPerPacket' /\ TimerOK'
  BY <1>1, <1>2, <1>3 DEF Inv, TimerPerPacket, TimerOK
<1> QED BY <1>2, <1>4, <1>6, <1>7 DEF Inv, NoRuntimeError

\* An entry that ends, for whatever reason, leaves nothing behind.
LEMMA EntryEnds ==
  ASSUME Inv, NEW s \in Sdu, frags' = [frags EXCEPT ![s] = NoEntry]
  PROVE  /\ frags' \in [Sdu -> [left : Nat, bytes : Nat, got : SUBSET Nat]]
         /\ frags'[s] = NoEntry /\ frags'[s].got = {} /\ ~ Buffered(s)'
         /\ \A x \in Sdu : x # s => frags'[x] = frags[x] /\ (Buffered(x)' <=> Buffered(x))
<1>1. /\ frags \in [Sdu -> [left : Nat, bytes : Nat, got : SUBSET Nat]]
      /\ NoEntry \in [left : Nat, bytes : Nat, got : SUBSET Nat] /\ NoEntry.got = {}
  BY DEF Inv, TypeOK, NoEntry
<1> QED BY <1>1 DEF Buffered

LEMMA CompleteStep ==
  ASSUME Inv, NEW f \in net, DefragmentComplete(f)
  PROVE  Inv'
<1> DEFINE s == f.sdu
           e == Entered(f)
<1>1. /\ Take(f) /\ registered /\ registered' /\ Complete(f)
      /\ frags' = [frags EXCEPT ![s] = NoEntry]
      /\ timer' = IF DefragmentThrows(f) THEN timer ELSE TimerRemove(Started(f), s)
      /\ delivered' = [delivered EXCEPT ![s] = Append(@, e.bytes)]
      /\ lost' = lost
  BY DEF DefragmentComplete, Take
<1>2. /\ s \in Sdu /\ f.sno \in Numbers(s) /\ f.sno \notin taken[s]
      /\ e.got = frags[s].got \cup {f.sno} /\ e.got \subseteq taken[s] \cup {f.sno}
      /\ e.bytes \in Nat /\ e.got = Numbers(s) /\ e.bytes = BytesOf(s, e.got)
  BY <1>1, EnteredFacts
<1> HIDE DEF e
<1>3. /\ WellFormed(Sdu, Started(f)) /\ ~ DefragmentThrows(f)
      /\ Pending(Started(f)) = Pending(timer) \cup {s}
  BY <1>1, StartedFacts
<1>4. ~ TimerRemoveThrows(Started(f), s)
  BY <1>3 DEF TimerRemoveThrows
<1>5. WellFormed(Sdu, timer') /\ Pending(timer') = (Pending(timer) \cup {s}) \ {s}
  BY <1>1, <1>3, <1>4, RemoveTimes
<1>6. /\ frags' \in [Sdu -> [left : Nat, bytes : Nat, got : SUBSET Nat]]
      /\ frags'[s] = NoEntry /\ frags'[s].got = {} /\ ~ Buffered(s)'
      /\ \A x \in Sdu : x # s => frags'[x] = frags[x] /\ (Buffered(x)' <=> Buffered(x))
  BY <1>1, <1>2, EntryEnds
<1>7. /\ taken'[s] = taken[s] \cup {f.sno} /\ taken'[s] \subseteq Numbers(s)
      /\ \A x \in Sdu : x # s => taken'[x] = taken[x]
  BY <1>1, TakeFacts
<1>8. delivered[s] = <<>> /\ ~ (lost[s] > 0) /\ taken'[s] = Numbers(s)
  <2>1. taken[s] # Numbers(s)
    BY <1>2
  <2>2. lost[s] > 0 => \E n \in taken[s] : n \notin frags[s].got
    BY <1>2 DEF Inv, BufferOK
  <2>3. taken[s] \subseteq Numbers(s)
    BY <1>2 DEF Inv, BufferOK
  <2> QED BY <1>2, <1>7, <2>1, <2>2, <2>3 DEF Inv, WholeOnly
<1>9. /\ delivered \in [Sdu -> Seq(Nat)] /\ lost \in [Sdu -> Nat]
  BY DEF Inv, TypeOK
<1>10. /\ delivered' \in [Sdu -> Seq(Nat)]
       /\ delivered'[s] = Append(<<>>, e.bytes)
       /\ \A x \in Sdu : x # s => delivered'[x] = delivered[x]
  <2>1. Append(<<>>, e.bytes) \in Seq(Nat)
    BY <1>2
  <2> QED BY <1>1, <1>2, <1>8, <1>9, <2>1
<1>11. Len(delivered'[s]) = 1
  BY <1>2, <1>10
<1>12. WholeOnly'
  <2> SUFFICES ASSUME NEW x \in Sdu
               PROVE  /\ Len(delivered'[x]) <= 1
                      /\ delivered'[x] # <<>> => taken'[x] = Numbers(x) /\ lost'[x] = 0
    BY DEF WholeOnly
  <2>1. CASE x = s
    BY <1>1, <1>2, <1>8, <1>9, <1>11, <2>1
  <2>2. CASE x # s
    BY <1>1, <1>7, <1>10, <2>2 DEF Inv, WholeOnly
  <2> QED BY <2>1, <2>2
<1>d. SizeRestored'
  <2> SUFFICES ASSUME NEW x \in Sdu, NEW i \in DOMAIN delivered'[x]
               PROVE  delivered'[x][i] = SduSize[x]
    BY DEF SizeRestored
  <2>1. CASE x # s
    BY <1>10, <2>1 DEF Inv, SizeRestored
  <2>2. CASE x = s
    <3>1. e.bytes = SduSize[s]
      BY <1>2, WholeBytes
    <3>2. i = 1 /\ delivered'[s][1] = e.bytes
      BY <1>2, <1>10, <2>2
    <3> QED BY <2>2, <3>1, <3>2
  <2> QED BY <2>1, <2>2
<1>13. BufferOK'
  <2> SUFFICES ASSUME NEW x \in Sdu
               PROVE  /\ taken'[x] \subseteq Numbers(x)
                      /\ frags'[x].got \subseteq taken'[x]
                      /\ IF Buffered(x)'
                         THEN /\ frags'[x].left = TotalFragments(SduSize[x]) - Cardinality(frags'[x].got)
                              /\ frags'[x].bytes = BytesOf(x, frags'[x].got)
                         ELSE frags'[x] = NoEntry
                      /\ delivered'[x] # <<>> => ~ Buffered(x)'
                      /\ lost'[x] > 0 => \E n \in taken'[x] : n \notin frags'[x].got
    BY DEF BufferOK, Buffered
  <2>1. CASE x # s
    BY <1>1, <1>6, <1>7, <1>10, <2>1 DEF Inv, BufferOK
  <2>2. CASE x = s
    BY <1>1, <1>6, <1>7, <1>8, <2>2
  <2> QED BY <2>1, <2>2
<1>14. ~ failed'
  BY <1>1, <1>3, TakeFacts
<1>15. timer' \in [list : Seq(Entry(Sdu)), armed : SUBSET Entry(Sdu), busy : BOOLEAN]
  BY <1>5, WellFormedTimer
<1>16. TypeOK' /\ NetOK'
  BY <1>1, <1>6, <1>9, <1>10, <1>14, <1>15, TakeTyped
<1>17. TimerPerPacket' /\ TimerOK'
  BY <1>1, <1>5, <1>6 DEF Inv, TimerPerPacket, TimerOK
<1> QED BY <1>12, <1>13, <1>14, <1>16, <1>17, <1>d DEF Inv, NoRuntimeError

LEMMA TimerMessageStep ==
  ASSUME Inv, NEW m \in Due(timer), TimerMessage(m)
  PROVE  Inv'
<1> DEFINE s == m.event
<1>1. /\ failed' = TimerMessageThrows(m)
      /\ unsent' = unsent /\ net' = net /\ registered' = registered
      /\ taken' = taken /\ delivered' = delivered
  BY DEF TimerMessage
<1>2. m \in timer.armed /\ s \in Sdu
  BY DEF Inv, TypeOK, Due, Entry
<1>3. NetOK'
  BY <1>1 DEF Inv, NetOK
<1>4. CASE ~ registered
  <2>1. timer' = Fired(timer, m) /\ frags' = frags /\ lost' = lost
    BY <1>4 DEF TimerMessage
  <2>2. Buffered(s) /\ \A x \in timer.armed : Buffered(x.event)
    BY <1>2, <1>4 DEF Inv, TimerOK
  <2>3. ~ failed'
    BY <1>1, <1>4, <2>2 DEF TimerMessageThrows
  <2>4. timer'.armed = timer.armed \ {m}
    BY <2>1 DEF Fired, Inv, TypeOK
  <2>5. timer' \in [list : Seq(Entry(Sdu)), armed : SUBSET Entry(Sdu), busy : BOOLEAN]
    BY <2>1 DEF Fired, Inv, TypeOK
  <2>6. TypeOK'
    BY <1>1, <2>1, <2>3, <2>5 DEF Inv, TypeOK, TimerMessageThrows
  <2>7. WholeOnly' /\ SizeRestored' /\ BufferOK'
    BY <1>1, <2>1 DEF Inv, WholeOnly, SizeRestored, BufferOK, Buffered
  <2>8. TimerPerPacket' /\ TimerOK'
    BY <1>1, <1>4, <2>1, <2>2, <2>4 DEF TimerPerPacket, TimerOK, Buffered
  <2> QED BY <1>3, <2>3, <2>6, <2>7, <2>8 DEF Inv, NoRuntimeError
<1>5. CASE registered
  <2>1. /\ frags' = [frags EXCEPT ![s] = NoEntry]
        /\ timer' = TimerHandle(Fired(timer, m))
        /\ lost' = [lost EXCEPT ![s] = @ + 1]
    BY <1>5 DEF TimerMessage, Discarded
  <2>2. /\ WellFormed(Sdu, timer') /\ ~ TimerHandleThrows(timer)
        /\ s \in Pending(timer) /\ Pending(timer') = Pending(timer) \ {s}
    BY <1>5, <2>1, HandleTimes DEF Inv, TimerOK
  <2>3. Buffered(s)
    BY <1>2, <1>5, <2>2 DEF Inv, TimerPerPacket
  <2>4. ~ failed'
    BY <1>1, <2>2, <2>3 DEF TimerMessageThrows
  <2>5. /\ frags' \in [Sdu -> [left : Nat, bytes : Nat, got : SUBSET Nat]]
        /\ frags'[s] = NoEntry /\ frags'[s].got = {} /\ ~ Buffered(s)'
        /\ \A x \in Sdu : x # s => frags'[x] = frags[x] /\ (Buffered(x)' <=> Buffered(x))
    BY <1>2, <2>1, EntryEnds
  <2>6. /\ lost' \in [Sdu -> Nat]
        /\ \A x \in Sdu : x # s => lost'[x] = lost[x]
    BY <1>2, <2>1 DEF Inv, TypeOK
  <2>7. timer' \in [list : Seq(Entry(Sdu)), armed : SUBSET Entry(Sdu), busy : BOOLEAN]
    BY <2>2, WellFormedTimer
  <2>8. TypeOK'
    BY <1>1, <2>4, <2>5, <2>6, <2>7 DEF Inv, TypeOK, TimerMessageThrows
  <2>9. delivered[s] = <<>>
    BY <1>2, <2>3 DEF Inv, BufferOK
  <2>10. WholeOnly' /\ SizeRestored'
    BY <1>1, <2>6, <2>9 DEF Inv, WholeOnly, SizeRestored
  <2>11. BufferOK'
    <3> SUFFICES ASSUME NEW x \in Sdu
                 PROVE  /\ taken'[x] \subseteq Numbers(x)
                        /\ frags'[x].got \subseteq taken'[x]
                        /\ IF Buffered(x)'
                           THEN /\ frags'[x].left = TotalFragments(SduSize[x]) - Cardinality(frags'[x].got)
                                /\ frags'[x].bytes = BytesOf(x, frags'[x].got)
                           ELSE frags'[x] = NoEntry
                        /\ delivered'[x] # <<>> => ~ Buffered(x)'
                        /\ lost'[x] > 0 => \E n \in taken'[x] : n \notin frags'[x].got
      BY DEF BufferOK, Buffered
    <3>1. CASE x # s
      BY <1>1, <2>5, <2>6, <3>1 DEF Inv, BufferOK
    <3>2. CASE x = s
      <4>1. \E n \in taken[s] : n \in frags[s].got
        BY <1>2, <2>3 DEF Inv, BufferOK, Buffered
      <4> QED BY <1>1, <2>5, <3>2, <4>1 DEF Inv, BufferOK
    <3> QED BY <3>1, <3>2
  <2>12. TimerPerPacket' /\ TimerOK'
    BY <1>1, <1>5, <2>2, <2>5 DEF Inv, TimerPerPacket, TimerOK
  <2> QED BY <1>3, <2>4, <2>8, <2>10, <2>11, <2>12 DEF Inv, NoRuntimeError
<1> QED BY <1>4, <1>5

LEMMA UnregisterStep ==
  ASSUME Inv, UnregisterNode
  PROVE  Inv'
<1>1. /\ registered /\ registered' = FALSE
      /\ UNCHANGED <<unsent, net, frags, timer, failed, taken, delivered, lost>>
  BY DEF UnregisterNode, rxVars, history
<1>2. TypeOK' /\ NoRuntimeError' /\ WholeOnly' /\ SizeRestored' /\ NetOK'
  BY <1>1 DEF Inv, TypeOK, NoRuntimeError, WholeOnly, SizeRestored, NetOK
<1>3. BufferOK'
  BY <1>1 DEF Inv, BufferOK, Buffered
<1>4. \A m \in timer.armed : Buffered(m.event)
  <2> SUFFICES ASSUME NEW m \in timer.armed PROVE Buffered(m.event)
    OBVIOUS
  <2>1. WellFormed(Sdu, timer)
    BY <1>1 DEF Inv, TimerOK
  <2>2. timer.list # <<>> /\ m = Head(timer.list) /\ timer.list \in Seq(Entry(Sdu))
    BY <2>1 DEF WellFormed, MessageFor
  <2>3. 1 \in DOMAIN timer.list /\ m = timer.list[1]
    BY <2>2, EmptySeq, LenProperties, HeadTailProperties
  <2>4. m.event \in Pending(timer)
    BY <2>3 DEF Pending
  <2>5. m.event \in Sdu
    BY DEF Inv, TypeOK, Entry
  <2> QED BY <1>1, <2>4, <2>5 DEF Inv, TimerPerPacket
<1>5. TimerPerPacket' /\ TimerOK'
  BY <1>1, <1>4 DEF TimerPerPacket, TimerOK, Buffered
<1> QED BY <1>2, <1>3, <1>5 DEF Inv

LEMMA TickStep ==
  ASSUME Inv, Tick
  PROVE  Inv'
<1>1. /\ Due(timer) = {} /\ timer' = Aged(timer)
      /\ UNCHANGED <<unsent, net, frags, registered, failed, taken, delivered, lost>>
  BY DEF Tick, history
<1>2. timer' \in [list : Seq(Entry(Sdu)), armed : SUBSET Entry(Sdu), busy : BOOLEAN]
  BY <1>1, AgedTyped DEF Inv, TypeOK
<1>3. TypeOK' /\ NoRuntimeError' /\ WholeOnly' /\ SizeRestored' /\ NetOK'
  BY <1>1, <1>2 DEF Inv, TypeOK, NoRuntimeError, WholeOnly, SizeRestored, NetOK
<1>4. BufferOK'
  BY <1>1 DEF Inv, BufferOK, Buffered
<1>5. TimerPerPacket' /\ TimerOK'
  <2>1. CASE registered
    <3>1. WellFormed(Sdu, timer') /\ Pending(timer') = Pending(timer)
      BY <1>1, <2>1, AgedTimes DEF Inv, TimerOK
    <3> QED BY <1>1, <2>1, <3>1 DEF Inv, TimerPerPacket, TimerOK, Buffered
  <2>2. CASE ~ registered
    <3>1. \A m \in timer.armed : OneTickLess(m).event = m.event
      BY DEF OneTickLess, Inv, TypeOK, Entry
    <3>2. timer'.armed = {OneTickLess(m) : m \in timer.armed}
      BY <1>1 DEF Aged
    <3> QED BY <1>1, <2>2, <3>1, <3>2 DEF Inv, TimerPerPacket, TimerOK, Buffered
  <2> QED BY <2>1, <2>2
<1> QED BY <1>3, <1>4, <1>5 DEF Inv

LEMMA InvStep == Inv /\ [Next]_vars => Inv'
<1> SUFFICES ASSUME Inv, [Next]_vars PROVE Inv'
  OBVIOUS
<1>1. ASSUME NEW s \in Sdu, Fragment(s) PROVE Inv'
  BY <1>1, FragmentStep
<1>2. ASSUME NEW f \in net, Lose(f) PROVE Inv'
  BY <1>2, LoseStep
<1>3. ASSUME NEW f \in net, Defragment(f) PROVE Inv'
  BY <1>3, UnknownStep, MissingStep, CompleteStep DEF Defragment
<1>4. ASSUME NEW m \in Due(timer), TimerMessage(m) PROVE Inv'
  BY <1>4, TimerMessageStep
<1>5. CASE UnregisterNode
  BY <1>5, UnregisterStep
<1>6. CASE Tick
  BY <1>6, TickStep
<1>7. CASE UNCHANGED vars
  <2>1. /\ UNCHANGED <<unsent, net, taken>>
        /\ UNCHANGED <<rxVars, registered, failed, taken, history>>
    BY <1>7 DEF vars
  <2>2. NetOK'
    BY <2>1 DEF Inv, NetOK
  <2> QED BY <2>1, <2>2, ReceiverUnchanged DEF Inv, TypeOK
<1> QED BY <1>1, <1>2, <1>3, <1>4, <1>5, <1>6, <1>7 DEF Next

\* For any SDUs, fragment size and timeout, in every state: buffer, timer,
\* fragments underway and history fit together (UmFragbuf.cc, UmRxQueue.cc).
THEOREM InvInvariant == Spec => []Inv
<1> QED BY InvInit, InvStep, PTL DEF Spec

\* Every variable keeps its type, whatever arrives, times out or leaves.
THEOREM TypeInvariant == Spec => []TypeOK
<1>1. Inv => TypeOK
  BY DEF Inv
<1> QED BY InvInvariant, <1>1, PTL

\* UmFragbuf::insert finds no duplicate, TMultiTimer no event twice or missing,
\* and getLteInfo() no entry missing, whenever fragments, timeouts and the
\* removal of the UE happen.
THEOREM NeverThrows == Spec => []NoRuntimeError
<1>1. Inv => NoRuntimeError
  BY DEF Inv
<1> QED BY <1>1, InvInvariant, PTL

\* What goes up is whole, goes up once, and is never counted as lost.
THEOREM WholeOnlyInvariant == Spec => []WholeOnly
<1>1. Inv => WholeOnly
  BY DEF Inv
<1> QED BY <1>1, InvInvariant, PTL

\* Fragments of any size, in any order, add up to the SDU that was cut: the
\* packet that goes up has the size of the one that came down.
THEOREM SizeRestoredInvariant == Spec => []SizeRestored
<1>1. Inv => SizeRestored
  BY DEF Inv
<1> QED BY <1>1, InvInvariant, PTL

\* While the UE is known, the packets in the buffer are those with a timeout.
THEOREM TimerPerPacketInvariant == Spec => []TimerPerPacket
<1>1. Inv => TimerPerPacket
  BY DEF Inv
<1> QED BY <1>1, InvInvariant, PTL

----------------------------------------------------------------------------
(* One buffer and one timer implement a window for every SDU.              *)

\* The mapping, SDU by SDU.
LEMMA BarFacts ==
  ASSUME Inv
  PROVE  /\ collectedBar = [s \in Sdu |-> collectedBar[s]]
         /\ windowBar = [s \in Sdu |-> windowBar[s]]
         /\ \A s \in Sdu :
              /\ collectedBar[s] = IF registered THEN frags[s].got ELSE {}
              /\ windowBar[s] = IF registered /\ Buffered(s) THEN TimeLeft(timer)[s] ELSE 0
              /\ Reassembly!Open(s) <=> registered /\ Buffered(s)
  BY DEF collectedBar, windowBar, Reassembly!Open, Buffered

\* What a step leaves of the windows of the other SDUs when it changes only the
\* entry of one, and the timer keeps the times of the others.
LEMMA OthersKept ==
  ASSUME registered, registered', NEW s \in Sdu,
         \A x \in Sdu : x # s => frags'[x] = frags[x],
         \A x \in Sdu : x # s /\ Buffered(x) => TimeLeft(timer')[x] = TimeLeft(timer)[x]
  PROVE  /\ collectedBar' = [collectedBar EXCEPT ![s] = frags'[s].got]
         /\ windowBar' = [windowBar EXCEPT ![s] = IF frags'[s].got # {} THEN TimeLeft(timer')[s] ELSE 0]
<1> DEFINE now == TimeLeft(timer)
           next == TimeLeft(timer')
<1>1. \A x \in Sdu : x # s => (Buffered(x)' <=> Buffered(x))
  BY DEF Buffered
<1>2. Buffered(s)' <=> frags'[s].got # {}
  BY DEF Buffered
<1>3. \A x \in Sdu : x # s /\ Buffered(x) => next[x] = now[x]
  OBVIOUS
<1>4. /\ windowBar = [x \in Sdu |-> IF Buffered(x) THEN now[x] ELSE 0]
      /\ windowBar' = [x \in Sdu |-> IF Buffered(x)' THEN next[x] ELSE 0]
  BY DEF windowBar
<1> HIDE DEF now, next
<1>5. windowBar' = [windowBar EXCEPT ![s] = IF frags'[s].got # {} THEN next[s] ELSE 0]
  BY <1>1, <1>2, <1>3, <1>4
<1>6. collectedBar' = [collectedBar EXCEPT ![s] = frags'[s].got]
  BY DEF collectedBar
<1> QED BY <1>5, <1>6 DEF next

LEMMA MissingCollects ==
  ASSUME Inv, NEW f \in net, DefragmentMissing(f)
  PROVE  Reassembly!Collect(f.sdu, f.sno)
<1> DEFINE s == f.sdu
<1>1. /\ registered /\ registered' /\ ~ Complete(f)
      /\ frags' = [frags EXCEPT ![s] = Entered(f)] /\ timer' = Started(f)
      /\ delivered' = delivered /\ lost' = lost
  BY DEF DefragmentMissing, Take, history
<1>2. /\ s \in Sdu /\ f.sno \in Numbers(s) /\ f.sno \notin taken[s]
      /\ Entered(f).got = frags[s].got \cup {f.sno}
      /\ Entered(f).got # Numbers(s)
      /\ frags[s].got \subseteq taken[s]
  BY <1>1, EnteredFacts DEF Inv, BufferOK
<1>3. frags'[s] = Entered(f) /\ \A x \in Sdu : x # s => frags'[x] = frags[x]
  BY <1>1, <1>2 DEF Inv, TypeOK
<1>4. /\ \A x \in Sdu : Buffered(x) <=> x \in Pending(timer)
      /\ Pending(timer') = Pending(timer) \cup {s}
      /\ \A x \in Pending(timer') :
           TimeLeft(timer')[x] = IF First(f) /\ x = s THEN Timeout ELSE TimeLeft(timer)[x]
  BY <1>1, StartedFacts DEF Inv, TimerPerPacket
<1>5. \A x \in Sdu : x # s /\ Buffered(x) => TimeLeft(timer')[x] = TimeLeft(timer)[x]
  BY <1>4
<1>6. TimeLeft(timer')[s] = IF Buffered(s) THEN TimeLeft(timer)[s] ELSE Timeout
  BY <1>4 DEF First
<1>7. /\ collectedBar' = [collectedBar EXCEPT ![s] = frags'[s].got]
      /\ windowBar' = [windowBar EXCEPT ![s] = IF frags'[s].got # {} THEN TimeLeft(timer')[s] ELSE 0]
  BY <1>1, <1>2, <1>3, <1>5, OthersKept
<1>8. /\ collectedBar = [x \in Sdu |-> collectedBar[x]]
      /\ collectedBar[s] = frags[s].got
      /\ Buffered(s) => windowBar[s] = TimeLeft(timer)[s]
      /\ Reassembly!Open(s) <=> Buffered(s)
  BY <1>1, <1>2, BarFacts
<1>9. collectedBar' = [collectedBar EXCEPT ![s] = @ \cup {f.sno}]
  BY <1>2, <1>3, <1>7, <1>8
<1>10. windowBar' = [windowBar EXCEPT ![s] = IF Reassembly!Open(s) THEN @ ELSE Timeout]
  <2>1. windowBar' = [windowBar EXCEPT ![s] = IF Buffered(s) THEN TimeLeft(timer)[s] ELSE Timeout]
    BY <1>2, <1>3, <1>6, <1>7
  <2> QED BY <1>8, <2>1
<1>11. collectedBar'[s] = Entered(f).got
  BY <1>2, <1>3, <1>7, <1>8
<1>12. deliveredBar' = deliveredBar
  BY <1>1 DEF deliveredBar
<1>13. Numbers(s) = 0 .. [x \in Sdu |-> TotalFragments(SduSize[x])][s] - 1
  BY <1>2 DEF Numbers
<1> QED
  BY <1>1, <1>2, <1>8, <1>9, <1>10, <1>11, <1>12, <1>13 DEF Reassembly!Collect

\* The window of an SDU closes when its entry and its timeout end.
LEMMA EndCloses ==
  ASSUME Inv, registered, registered', NEW s \in Sdu,
         frags' = [frags EXCEPT ![s] = NoEntry],
         \A x \in Pending(timer') : x # s => TimeLeft(timer')[x] = TimeLeft(timer)[x],
         Pending(timer') = Pending(timer) \ {s}
  PROVE  Reassembly!Close(s)
<1>1. frags'[s].got = {} /\ \A x \in Sdu : x # s => frags'[x] = frags[x]
  BY EntryEnds
<1>2. \A x \in Sdu : x # s /\ Buffered(x) => TimeLeft(timer')[x] = TimeLeft(timer)[x]
  BY DEF Inv, TimerPerPacket
<1> QED BY <1>1, <1>2, OthersKept DEF Reassembly!Close

LEMMA CompleteDelivers ==
  ASSUME Inv, NEW f \in net, DefragmentComplete(f)
  PROVE  Reassembly!Deliver(f.sdu, f.sno)
<1> DEFINE s == f.sdu
           e == Entered(f)
<1>1. /\ registered /\ registered' /\ Complete(f)
      /\ frags' = [frags EXCEPT ![s] = NoEntry]
      /\ timer' = IF DefragmentThrows(f) THEN timer ELSE TimerRemove(Started(f), s)
      /\ delivered' = [delivered EXCEPT ![s] = Append(@, e.bytes)]
      /\ lost' = lost
  BY DEF DefragmentComplete, Take
<1>2. /\ s \in Sdu /\ f.sno \in Numbers(s) /\ f.sno \notin taken[s]
      /\ e.got = frags[s].got \cup {f.sno} /\ e.got = Numbers(s) /\ e.bytes \in Nat
  BY <1>1, EnteredFacts
<1> HIDE DEF e
<1>3. /\ frags[s].got \subseteq taken[s] /\ delivered[s] = <<>>
      /\ delivered \in [Sdu -> Seq(Nat)]
  BY <1>2 DEF Inv, BufferOK, WholeOnly, TypeOK
<1>4. /\ WellFormed(Sdu, Started(f)) /\ ~ DefragmentThrows(f)
      /\ Pending(Started(f)) = Pending(timer) \cup {s}
      /\ \A x \in Pending(Started(f)) :
           x # s => TimeLeft(Started(f))[x] = TimeLeft(timer)[x]
  BY <1>1, StartedFacts
<1>5. ~ TimerRemoveThrows(Started(f), s)
  BY <1>4 DEF TimerRemoveThrows
<1>6. /\ Pending(timer') = Pending(Started(f)) \ {s}
      /\ \A x \in Pending(timer') : TimeLeft(timer')[x] = TimeLeft(Started(f))[x]
  BY <1>1, <1>4, <1>5, RemoveTimes
<1>7. /\ Pending(timer') = Pending(timer) \ {s}
      /\ \A x \in Pending(timer') : x # s => TimeLeft(timer')[x] = TimeLeft(timer)[x]
  BY <1>4, <1>6
<1>8. Reassembly!Close(s)
  BY <1>1, <1>2, <1>7, EndCloses
<1>9. deliveredBar' = deliveredBar \cup {s} /\ s \notin deliveredBar
  <2>1. delivered'[s] # <<>>
    <3>1. delivered'[s] = Append(<<>>, e.bytes)
      BY <1>1, <1>2, <1>3
    <3> QED BY <1>2, <1>3, <3>1, AppendProperties
  <2>2. \A x \in Sdu : x # s => delivered'[x] = delivered[x]
    BY <1>1, <1>3
  <2> QED BY <1>2, <1>3, <2>1, <2>2 DEF deliveredBar
<1>10. collectedBar[s] = frags[s].got
  BY <1>1, <1>2, BarFacts
<1>11. Numbers(s) = 0 .. [x \in Sdu |-> TotalFragments(SduSize[x])][s] - 1
  BY <1>2 DEF Numbers
<1> QED BY <1>1, <1>2, <1>3, <1>8, <1>9, <1>10, <1>11 DEF Reassembly!Deliver

LEMMA TimerMessageExpires ==
  ASSUME Inv, registered, NEW m \in Due(timer), TimerMessage(m)
  PROVE  m.event \in Sdu /\ Reassembly!Expire(m.event)
<1> DEFINE s == m.event
<1>1. /\ registered' /\ delivered' = delivered
      /\ frags' = [frags EXCEPT ![s] = NoEntry]
      /\ timer' = TimerHandle(Fired(timer, m))
      /\ lost' = [lost EXCEPT ![s] = @ + 1]
  BY DEF TimerMessage, Discarded
<1>2. /\ s \in Pending(timer) /\ s \in Sdu /\ TimeLeft(timer)[s] = 0
      /\ Pending(timer') = Pending(timer) \ {s}
      /\ \A x \in Pending(timer') : TimeLeft(timer')[x] = TimeLeft(timer)[x]
  BY <1>1, HandleTimes DEF Inv, TimerOK
<1>3. Buffered(s) /\ delivered[s] = <<>>
  BY <1>2 DEF Inv, TimerPerPacket, BufferOK
<1>4. Reassembly!Close(s)
  BY <1>1, <1>2, EndCloses
<1>5. Reassembly!Open(s) /\ windowBar[s] = 0
  BY <1>2, <1>3, BarFacts
<1>6. deliveredBar' = deliveredBar /\ s \notin deliveredBar
  BY <1>1, <1>3 DEF deliveredBar
<1> QED BY <1>1, <1>2, <1>4, <1>5, <1>6 DEF Reassembly!Expire

LEMMA UnregisterLeaves ==
  ASSUME Inv, UnregisterNode
  PROVE  Reassembly!Leave
<1>1. /\ registered /\ ~ registered' /\ registered' = FALSE
      /\ delivered' = delivered /\ lost' = lost
  BY DEF UnregisterNode, history
<1>2. collectedBar' = Reassembly!Nothing /\ windowBar' = Reassembly!Closed
  BY <1>1 DEF collectedBar, windowBar, Reassembly!Nothing, Reassembly!Closed
<1>3. deliveredBar' = deliveredBar
  BY <1>1 DEF deliveredBar
<1>4. registered = TRUE
  BY <1>1 DEF Inv, TypeOK
<1> QED BY <1>1, <1>2, <1>3, <1>4 DEF Reassembly!Leave

LEMMA TickTicks ==
  ASSUME Inv, registered, Tick
  PROVE  Reassembly!Tick
<1> DEFINE now == TimeLeft(timer)
           next == TimeLeft(timer')
<1>1. /\ registered' = registered /\ frags' = frags /\ lost' = lost
      /\ delivered' = delivered /\ timer' = Aged(timer) /\ Due(timer) = {}
  BY DEF Tick, history
<1>2. \A x \in Pending(timer) : now[x] > 0 /\ next[x] = now[x] - 1
  BY <1>1, AgedTimes DEF Inv, TimerOK
<1>3. \A x \in Sdu : Buffered(x) => now[x] > 0 /\ next[x] = now[x] - 1
  BY <1>2 DEF Inv, TimerPerPacket
<1>4. windowBar' = [x \in Sdu |-> IF Buffered(x) THEN next[x] ELSE 0]
  BY <1>1 DEF windowBar, Buffered
<1>5. \A x \in Sdu : /\ Reassembly!Open(x) <=> Buffered(x)
                     /\ Buffered(x) => windowBar[x] = now[x]
  BY BarFacts
<1> HIDE DEF now, next
<1>6. windowBar' = [x \in Sdu |-> IF Reassembly!Open(x) THEN windowBar[x] - 1 ELSE 0]
  BY <1>3, <1>4, <1>5
<1>7. \A x \in Sdu : Reassembly!Open(x) => windowBar[x] > 0
  BY <1>3, <1>5
<1>8. collectedBar' = collectedBar /\ deliveredBar' = deliveredBar
  BY <1>1 DEF collectedBar, deliveredBar
<1> QED BY <1>1, <1>6, <1>7, <1>8 DEF Reassembly!Tick

\* Steps that are no steps of the windows: those of the sender and of the MAC
\* layer, and all that happens after the UE has left.
LEMMA NothingSeen ==
  ASSUME UNCHANGED <<registered, history>>, ~ registered \/ UNCHANGED rxVars
  PROVE  UNCHANGED Reassembly!vars
<1>1. registered' = registered /\ delivered' = delivered /\ lost' = lost
  BY DEF history
<1>2. deliveredBar' = deliveredBar
  BY <1>1 DEF deliveredBar
<1>3. collectedBar' = collectedBar /\ windowBar' = windowBar
  BY <1>1 DEF collectedBar, windowBar, rxVars, Buffered
<1> QED BY <1>1, <1>2, <1>3 DEF Reassembly!vars

\* UmRxQueue.cc, with one buffer, one timer and one kernel message, gives every
\* SDU a window of its own: opened by its first fragment, closed by the last one
\* or when the timeout is over, and by nothing that happens to other SDUs.
THEOREM Implementation == Spec => ImplementsReassembly
<1>1. Init => Reassembly!Init
  <2> SUFFICES ASSUME Init PROVE Reassembly!Init
    OBVIOUS
  <2>1. \A s \in Sdu : frags[s].got = {} /\ ~ Buffered(s)
    BY DEF Init, NoEntry, Buffered
  <2>2. collectedBar = Reassembly!Nothing /\ windowBar = Reassembly!Closed
    BY <2>1 DEF collectedBar, windowBar, Reassembly!Nothing, Reassembly!Closed
  <2>3. deliveredBar = {}
    BY DEF Init, deliveredBar
  <2> QED BY <2>2, <2>3 DEF Init, Reassembly!Init
<1>2. Inv /\ [Next]_vars => [Reassembly!Next]_Reassembly!vars
  <2> SUFFICES ASSUME Inv, [Next]_vars PROVE [Reassembly!Next]_Reassembly!vars
    OBVIOUS
  <2>1. ASSUME NEW s \in Sdu, Fragment(s) PROVE UNCHANGED Reassembly!vars
    BY <2>1, NothingSeen DEF Fragment, history
  <2>2. ASSUME NEW f \in net, Lose(f) PROVE UNCHANGED Reassembly!vars
    BY <2>2, NothingSeen DEF Lose, history
  <2>3. ASSUME NEW f \in net, DefragmentUnknown(f) PROVE UNCHANGED Reassembly!vars
    BY <2>3, NothingSeen DEF DefragmentUnknown, Take
  <2>4. ASSUME NEW f \in net
        PROVE  /\ f.sdu \in Sdu
               /\ f.sno \in 0 .. [x \in Sdu |-> TotalFragments(SduSize[x])][f.sdu] - 1
    BY EnteredFacts DEF Numbers
  <2>5. ASSUME NEW f \in net, DefragmentMissing(f) PROVE Reassembly!Next
    BY <2>4, <2>5, MissingCollects DEF Reassembly!Next
  <2>6. ASSUME NEW f \in net, DefragmentComplete(f) PROVE Reassembly!Next
    BY <2>4, <2>6, CompleteDelivers DEF Reassembly!Next
  <2>7. ASSUME NEW m \in Due(timer), TimerMessage(m)
        PROVE  [Reassembly!Next]_Reassembly!vars
    <3>1. CASE registered
      BY <2>7, <3>1, TimerMessageExpires DEF Reassembly!Next
    <3>2. CASE ~ registered
      BY <2>7, <3>2, NothingSeen DEF TimerMessage, history
    <3> QED BY <3>1, <3>2
  <2>8. CASE UnregisterNode
    BY <2>8, UnregisterLeaves DEF Reassembly!Next
  <2>9. CASE Tick
    <3>1. CASE registered
      BY <2>9, <3>1, TickTicks DEF Reassembly!Next
    <3>2. CASE ~ registered
      BY <2>9, <3>2, NothingSeen DEF Tick, history
    <3> QED BY <3>1, <3>2
  <2>10. CASE UNCHANGED vars
    BY <2>10, NothingSeen DEF vars, history
  <2> QED
    BY <2>1, <2>2, <2>3, <2>5, <2>6, <2>7, <2>8, <2>9, <2>10 DEF Next, Defragment
<1> QED BY <1>1, <1>2, InvInvariant, PTL DEF Spec, Reassembly!Spec, ImplementsReassembly
=============================================================================
