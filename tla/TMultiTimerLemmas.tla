------------------------- MODULE TMultiTimerLemmas -------------------------
(* The operations of TMultiTimer keep a timer well formed; what they do    *)
(* to its entries.  E is the set of its events.                            *)
EXTENDS TMultiTimer, SequenceTheorems, WellFoundedInduction, TLAPS

\* A set of numbers that is not empty has a least element.
LEMMA LeastElement ==
  ASSUME NEW T, T \subseteq Nat, T # {}
  PROVE  \E k \in T : \A i \in T : k <= i
<1>1. PICK k \in T : \A i \in T : ~ (<<i, k>> \in OpToRel(<, Nat))
  <2> HIDE DEF OpToRel
  <2> QED BY NatLessThanWellFounded, WFMin
<1>2. \A i \in T : ~ (i < k)
  BY <1>1 DEF OpToRel
<1> QED BY <1>2

\* r is s with x as its k-th entry.
IsWith(r, s, k, x) ==
  /\ Len(r) = Len(s) + 1
  /\ \A i \in 1 .. Len(s) + 1 :
       r[i] = IF i < k THEN s[i] ELSE IF i = k THEN x ELSE s[i - 1]

\* InsertAt of the community modules, position by position.
LEMMA InsertAtFacts ==
  ASSUME NEW S, NEW s \in Seq(S), NEW k \in 1 .. Len(s) + 1, NEW x \in S
  PROVE  InsertAt(s, k, x) \in Seq(S) /\ IsWith(InsertAt(s, k, x), s, k, x)
<1> DEFINE a == SubSeq(s, 1, k - 1)
           b == SubSeq(s, k, Len(s))
<1>1. k \in Nat /\ Len(s) \in Nat /\ k >= 1
  BY LenProperties
<1>2. a \in Seq(S) /\ Len(a) = k - 1 /\ \A i \in 1 .. k - 1 : a[i] = s[i]
  BY <1>1, SubSeqProperties, ElementOfSeq
<1>3. b \in Seq(S) /\ Len(b) = Len(s) - k + 1
      /\ \A i \in 1 .. Len(s) - k + 1 : b[i] = s[k + i - 1]
  BY <1>1, SubSeqProperties, ElementOfSeq
<1>4. <<x>> \in Seq(S) /\ Len(<<x>>) = 1 /\ <<x>>[1] = x
  OBVIOUS
<1> HIDE DEF a, b
<1>5. /\ a \o <<x>> \in Seq(S) /\ Len(a \o <<x>>) = k
      /\ \A i \in 1 .. k : (a \o <<x>>)[i] = IF i <= k - 1 THEN a[i] ELSE <<x>>[i - (k - 1)]
  BY <1>1, <1>2, <1>4, ConcatProperties
<1>6. \A i \in 1 .. k : (a \o <<x>>)[i] = IF i < k THEN s[i] ELSE x
  BY <1>1, <1>2, <1>4, <1>5
<1> DEFINE c == a \o <<x>>
           d == c \o b
<1>7. /\ d \in Seq(S) /\ Len(d) = Len(s) + 1
      /\ \A i \in 1 .. Len(s) + 1 : d[i] = IF i <= k THEN c[i] ELSE b[i - k]
  <2>1. c \in Seq(S) /\ Len(c) = k
    BY <1>5
  <2> HIDE DEF c
  <2>2. /\ d \in Seq(S) /\ Len(d) = Len(c) + Len(b)
        /\ \A i \in 1 .. Len(c) + Len(b) :
              d[i] = IF i <= Len(c) THEN c[i] ELSE b[i - Len(c)]
    BY <1>3, <2>1, ConcatProperties
  <2>3. Len(c) + Len(b) = Len(s) + 1
    BY <1>1, <1>3, <2>1
  <2> HIDE DEF d
  <2> QED BY <2>1, <2>2, <2>3
<1>8. \A i \in 1 .. Len(s) + 1 : i > k => b[i - k] = s[i - 1]
  BY <1>1, <1>3
<1>9. InsertAt(s, k, x) = d
  BY DEF InsertAt, a, b
<1>10. \A i \in 1 .. Len(s) + 1 :
         d[i] = IF i < k THEN s[i] ELSE IF i = k THEN x ELSE s[i - 1]
  <2> SUFFICES ASSUME NEW i \in 1 .. Len(s) + 1
               PROVE  d[i] = IF i < k THEN s[i] ELSE IF i = k THEN x ELSE s[i - 1]
    OBVIOUS
  <2>1. d[i] = IF i <= k THEN c[i] ELSE b[i - k]
    BY <1>7
  <2>2. \A j \in 1 .. k : c[j] = IF j < k THEN s[j] ELSE x
    BY <1>6
  <2>3. i > k => b[i - k] = s[i - 1]
    BY <1>8
  <2> HIDE DEF c, d
  <2> QED BY <1>1, <2>1, <2>2, <2>3
<1> HIDE DEF d
<1> QED BY <1>7, <1>9, <1>10 DEF IsWith

\* r is s without its k-th entry.
IsWithout(r, s, k) ==
  /\ Len(r) = Len(s) - 1
  /\ \A i \in 1 .. Len(s) - 1 : r[i] = IF i < k THEN s[i] ELSE s[i + 1]

\* RemoveAt of the community modules, position by position.
LEMMA RemoveAtFacts ==
  ASSUME NEW S, NEW s \in Seq(S), NEW k \in 1 .. Len(s)
  PROVE  RemoveAt(s, k) \in Seq(S) /\ IsWithout(RemoveAt(s, k), s, k)
<1> DEFINE a == SubSeq(s, 1, k - 1)
           b == SubSeq(s, k + 1, Len(s))
<1>1. k \in Nat /\ Len(s) \in Nat /\ k >= 1
  BY LenProperties
<1>2. a \in Seq(S) /\ Len(a) = k - 1 /\ \A i \in 1 .. k - 1 : a[i] = s[i]
  BY <1>1, SubSeqProperties, ElementOfSeq
<1>3. b \in Seq(S) /\ Len(b) = Len(s) - k
      /\ \A i \in 1 .. Len(s) - k : b[i] = s[k + i]
  BY <1>1, SubSeqProperties, ElementOfSeq
<1> HIDE DEF a, b
<1> DEFINE c == a \o b
<1>4. /\ c \in Seq(S) /\ Len(c) = Len(s) - 1
      /\ \A i \in 1 .. Len(s) - 1 : c[i] = IF i <= k - 1 THEN a[i] ELSE b[i - (k - 1)]
  <2>1. /\ c \in Seq(S) /\ Len(c) = Len(a) + Len(b)
        /\ \A i \in 1 .. Len(a) + Len(b) :
              c[i] = IF i <= Len(a) THEN a[i] ELSE b[i - Len(a)]
    BY <1>2, <1>3, ConcatProperties
  <2>2. Len(a) + Len(b) = Len(s) - 1
    BY <1>1, <1>2, <1>3
  <2> HIDE DEF c
  <2> QED BY <1>2, <2>1, <2>2
<1>5. \A i \in 1 .. Len(s) - 1 : i >= k => b[i - (k - 1)] = s[i + 1]
  BY <1>1, <1>3
<1>6. RemoveAt(s, k) = c
  BY DEF RemoveAt, a, b
<1> HIDE DEF c
<1> QED BY <1>1, <1>2, <1>4, <1>5, <1>6 DEF IsWithout

----------------------------------------------------------------------------
(* The operations keep a timer well formed.                                *)

\* The new entry has a place in an ordered list.
LEMMA PlaceOfFacts ==
  ASSUME NEW E, NEW list \in Seq(Entry(E)), InOrder(list), NEW entry \in Entry(E)
  PROVE  /\ PlaceOf(list, entry) \in 1 .. Len(list) + 1
         /\ \A i \in DOMAIN list : i < PlaceOf(list, entry) <=> list[i].left <= entry.left
<1> DEFINE T == {i \in DOMAIN list : ~ (list[i].left <= entry.left)} \cup {Len(list) + 1}
<1>1. /\ Len(list) \in Nat
      /\ DOMAIN list = 1 .. Len(list)
      /\ \A i \in DOMAIN list : list[i].left \in Nat
      /\ entry.left \in Nat
  <2>1. Len(list) \in Nat /\ DOMAIN list = 1 .. Len(list)
    BY LenProperties
  <2>2. \A i \in 1 .. Len(list) : list[i] \in Entry(E)
    BY ElementOfSeq
  <2> QED BY <2>1, <2>2 DEF Entry
<1>2. PICK k \in T : \A i \in T : k <= i
  <2>1. T \subseteq Nat /\ T # {}
    BY <1>1
  <2> HIDE DEF T
  <2> QED BY <2>1, LeastElement
<1>3. k \in 1 .. Len(list) + 1
  BY <1>1, <1>2
<1>4. ASSUME NEW i \in DOMAIN list
      PROVE  i < k <=> list[i].left <= entry.left
  <2>1. CASE i < k
    BY <1>1, <1>2, <1>3, <2>1
  <2>2. CASE ~ (i < k)
    <3>1. k \in DOMAIN list /\ k <= i
      BY <1>1, <1>3, <2>2
    <3>2. ~ (list[k].left <= entry.left)
      BY <1>1, <1>2, <3>1
    <3>3. list[k].left <= list[i].left
      BY <1>1, <3>1 DEF InOrder
    <3> QED BY <1>1, <2>2, <3>1, <3>2, <3>3
  <2> QED BY <2>1, <2>2
<1> QED BY <1>3, <1>4 DEF PlaceOf

LEMMA AddWellFormed ==
  ASSUME NEW E, NEW t, WellFormed(E, t), NEW e \in E, NEW time \in Nat, ~ TimerAddThrows(t, e)
  PROVE  /\ WellFormed(E, TimerAdd(t, time, e))
         /\ Range(TimerAdd(t, time, e).list)
              = Range(t.list) \cup {[event |-> e, left |-> time]}
<1> DEFINE entry == [event |-> e, left |-> time]
           k == PlaceOf(t.list, entry)
           new == InsertAt(t.list, k, entry)
           u == TimerAdd(t, time, e)
<1>1. entry \in Entry(E) /\ entry.event = e /\ entry.left = time
  BY DEF Entry
<1>2. /\ t.list \in Seq(Entry(E)) /\ InOrder(t.list)
      /\ Len(t.list) \in Nat /\ DOMAIN t.list = 1 .. Len(t.list)
      /\ \A i \in DOMAIN t.list : t.list[i] \in Entry(E)
  BY ElementOfSeq, LenProperties DEF WellFormed
<1>3. \A i \in DOMAIN t.list : t.list[i].left \in Nat /\ t.list[i].event # e
  BY <1>2 DEF Entry, TimerAddThrows, Pending
<1> HIDE DEF entry
<1>4. /\ k \in 1 .. Len(t.list) + 1
      /\ \A i \in DOMAIN t.list : i < k <=> t.list[i].left <= entry.left
  BY <1>1, <1>2, PlaceOfFacts
<1> HIDE DEF k
<1>5. /\ new \in Seq(Entry(E))
      /\ Len(new) = Len(t.list) + 1
      /\ \A i \in 1 .. Len(t.list) + 1 :
           new[i] = IF i < k THEN t.list[i] ELSE IF i = k THEN entry ELSE t.list[i - 1]
  <2> DEFINE s == t.list
             S == Entry(E)
  <2>1. s \in Seq(S) /\ k \in 1 .. Len(s) + 1 /\ entry \in S
    BY <1>1, <1>2, <1>4
  <2> HIDE DEF s, S
  <2>2. InsertAt(s, k, entry) \in Seq(S) /\ IsWith(InsertAt(s, k, entry), s, k, entry)
    BY <2>1, InsertAtFacts
  <2> QED BY <2>2 DEF s, S, IsWith
<1> HIDE DEF new
<1>6. DOMAIN new = 1 .. Len(t.list) + 1 /\ new # <<>>
  BY <1>2, <1>5, LenProperties
<1>7. InOrder(new)
  <2> SUFFICES ASSUME NEW i \in DOMAIN new, NEW j \in DOMAIN new, i < j
               PROVE  new[i].left <= new[j].left /\ new[i].event # new[j].event
    BY DEF InOrder
  <2>1. CASE j < k
    BY <1>2, <1>4, <1>5, <1>6, <2>1 DEF InOrder
  <2>2. CASE j = k
    BY <1>1, <1>2, <1>3, <1>4, <1>5, <1>6, <2>2
  <2>3. CASE j > k
    <3>1. j - 1 \in DOMAIN t.list /\ new[j] = t.list[j - 1] /\ ~ (j - 1 < k)
      BY <1>2, <1>4, <1>5, <1>6, <2>3
    <3>2. CASE i < k
      <4>1. i \in DOMAIN t.list /\ new[i] = t.list[i] /\ i < j - 1
        BY <1>2, <1>4, <1>5, <1>6, <2>3, <3>2
      <4> QED BY <1>2, <3>1, <4>1 DEF InOrder
    <3>3. CASE i = k
      <4>1. ~ (t.list[j - 1].left <= entry.left)
        BY <1>4, <3>1
      <4> QED BY <1>1, <1>3, <1>5, <1>6, <3>1, <3>3, <4>1
    <3>4. CASE i > k
      <4>1. i - 1 \in DOMAIN t.list /\ new[i] = t.list[i - 1] /\ i - 1 < j - 1
        BY <1>2, <1>4, <1>5, <1>6, <2>3, <3>4
      <4> QED BY <1>2, <3>1, <4>1 DEF InOrder
    <3> QED BY <1>2, <1>4, <1>6, <3>2, <3>3, <3>4
  <2> QED BY <1>2, <1>4, <1>6, <2>1, <2>2, <2>3
<1>8. /\ u.list = new
      /\ u.armed = IF ~t.busy THEN t.armed \cup {entry}
                   ELSE IF time < t.list[1].left THEN {entry} ELSE t.armed
      /\ u.busy = TRUE
      /\ u = [list |-> u.list, armed |-> u.armed, busy |-> u.busy]
  BY DEF TimerAdd, new, k, entry
<1>9. u.armed = {Head(new)}
  <2>1. Head(new) = new[1]
    BY <1>2, <1>5, <1>6
  <2>2. CASE t.list = <<>>
    <3>1. Len(t.list) = 0 /\ k = 1
      BY <1>2, <1>4, <2>2
    <3>2. new[1] = entry
      BY <1>5, <3>1
    <3> QED BY <1>8, <2>1, <2>2, <3>2 DEF WellFormed, MessageFor
  <2>3. CASE t.list # <<>>
    <3>1. Len(t.list) >= 1 /\ 1 \in DOMAIN t.list /\ Head(t.list) = t.list[1]
      BY <1>2, <2>3, EmptySeq
    <3>2. t.busy /\ t.armed = {t.list[1]}
      BY <2>3, <3>1 DEF WellFormed, MessageFor
    <3>3. time < t.list[1].left <=> k = 1
      BY <1>1, <1>2, <1>3, <1>4, <3>1
    <3>4. new[1] = IF k = 1 THEN entry ELSE t.list[1]
      BY <1>2, <1>4, <1>5
    <3> QED BY <1>8, <2>1, <3>2, <3>3, <3>4
  <2> QED BY <2>2, <2>3
<1>10. WellFormed(E, u)
  BY <1>5, <1>6, <1>7, <1>8, <1>9 DEF WellFormed, MessageFor
<1>11. Range(new) = Range(t.list) \cup {entry}
  <2>1. ASSUME NEW i \in DOMAIN new
        PROVE  new[i] \in Range(t.list) \cup {entry}
    <3>1. CASE i < k
      BY <1>2, <1>4, <1>5, <1>6, <3>1 DEF Range
    <3>2. CASE i = k
      BY <1>5, <1>6, <3>2 DEF Range
    <3>3. CASE i > k
      <4>1. i - 1 \in DOMAIN t.list /\ new[i] = t.list[i - 1]
        BY <1>2, <1>4, <1>5, <1>6, <3>3 DEF Range
      <4> QED BY <4>1 DEF Range
    <3> QED BY <1>2, <1>4, <1>6, <3>1, <3>2, <3>3 DEF Range
  <2>2. ASSUME NEW j \in DOMAIN t.list
        PROVE  t.list[j] \in Range(new)
    <3>1. CASE j < k
      <4>1. j \in DOMAIN new /\ new[j] = t.list[j]
        BY <1>2, <1>4, <1>5, <1>6, <3>1 DEF Range
      <4> QED BY <4>1 DEF Range
    <3>2. CASE ~ (j < k)
      <4>1. j + 1 \in DOMAIN new /\ new[j + 1] = t.list[j]
        BY <1>2, <1>4, <1>5, <1>6, <3>2 DEF Range
      <4> QED BY <4>1 DEF Range
    <3> QED BY <3>1, <3>2 DEF Range
  <2>3. entry \in Range(new)
    <3>1. k \in DOMAIN new /\ new[k] = entry
      BY <1>2, <1>4, <1>5, <1>6 DEF Range
    <3> QED BY <3>1 DEF Range
  <2> QED BY <2>1, <2>2, <2>3 DEF Range
<1> QED BY <1>8, <1>10, <1>11 DEF entry

\* A list without its k-th entry is in order, and has the other entries.
LEMMA DropFacts ==
  ASSUME NEW S, NEW s \in Seq(S), InOrder(s), NEW k \in 1 .. Len(s),
         NEW r \in Seq(S), IsWithout(r, s, k)
  PROVE  /\ InOrder(r)
         /\ Range(r) = Range(s) \ {s[k]}
<1>1. Len(s) \in Nat /\ DOMAIN s = 1 .. Len(s) /\ DOMAIN r = 1 .. Len(s) - 1
  BY LenProperties DEF IsWithout
<1>0. \A i \in 1 .. Len(s) - 1 : r[i] = IF i < k THEN s[i] ELSE s[i + 1]
  BY DEF IsWithout
<1>2. \A i, j \in 1 .. Len(s) : i # j => s[i].event # s[j].event
  BY <1>1 DEF InOrder
<1>3. InOrder(r)
  <2> SUFFICES ASSUME NEW i \in DOMAIN r, NEW j \in DOMAIN r, i < j
               PROVE  r[i].left <= r[j].left /\ r[i].event # r[j].event
    BY DEF InOrder
  <2>1. PICK a \in DOMAIN s : r[i] = s[a] /\ a = IF i < k THEN i ELSE i + 1
    BY <1>0, <1>1
  <2>2. PICK b \in DOMAIN s : r[j] = s[b] /\ b = IF j < k THEN j ELSE j + 1
    BY <1>0, <1>1
  <2>3. a < b
    BY <1>1, <2>1, <2>2
  <2> QED BY <2>1, <2>2, <2>3 DEF InOrder
<1>4. ASSUME NEW i \in DOMAIN r
      PROVE  r[i] \in Range(s) \ {s[k]}
  <2>1. PICK a \in DOMAIN s : r[i] = s[a] /\ a = IF i < k THEN i ELSE i + 1
    BY <1>0, <1>1 DEF Range
  <2>2. a # k
    BY <1>1, <2>1 DEF Range
  <2> QED BY <1>1, <1>2, <2>1, <2>2 DEF Range
<1>5. ASSUME NEW j \in DOMAIN s, s[j] # s[k]
      PROVE  s[j] \in Range(r)
  <2>1. CASE j < k
    BY <1>0, <1>1, <2>1 DEF Range
  <2>2. CASE j > k
    <3>1. j - 1 \in DOMAIN r /\ r[j - 1] = s[j]
      BY <1>0, <1>1, <2>2 DEF Range
    <3> QED BY <3>1 DEF Range
  <2> QED BY <1>1, <1>5, <2>1, <2>2 DEF Range
<1> QED BY <1>3, <1>4, <1>5 DEF Range

\* handle() after the kernel has delivered the one message it holds.
LEMMA HandleWellFormed ==
  ASSUME NEW E, NEW t, WellFormed(E, t), t.list # <<>>
  PROVE  LET u == TimerHandle(Fired(t, Head(t.list))) IN
         /\ WellFormed(E, u)
         /\ Range(u.list)
              = Range(t.list) \ {t.list[1]}
<1> DEFINE s == t.list
           r == Tail(s)
           u == TimerHandle(Fired(t, Head(s)))
<1>1. u = [list |-> r, armed |-> MessageFor(r), busy |-> r # <<>>]
  BY DEF TimerHandle, Fired, WellFormed, MessageFor
<1>2. s \in Seq(Entry(E)) /\ InOrder(s) /\ s # <<>>
  BY DEF WellFormed
<1> HIDE DEF s
<1>3. /\ r \in Seq(Entry(E)) /\ Len(r) = Len(s) - 1
      /\ \A i \in 1 .. Len(s) - 1 : r[i] = s[i + 1]
  BY <1>2, HeadTailProperties
<1>4. 1 \in 1 .. Len(s)
  BY <1>2, EmptySeq, LenProperties
<1> HIDE DEF r
<1>5. \A i \in 1 .. Len(s) - 1 : r[i] = IF i < 1 THEN s[i] ELSE s[i + 1]
  BY <1>3
<1>6. /\ InOrder(r)
      /\ Range(r) = Range(s) \ {s[1]}
  <2> DEFINE k == 1
             S == Entry(E)
  <2>1. s \in Seq(S) /\ r \in Seq(S) /\ k \in 1 .. Len(s) /\ IsWithout(r, s, k)
    BY <1>2, <1>3, <1>4, <1>5 DEF IsWithout
  <2> HIDE DEF k, S
  <2>2. /\ InOrder(r)
        /\ Range(r) = Range(s) \ {s[k]}
    BY <1>2, <2>1, DropFacts
  <2> QED BY <2>2 DEF k
<1>7. WellFormed(E, u)
  BY <1>1, <1>3, <1>6 DEF WellFormed
<1> QED BY <1>1, <1>6, <1>7 DEF s

LEMMA RemoveWellFormed ==
  ASSUME NEW E, NEW t, WellFormed(E, t), NEW e, ~ TimerRemoveThrows(t, e)
  PROVE  LET u == TimerRemove(t, e) IN
         /\ WellFormed(E, u)
         /\ Range(u.list)
              = {x \in Range(t.list) : x.event # e}
<1> DEFINE s == t.list
           k == CHOOSE i \in DOMAIN s : s[i].event = e
           r == RemoveAt(s, k)
           u == TimerRemove(t, e)
<1>1. u = IF k = 1 THEN [list |-> r, armed |-> MessageFor(r), busy |-> r # <<>>]
                   ELSE [list |-> r, armed |-> t.armed, busy |-> t.busy]
  BY DEF TimerRemove, WellFormed
<1>2. /\ s \in Seq(Entry(E)) /\ InOrder(s)
      /\ t.armed = MessageFor(s) /\ t.busy = (s # <<>>)
  BY DEF WellFormed
<1>3. k \in DOMAIN s /\ s[k].event = e
  BY DEF TimerRemoveThrows, Pending
<1> HIDE DEF s, k
<1>4. Len(s) \in Nat /\ DOMAIN s = 1 .. Len(s)
  BY <1>2, LenProperties
<1>5. /\ r \in Seq(Entry(E)) /\ Len(r) = Len(s) - 1
      /\ \A i \in 1 .. Len(s) - 1 : r[i] = IF i < k THEN s[i] ELSE s[i + 1]
  BY <1>2, <1>3, <1>4, RemoveAtFacts DEF IsWithout
<1> HIDE DEF r
<1>6. /\ InOrder(r)
      /\ Range(r) = Range(s) \ {s[k]}
  <2> DEFINE S == Entry(E)
  <2>1. s \in Seq(S) /\ r \in Seq(S) /\ k \in 1 .. Len(s) /\ IsWithout(r, s, k)
    BY <1>2, <1>3, <1>4, <1>5 DEF IsWithout
  <2> HIDE DEF S
  <2> QED BY <1>2, <2>1, DropFacts
<1>7. DOMAIN r = 1 .. Len(s) - 1
  BY <1>5, LenProperties
<1>8. k # 1 => MessageFor(r) = MessageFor(s) /\ s # <<>> /\ r # <<>>
  <2> SUFFICES ASSUME k # 1
               PROVE  MessageFor(r) = MessageFor(s) /\ s # <<>> /\ r # <<>>
    OBVIOUS
  <2>1. 1 \in 1 .. Len(s) - 1 /\ r[1] = s[1]
    BY <1>3, <1>4, <1>5
  <2>2. s # <<>> /\ r # <<>>
    BY <1>4, <1>5, <2>1, EmptySeq
  <2>3. Head(s) = s[1] /\ Head(r) = r[1]
    BY <1>2, <1>5, <2>2, HeadTailProperties
  <2> QED BY <2>1, <2>2, <2>3 DEF MessageFor
<1>9. WellFormed(E, u)
  <2>1. CASE k = 1
    BY <1>1, <1>5, <1>6, <2>1 DEF WellFormed
  <2>2. CASE k # 1
    BY <1>1, <1>2, <1>5, <1>6, <1>8, <2>2 DEF WellFormed
  <2> QED BY <2>1, <2>2
<1>10. \A i \in DOMAIN s : s[i].event = e <=> s[i] = s[k]
  BY <1>2, <1>3, <1>4 DEF InOrder
<1>11. Range(s) \ {s[k]} = {x \in Range(s) : x.event # e}
  BY <1>10 DEF Range
<1>12. u.list = r
  BY <1>1
<1> QED BY <1>6, <1>9, <1>11, <1>12 DEF s

\* Time passes while no message is due.
LEMMA AgedWellFormed ==
  ASSUME NEW E, NEW t, WellFormed(E, t)
  PROVE  /\ WellFormed(E, Aged(t))
         /\ DOMAIN Aged(t).list = DOMAIN t.list
         /\ \A i \in DOMAIN t.list : Aged(t).list[i] = OneTickLess(t.list[i])
<1> DEFINE s == t.list
           r == [i \in DOMAIN s |-> OneTickLess(s[i])]
           u == Aged(t)
<1>1. u = [list |-> r, armed |-> {OneTickLess(m) : m \in t.armed}, busy |-> t.busy]
  BY DEF Aged
<1>2. /\ s \in Seq(Entry(E)) /\ InOrder(s)
      /\ t.armed = MessageFor(s) /\ t.busy = (s # <<>>)
  BY DEF WellFormed
<1> HIDE DEF s
<1>3. Len(s) \in Nat /\ DOMAIN s = 1 .. Len(s)
  BY <1>2, LenProperties
<1>4. \A i \in 1 .. Len(s) : s[i] \in Entry(E)
  BY <1>2, ElementOfSeq
<1>5. \A x \in Entry(E) : /\ OneTickLess(x) \in Entry(E)
                              /\ OneTickLess(x).event = x.event
                              /\ OneTickLess(x).left = IF x.left > 0 THEN x.left - 1 ELSE 0
  BY DEF OneTickLess, Entry
<1>6. \A i \in 1 .. Len(s) : r[i] = OneTickLess(s[i])
  BY <1>3
<1>7. r \in [1 .. Len(s) -> Entry(E)]
  BY <1>3, <1>4, <1>5
<1>8. r \in Seq(Entry(E)) /\ Len(r) = Len(s) /\ DOMAIN r = 1 .. Len(s)
  BY <1>3, <1>7, SeqDef, LenProperties
<1> HIDE DEF r
<1>9. InOrder(r)
  <2> SUFFICES ASSUME NEW i \in 1 .. Len(s), NEW j \in 1 .. Len(s), i < j
               PROVE  r[i].left <= r[j].left /\ r[i].event # r[j].event
    BY <1>8 DEF InOrder
  <2>1. s[i].left <= s[j].left /\ s[i].event # s[j].event
    BY <1>2, <1>3 DEF InOrder
  <2>2. s[i].left \in Nat /\ s[j].left \in Nat
    BY <1>4 DEF Entry
  <2>3. /\ r[i].left = IF s[i].left > 0 THEN s[i].left - 1 ELSE 0
        /\ r[i].event = s[i].event
    BY <1>4, <1>5, <1>6
  <2>4. /\ r[j].left = IF s[j].left > 0 THEN s[j].left - 1 ELSE 0
        /\ r[j].event = s[j].event
    BY <1>4, <1>5, <1>6
  <2> QED BY <2>1, <2>2, <2>3, <2>4
<1>10. /\ {OneTickLess(m) : m \in MessageFor(s)} = MessageFor(r)
       /\ s = <<>> <=> r = <<>>
  <2>1. s = <<>> <=> r = <<>>
    BY <1>2, <1>8, EmptySeq
  <2>2. CASE s = <<>>
    BY <2>1, <2>2 DEF MessageFor
  <2>3. CASE s # <<>>
    <3>1. Head(s) = s[1] /\ Head(r) = r[1] /\ 1 \in 1 .. Len(s)
      BY <1>2, <1>3, <1>8, <2>1, <2>3, HeadTailProperties, EmptySeq
    <3> QED BY <1>6, <2>1, <2>3, <3>1 DEF MessageFor
  <2> QED BY <2>1, <2>2, <2>3
<1>11. WellFormed(E, u)
  BY <1>1, <1>2, <1>8, <1>9, <1>10 DEF WellFormed
<1> QED BY <1>1, <1>3, <1>6, <1>8, <1>11 DEF s

LEMMA WellFormedTimer ==
  ASSUME NEW E, NEW t, WellFormed(E, t)
  PROVE  t \in [list : Seq(Entry(E)), armed : SUBSET Entry(E), busy : BOOLEAN]
<1>1. t.list \in Seq(Entry(E)) /\ t.busy \in BOOLEAN
  BY DEF WellFormed
<1>2. t.armed \subseteq Entry(E)
  <2>1. CASE t.list = <<>>
    BY <2>1 DEF WellFormed, MessageFor
  <2>2. CASE t.list # <<>>
    BY <1>1, <2>2, HeadTailProperties DEF WellFormed, MessageFor
  <2> QED BY <2>1, <2>2
<1> QED BY <1>1, <1>2 DEF WellFormed

\* The message that is due is the one of the first entry, which has no time left.
LEMMA DueIsFirst ==
  ASSUME NEW E, NEW t, WellFormed(E, t), NEW m \in Due(t)
  PROVE  t.list # <<>> /\ m = Head(t.list) /\ m = t.list[1] /\ m.left = 0 /\ m.event \in E
<1>1. t.list # <<>> /\ m = Head(t.list) /\ m.left = 0
  BY DEF Due, WellFormed, MessageFor
<1>2. m \in Entry(E)
  BY <1>1, HeadTailProperties DEF WellFormed
<1> QED BY <1>1, <1>2 DEF Entry, WellFormed

\* An event has one entry, and its time is the time left for the event.
LEMMA TimeLeftFacts ==
  ASSUME NEW E, NEW t, WellFormed(E, t)
  PROVE  /\ TimeLeft(t) = [e \in Pending(t) |-> TimeLeft(t)[e]]
         /\ DOMAIN TimeLeft(t) = Pending(t)
         /\ \A x \in Range(t.list) : x.event \in Pending(t) /\ TimeLeft(t)[x.event] = x.left
         /\ \A e \in Pending(t) : \E x \in Range(t.list) : x.event = e
<1>1. Len(t.list) \in Nat /\ DOMAIN t.list = 1 .. Len(t.list)
  BY LenProperties DEF WellFormed
<1>2. \A i, j \in DOMAIN t.list : t.list[i].event = t.list[j].event => i = j
  BY <1>1 DEF WellFormed, InOrder
<1>3. ASSUME NEW i \in DOMAIN t.list
      PROVE  /\ t.list[i].event \in Pending(t)
             /\ TimeLeft(t)[t.list[i].event] = t.list[i].left
  <2>1. t.list[i].event \in Pending(t)
    BY DEF Pending
  <2>2. (CHOOSE j \in DOMAIN t.list : t.list[j].event = t.list[i].event) = i
    BY <1>2
  <2> QED BY <2>1, <2>2 DEF TimeLeft
<1>4. \A x \in Range(t.list) : x.event \in Pending(t) /\ TimeLeft(t)[x.event] = x.left
  BY <1>3 DEF Range
<1>5. \A e \in Pending(t) : \E x \in Range(t.list) : x.event = e
  BY DEF Range, Pending
<1>6. /\ TimeLeft(t) = [e \in Pending(t) |-> TimeLeft(t)[e]]
      /\ DOMAIN TimeLeft(t) = Pending(t)
  BY DEF TimeLeft
<1> QED BY <1>4, <1>5, <1>6

LEMMA AgedTyped ==
  ASSUME NEW E,
         NEW t \in [list : Seq(Entry(E)), armed : SUBSET Entry(E), busy : BOOLEAN]
  PROVE  Aged(t) \in [list : Seq(Entry(E)), armed : SUBSET Entry(E), busy : BOOLEAN]
<1> DEFINE r == [i \in DOMAIN t.list |-> OneTickLess(t.list[i])]
<1>1. \A x \in Entry(E) : OneTickLess(x) \in Entry(E)
  BY DEF OneTickLess, Entry
<1>2. Len(t.list) \in Nat /\ DOMAIN t.list = 1 .. Len(t.list)
  BY LenProperties
<1>3. \A i \in 1 .. Len(t.list) : t.list[i] \in Entry(E)
  BY ElementOfSeq
<1>4. r \in [1 .. Len(t.list) -> Entry(E)]
  BY <1>1, <1>2, <1>3
<1>5. r \in Seq(Entry(E))
  BY <1>2, <1>4, SeqDef
<1>6. {OneTickLess(m) : m \in t.armed} \subseteq Entry(E)
  BY <1>1
<1> QED BY <1>5, <1>6 DEF Aged

----------------------------------------------------------------------------
(* What the operations do to the times of the events.                      *)

LEMMA AddTimes ==
  ASSUME NEW E, NEW t, WellFormed(E, t), NEW e \in E, NEW time \in Nat, ~ TimerAddThrows(t, e)
  PROVE  LET u == TimerAdd(t, time, e) IN
         /\ WellFormed(E, u)
         /\ Pending(u) = Pending(t) \cup {e}
         /\ \A a \in Pending(u) : TimeLeft(u)[a] = IF a = e THEN time ELSE TimeLeft(t)[a]
<1> DEFINE u == TimerAdd(t, time, e)
           entry == [event |-> e, left |-> time]
<1>1. WellFormed(E, u) /\ Range(u.list) = Range(t.list) \cup {entry}
  BY AddWellFormed
<1>2. e \notin Pending(t)
  BY DEF TimerAddThrows
<1>3. entry.event = e /\ entry.left = time
  OBVIOUS
<1> HIDE DEF u, entry
<1>4. Pending(u) = Pending(t) \cup {e}
  BY <1>1, <1>3, TimeLeftFacts
<1>5. ASSUME NEW x \in Range(u.list)
      PROVE  TimeLeft(u)[x.event] = IF x.event = e THEN time ELSE TimeLeft(t)[x.event]
  <2>1. TimeLeft(u)[x.event] = x.left
    BY <1>1, TimeLeftFacts
  <2>2. x \in Range(t.list) => x.event # e /\ TimeLeft(t)[x.event] = x.left
    BY <1>2, TimeLeftFacts
  <2> QED BY <1>1, <1>3, <2>1, <2>2
<1>6. \A a \in Pending(u) : TimeLeft(u)[a] = IF a = e THEN time ELSE TimeLeft(t)[a]
  BY <1>1, <1>5, TimeLeftFacts
<1> QED BY <1>1, <1>4, <1>6 DEF u

\* The entries of u are those of t for other events than e.
EventDropped(t, u, e) ==
  \A x : x \in Range(u.list) <=> x \in Range(t.list) /\ x.event # e

\* Without the entry of an event, all other events keep their times.
LEMMA WithoutTimes ==
  ASSUME NEW E, NEW t, WellFormed(E, t), NEW u, WellFormed(E, u), NEW e,
         EventDropped(t, u, e)
  PROVE  /\ Pending(u) = Pending(t) \ {e}
         /\ \A a \in Pending(u) : TimeLeft(u)[a] = TimeLeft(t)[a]
  BY TimeLeftFacts DEF EventDropped

LEMMA RemoveTimes ==
  ASSUME NEW E, NEW t, WellFormed(E, t), NEW e, ~ TimerRemoveThrows(t, e)
  PROVE  LET u == TimerRemove(t, e) IN
         /\ WellFormed(E, u)
         /\ Pending(u) = Pending(t) \ {e}
         /\ \A a \in Pending(u) : TimeLeft(u)[a] = TimeLeft(t)[a]
<1> DEFINE u == TimerRemove(t, e)
<1>1. WellFormed(E, u) /\ EventDropped(t, u, e)
  BY RemoveWellFormed DEF EventDropped
<1> HIDE DEF u
<1>2. /\ Pending(u) = Pending(t) \ {e}
      /\ \A a \in Pending(u) : TimeLeft(u)[a] = TimeLeft(t)[a]
  BY <1>1, WithoutTimes
<1> QED BY <1>1, <1>2 DEF u

\* handle() drops the event of the message that was due.
LEMMA HandleTimes ==
  ASSUME NEW E, NEW t, WellFormed(E, t), NEW m \in Due(t)
  PROVE  LET u == TimerHandle(Fired(t, m)) IN
         /\ WellFormed(E, u)
         /\ ~ TimerHandleThrows(t)
         /\ m.event \in Pending(t) /\ m.event \in E /\ TimeLeft(t)[m.event] = 0
         /\ Pending(u) = Pending(t) \ {m.event}
         /\ \A a \in Pending(u) : TimeLeft(u)[a] = TimeLeft(t)[a]
<1> DEFINE u == TimerHandle(Fired(t, m))
<1>1. t.list # <<>> /\ m = Head(t.list) /\ m = t.list[1] /\ m.left = 0 /\ m.event \in E
  BY DueIsFirst
<1>2. WellFormed(E, u) /\ Range(u.list) = Range(t.list) \ {m}
  BY <1>1, HandleWellFormed
<1>3. m \in Range(t.list)
  <2>1. 1 \in DOMAIN t.list
    BY <1>1, EmptySeq, LenProperties DEF WellFormed
  <2> QED BY <1>1, <2>1 DEF Range
<1>4. \A x \in Range(t.list) : x.event = m.event <=> x = m
  <2>1. Len(t.list) \in Nat /\ DOMAIN t.list = 1 .. Len(t.list)
    BY LenProperties DEF WellFormed
  <2>2. \A i, j \in DOMAIN t.list : t.list[i].event = t.list[j].event => i = j
    BY <2>1 DEF WellFormed, InOrder
  <2> QED BY <1>3, <2>2 DEF Range
<1> HIDE DEF u
<1>5. EventDropped(t, u, m.event)
  BY <1>2, <1>4 DEF EventDropped
<1>6. /\ Pending(u) = Pending(t) \ {m.event}
      /\ \A a \in Pending(u) : TimeLeft(u)[a] = TimeLeft(t)[a]
  BY <1>2, <1>5, WithoutTimes
<1>7. m.event \in Pending(t) /\ TimeLeft(t)[m.event] = 0
  BY <1>1, <1>3, TimeLeftFacts
<1> QED BY <1>1, <1>2, <1>6, <1>7 DEF u, TimerHandleThrows

LEMMA AgedTimes ==
  ASSUME NEW E, NEW t, WellFormed(E, t), Due(t) = {}
  PROVE  LET u == Aged(t) IN
         /\ WellFormed(E, u)
         /\ Pending(u) = Pending(t)
         /\ \A a \in Pending(t) : /\ TimeLeft(t)[a] \in Nat /\ TimeLeft(t)[a] > 0
                                 /\ TimeLeft(u)[a] = TimeLeft(t)[a] - 1
<1> DEFINE u == Aged(t)
<1>1. /\ WellFormed(E, u)
      /\ DOMAIN u.list = DOMAIN t.list
      /\ \A i \in DOMAIN t.list : u.list[i] = OneTickLess(t.list[i])
  BY AgedWellFormed
<1>2. Len(t.list) \in Nat /\ DOMAIN t.list = 1 .. Len(t.list)
  BY LenProperties DEF WellFormed
<1>3. \A i \in DOMAIN t.list : t.list[i] \in Entry(E)
  BY <1>2, ElementOfSeq DEF WellFormed
<1>4. \A i \in DOMAIN t.list : t.list[i].left \in Nat /\ t.list[i].left > 0
  <2>1. SUFFICES ASSUME NEW i \in DOMAIN t.list
                 PROVE  t.list[i].left \in Nat /\ t.list[i].left > 0
    OBVIOUS
  <2>2. 1 \in DOMAIN t.list /\ t.list # <<>> /\ Head(t.list) = t.list[1]
    BY <1>2, EmptySeq, HeadTailProperties DEF WellFormed
  <2>3. t.list[1].left # 0
    BY <2>2 DEF Due, WellFormed, MessageFor
  <2>4. t.list[1].left \in Nat /\ t.list[i].left \in Nat
    BY <1>3, <2>2 DEF Entry
  <2>5. t.list[1].left <= t.list[i].left
    BY <1>2, <2>2, <2>4 DEF WellFormed, InOrder
  <2> QED BY <2>3, <2>4, <2>5
<1> HIDE DEF u
<1>5. \A i \in DOMAIN t.list : /\ u.list[i].event = t.list[i].event
                              /\ u.list[i].left = t.list[i].left - 1
  BY <1>1, <1>3, <1>4 DEF OneTickLess, Entry
<1>6. Pending(u) = Pending(t)
  BY <1>1, <1>5 DEF Pending
<1>7. \A a \in Pending(t) : /\ TimeLeft(t)[a] \in Nat /\ TimeLeft(t)[a] > 0
                           /\ TimeLeft(u)[a] = TimeLeft(t)[a] - 1
  <2> SUFFICES ASSUME NEW i \in DOMAIN t.list
               PROVE  LET a == t.list[i].event IN
                      /\ TimeLeft(t)[a] \in Nat /\ TimeLeft(t)[a] > 0
                      /\ TimeLeft(u)[a] = TimeLeft(t)[a] - 1
    BY DEF Pending
  <2>1. t.list[i] \in Range(t.list) /\ u.list[i] \in Range(u.list)
    BY <1>1 DEF Range
  <2>2. TimeLeft(t)[t.list[i].event] = t.list[i].left
    BY <2>1, TimeLeftFacts
  <2>3. TimeLeft(u)[u.list[i].event] = u.list[i].left
    BY <1>1, <2>1, TimeLeftFacts
  <2> QED BY <1>4, <1>5, <2>2, <2>3
<1> QED BY <1>1, <1>6, <1>7 DEF u
============================================================================
