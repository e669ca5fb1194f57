------------------------ MODULE LteEnbDownlinkProofs ------------------------
(***************************************************************************)
(* The proofs about the downlink of the eNodeB, for any UEs, connections,  *)
(* bands, block sizes, packet sizes and queue capacity: the virtual buffers*)
(* stay in step with the real ones, no backlogged connection leaves the    *)
(* active set, and a grant never needs more blocks than its band had.      *)
(***************************************************************************)
EXTENDS LteEnbDownlink, TLAPS, WellFoundedInduction, FiniteSetTheorems

(* Naturals and sums.                                                      *)

\* A set of naturals has a least element.
LEMMA LeastElement ==
  ASSUME NEW S \in SUBSET Nat, S # {}
  PROVE  \E x \in S : \A n \in S : x <= n
<1>1. PICK x \in S : \A y \in S : ~(<<y, x>> \in OpToRel(<, Nat))
  BY NatLessThanWellFounded, WFMin, Zenon
<1>2. ASSUME NEW y \in S PROVE x <= y
  <2>1. x \in Nat /\ y \in Nat
    OBVIOUS
  <2>2. ~(<<y, x>> \in OpToRel(<, Nat))
    BY <1>1
  <2>3. y < x => <<y, x>> \in {ss \in Nat \X Nat : ss[1] < ss[2]}
    BY <2>1
  <2> QED BY <2>1, <2>2, <2>3 DEF OpToRel
<1> QED BY <1>1, <1>2

\* Induction on a set of naturals.
LEMMA Induction ==
  ASSUME NEW S, 0 \in S, \A n \in Nat : n \in S => n + 1 \in S
  PROVE  Nat \subseteq S
<1> SUFFICES ASSUME Nat \ S # {} PROVE FALSE
  OBVIOUS
<1>1. PICK x \in Nat \ S : \A n \in Nat \ S : x <= n
  BY LeastElement
<1>2. x # 0 /\ x - 1 \in Nat /\ (x - 1) + 1 = x /\ ~(x <= x - 1)
  BY <1>1
<1>3. x - 1 \in S
  BY <1>1, <1>2
<1> QED BY <1>1, <1>2, <1>3

\* The element that a fold over a set takes first, and the function it applies.
Pick(s) == CHOOSE x \in s : TRUE

IsSum(sum, f, D) ==
  sum = [s \in D |-> IF s = {} THEN 0 ELSE f[Pick(s)] + sum[s \ {Pick(s)}]]

Agree(f, e, T) == \A x \in T : f[x] = e[x]

LEMMA SumOfFold ==
  ASSUME NEW f, NEW T
  PROVE  SumFunctionOnSet(f, T) = (CHOOSE sum : IsSum(sum, f, SUBSET T))[T]
BY DEF SumFunctionOnSet, FoldFunctionOnSet, MapThenFoldSet, IsSum, Pick

\* There is such a function: it is extended from the sets of at most n elements
\* to those of one more.
LEMMA SumExists ==
  ASSUME NEW f, NEW T, IsFiniteSet(T)
  PROVE  \E sum : IsSum(sum, f, SUBSET T)
<1> DEFINE Small(n) == {s \in SUBSET T : Cardinality(s) <= n}
           S == {n \in Nat : \E sum : IsSum(sum, f, Small(n))}
<1>1. \A s \in SUBSET T : IsFiniteSet(s) /\ Cardinality(s) \in Nat
                          /\ Cardinality(s) <= Cardinality(T)
  BY FS_Subset, FS_CardinalityType
<1>2. \A s \in SUBSET T : s # {} =>
        /\ Pick(s) \in s /\ s \ {Pick(s)} \in SUBSET T
        /\ Cardinality(s \ {Pick(s)}) = Cardinality(s) - 1
  BY <1>1, FS_RemoveElement DEF Pick
<1>3. 0 \in S
  <2>1. \A s \in Small(0) : s = {}
    BY <1>1, FS_EmptySet
  <2>2. IsSum([s \in Small(0) |-> 0], f, Small(0))
    BY <2>1 DEF IsSum
  <2> QED BY <2>2
<1>4. ASSUME NEW n \in Nat, n \in S PROVE n + 1 \in S
  <2>1. PICK h : IsSum(h, f, Small(n))
    BY <1>4
  <2> DEFINE k == [s \in Small(n + 1) |->
                     IF s = {} THEN 0 ELSE f[Pick(s)] + h[s \ {Pick(s)}]]
  <2>2. \A s \in Small(n) : s \in Small(n + 1)
    BY <1>1
  <2>3. \A s \in Small(n) : k[s] = h[s]
    BY <2>1, <2>2 DEF IsSum
  <2>4. \A s \in Small(n + 1) : s # {} => s \ {Pick(s)} \in Small(n)
    BY <1>1, <1>2
  <2>5. \A s \in Small(n + 1) : s # {} => k[s \ {Pick(s)}] = h[s \ {Pick(s)}]
    BY <2>3, <2>4
  <2> HIDE DEF Small
  <2>6. IsSum(k, f, Small(n + 1))
    BY <2>5 DEF IsSum
  <2> QED BY <2>6
<1>5. Cardinality(T) \in S
  <2> HIDE DEF S
  <2> QED BY <1>1, <1>3, <1>4, Induction, FS_CardinalityType
<1>6. Small(Cardinality(T)) = SUBSET T
  BY <1>1
<1> HIDE DEF Small
<1> QED BY <1>5, <1>6

\* The sum over a set depends on the elements of the set only.
LEMMA SumUnique ==
  ASSUME NEW f, NEW e, NEW D, NEW E, NEW h, NEW k, NEW T, IsFiniteSet(T),
         SUBSET T \subseteq D, SUBSET T \subseteq E,
         IsSum(h, f, D), IsSum(k, e, E), Agree(f, e, T)
  PROVE  h[T] = k[T]
<1> DEFINE S == {n \in Nat : \A s \in SUBSET T : Cardinality(s) = n => h[s] = k[s]}
<1>1. \A s \in SUBSET T : IsFiniteSet(s) /\ Cardinality(s) \in Nat
  BY FS_Subset, FS_CardinalityType
<1>2. \A s \in SUBSET T : s # {} =>
        /\ Pick(s) \in s /\ s \ {Pick(s)} \in SUBSET T
        /\ Cardinality(s \ {Pick(s)}) = Cardinality(s) - 1
  BY <1>1, FS_RemoveElement DEF Pick
<1>3. \A s \in SUBSET T :
        /\ h[s] = IF s = {} THEN 0 ELSE f[Pick(s)] + h[s \ {Pick(s)}]
        /\ k[s] = IF s = {} THEN 0 ELSE e[Pick(s)] + k[s \ {Pick(s)}]
  BY DEF IsSum
<1>4. 0 \in S
  BY <1>1, <1>3, FS_EmptySet
<1>5. ASSUME NEW n \in Nat, n \in S PROVE n + 1 \in S
  <2> SUFFICES ASSUME NEW s \in SUBSET T, Cardinality(s) = n + 1
               PROVE  h[s] = k[s]
    OBVIOUS
  <2>1. s # {}
    BY FS_EmptySet
  <2>2. /\ Pick(s) \in s /\ s \ {Pick(s)} \in SUBSET T
        /\ Cardinality(s \ {Pick(s)}) = n
    BY <1>2, <2>1
  <2>3. h[s \ {Pick(s)}] = k[s \ {Pick(s)}] /\ f[Pick(s)] = e[Pick(s)]
    BY <1>5, <2>2 DEF Agree
  <2> QED BY <1>3, <2>1, <2>3
<1> HIDE DEF S
<1>6. Cardinality(T) \in S
  BY <1>4, <1>5, Induction, FS_CardinalityType
<1> QED BY <1>6 DEF S

LEMMA SumIs ==
  ASSUME NEW f, NEW T, IsFiniteSet(T), NEW s \in SUBSET T, NEW sum,
         IsSum(sum, f, SUBSET T)
  PROVE  SumFunctionOnSet(f, s) = sum[s]
<1>1. IsFiniteSet(s)
  BY FS_Subset
<1> DEFINE h == CHOOSE h : IsSum(h, f, SUBSET s)
<1>2. IsSum(h, f, SUBSET s)
  BY <1>1, SumExists
<1>3. SumFunctionOnSet(f, s) = h[s]
  BY SumOfFold
<1> HIDE DEF h
<1>4. Agree(f, f, s)
  BY DEF Agree
<1> QED BY <1>1, <1>2, <1>3, <1>4, SumUnique

LEMMA SumCongruent ==
  ASSUME NEW f, NEW e, NEW T, IsFiniteSet(T), \A x \in T : f[x] = e[x]
  PROVE  SumFunctionOnSet(f, T) = SumFunctionOnSet(e, T)
<1>1. PICK h : IsSum(h, f, SUBSET T)
  BY SumExists
<1>2. PICK k : IsSum(k, e, SUBSET T)
  BY SumExists
<1>3. Agree(f, e, T)
  BY DEF Agree
<1>4. h[T] = k[T]
  BY <1>1, <1>2, <1>3, SumUnique
<1> QED BY <1>1, <1>2, <1>4, SumIs

LEMMA SumFirst ==
  ASSUME NEW f, NEW T, IsFiniteSet(T)
  PROVE  SumFunctionOnSet(f, T) =
           IF T = {} THEN 0
           ELSE f[Pick(T)] + SumFunctionOnSet(f, T \ {Pick(T)})
<1>1. PICK h : IsSum(h, f, SUBSET T)
  BY SumExists
<1>2. \A s \in SUBSET T : SumFunctionOnSet(f, s) = h[s]
  BY <1>1, SumIs
<1>3. h[T] = IF T = {} THEN 0 ELSE f[Pick(T)] + h[T \ {Pick(T)}]
  BY <1>1 DEF IsSum
<1> QED BY <1>2, <1>3

LEMMA SumNat ==
  ASSUME NEW f, NEW T, IsFiniteSet(T), \A x \in T : f[x] \in Nat
  PROVE  SumFunctionOnSet(f, T) \in Nat
<1> DEFINE Sum(s) == SumFunctionOnSet(f, s)
           S == {n \in Nat : \A s \in SUBSET T : Cardinality(s) = n => Sum(s) \in Nat}
<1>1. \A s \in SUBSET T : IsFiniteSet(s) /\ Cardinality(s) \in Nat
  BY FS_Subset, FS_CardinalityType
<1>2. \A s \in SUBSET T : s # {} =>
        /\ Pick(s) \in s /\ s \ {Pick(s)} \in SUBSET T
        /\ Cardinality(s \ {Pick(s)}) = Cardinality(s) - 1
  BY <1>1, FS_RemoveElement DEF Pick
<1>3. \A s \in SUBSET T :
        Sum(s) = IF s = {} THEN 0 ELSE f[Pick(s)] + Sum(s \ {Pick(s)})
  BY <1>1, SumFirst
<1> HIDE DEF Sum
<1>4. 0 \in S
  BY <1>1, <1>3, FS_EmptySet
<1>5. ASSUME NEW n \in Nat, n \in S PROVE n + 1 \in S
  <2> SUFFICES ASSUME NEW s \in SUBSET T, Cardinality(s) = n + 1
               PROVE  Sum(s) \in Nat
    OBVIOUS
  <2>1. s # {}
    BY FS_EmptySet
  <2>2. Pick(s) \in s /\ Sum(s \ {Pick(s)}) \in Nat
    BY <1>2, <1>5, <2>1
  <2>3. f[Pick(s)] \in Nat
    BY <2>2
  <2> QED BY <1>3, <2>1, <2>2, <2>3
<1> HIDE DEF S
<1>6. Cardinality(T) \in S
  BY <1>4, <1>5, Induction, FS_CardinalityType
<1> QED BY <1>6 DEF S, Sum

\* Any element can be taken out of the sum first.
LEMMA SumTake ==
  ASSUME NEW f, NEW T, IsFiniteSet(T), \A x \in T : f[x] \in Nat
  PROVE  \A x \in T : SumFunctionOnSet(f, T) = f[x] + SumFunctionOnSet(f, T \ {x})
<1> DEFINE Sum(s) == SumFunctionOnSet(f, s)
           Good(s) == \A x \in s : Sum(s) = f[x] + Sum(s \ {x})
           S == {n \in Nat : \A s \in SUBSET T : Cardinality(s) = n => Good(s)}
<1>1. \A s \in SUBSET T : IsFiniteSet(s) /\ Cardinality(s) \in Nat
  BY FS_Subset, FS_CardinalityType
<1>2. \A s \in SUBSET T : \A x \in s :
        s \ {x} \in SUBSET T /\ Cardinality(s \ {x}) = Cardinality(s) - 1
  BY <1>1, FS_RemoveElement
<1>3. \A s \in SUBSET T :
        Sum(s) = IF s = {} THEN 0 ELSE f[Pick(s)] + Sum(s \ {Pick(s)})
  BY <1>1, SumFirst
<1>a. \A s \in SUBSET T : Sum(s) \in Nat
  BY <1>1, SumNat
<1> HIDE DEF Sum
<1>4. 0 \in S
  BY <1>1, FS_EmptySet
<1>5. ASSUME NEW n \in Nat, n \in S PROVE n + 1 \in S
  <2> SUFFICES ASSUME NEW s \in SUBSET T, Cardinality(s) = n + 1
               PROVE  Good(s)
    OBVIOUS
  <2>1. s # {} /\ Pick(s) \in s
    BY FS_EmptySet DEF Pick
  <2> DEFINE y == Pick(s)
  <2>2. Sum(s) = f[y] + Sum(s \ {y})
    BY <1>3, <2>1
  <2> HIDE DEF y
  <2>3. y \in s
    BY <2>1 DEF y
  <2>4. s \ {y} \in SUBSET T /\ Good(s \ {y})
    BY <1>2, <1>5, <2>3
  <2>6. ASSUME NEW x \in s, x # y
        PROVE  Sum(s) = f[x] + Sum(s \ {x})
    <3>1. s \ {x} \in SUBSET T /\ Good(s \ {x}) /\ y \in s \ {x} /\ x \in s \ {y}
      BY <1>2, <1>5, <2>3, <2>6
    <3>2. (s \ {x}) \ {y} = (s \ {y}) \ {x}
      OBVIOUS
    <3> DEFINE rest == Sum((s \ {y}) \ {x})
    <3>3. Sum(s \ {x}) = f[y] + rest /\ Sum(s \ {y}) = f[x] + rest
      BY <2>4, <3>1, <3>2
    <3>4. f[x] \in Nat /\ f[y] \in Nat
      BY <2>3, <2>6
    <3>5. rest \in Nat
      BY <1>a
    <3> HIDE DEF rest
    <3> QED BY <2>2, <3>3, <3>4, <3>5
  <2> QED BY <2>2, <2>6
<1> HIDE DEF S, Good
<1>6. Cardinality(T) \in S
  BY <1>4, <1>5, Induction, FS_CardinalityType
<1> QED BY <1>6 DEF S, Good, Sum

\* The sum when one element is larger.
LEMMA SumRaised ==
  ASSUME NEW f, NEW e, NEW T, IsFiniteSet(T), NEW x \in T, NEW n \in Nat,
         \A y \in T : f[y] \in Nat, e[x] = f[x] + n, \A y \in T \ {x} : e[y] = f[y]
  PROVE  SumFunctionOnSet(f, T) \in Nat
         /\ SumFunctionOnSet(e, T) = SumFunctionOnSet(f, T) + n
<1> DEFINE rest == T \ {x}
<1>1. IsFiniteSet(rest)
  BY FS_Subset
<1>2. f[x] \in Nat /\ \A y \in rest : f[y] \in Nat /\ e[y] = f[y]
  OBVIOUS
<1>3. \A y \in T : e[y] \in Nat
  BY <1>2
<1>4. SumFunctionOnSet(f, rest) \in Nat
      /\ SumFunctionOnSet(e, rest) = SumFunctionOnSet(f, rest)
  BY <1>1, <1>2, SumNat, SumCongruent
<1>5. SumFunctionOnSet(f, T) = f[x] + SumFunctionOnSet(f, rest)
  BY SumTake
<1>6. SumFunctionOnSet(e, T) = e[x] + SumFunctionOnSet(e, rest)
  BY <1>3, SumTake
<1>7. SumFunctionOnSet(f, T) \in Nat
  BY <1>2, <1>4, <1>5
<1> QED BY <1>2, <1>4, <1>5, <1>6, <1>7

\* The sum of the first elements of a sequence, one element more.
LEMMA SumNext ==
  ASSUME NEW f, NEW n \in Nat, \A i \in 1 .. n + 1 : f[i] \in Nat
  PROVE  /\ SumFunctionOnSet(f, 1 .. n) \in Nat
         /\ SumFunctionOnSet(f, 1 .. n + 1) = SumFunctionOnSet(f, 1 .. n) + f[n + 1]
<1>1. IsFiniteSet(1 .. n) /\ IsFiniteSet(1 .. n + 1)
  BY FS_Interval
<1>2. (1 .. n + 1) \ {n + 1} = 1 .. n /\ n + 1 \in 1 .. n + 1
  OBVIOUS
<1>3. \A i \in 1 .. n : f[i] \in Nat
  OBVIOUS
<1>4. SumFunctionOnSet(f, 1 .. n) \in Nat
  BY <1>1, <1>3, SumNat
<1>5. SumFunctionOnSet(f, 1 .. n + 1) = f[n + 1] + SumFunctionOnSet(f, 1 .. n)
  BY <1>1, <1>2, SumTake
<1>6. f[n + 1] \in Nat
  BY <1>2
<1> QED BY <1>4, <1>5, <1>6

LEMMA SumNone ==
  ASSUME NEW f
  PROVE  SumFunctionOnSet(f, {}) = 0 /\ SumFunctionOnSet(f, 1 .. 0) = 0
<1>1. 1 .. 0 = {}
  OBVIOUS
<1> QED BY <1>1, SumFirst, FS_EmptySet

\* The sum of zeros.
LEMMA SumZero ==
  ASSUME NEW f, NEW T, IsFiniteSet(T), \A x \in T : f[x] = 0
  PROVE  SumFunctionOnSet(f, T) = 0
<1> DEFINE Sum(s) == SumFunctionOnSet(f, s)
           S == {n \in Nat : \A s \in SUBSET T : Cardinality(s) = n => Sum(s) = 0}
<1>1. \A s \in SUBSET T : IsFiniteSet(s) /\ Cardinality(s) \in Nat
  BY FS_Subset, FS_CardinalityType
<1>2. \A s \in SUBSET T : \A x \in s :
        s \ {x} \in SUBSET T /\ Cardinality(s \ {x}) = Cardinality(s) - 1
  BY <1>1, FS_RemoveElement
<1>3. \A s \in SUBSET T : \A x \in s : Sum(s) = f[x] + Sum(s \ {x})
  <2> SUFFICES ASSUME NEW s \in SUBSET T
               PROVE  \A x \in s : Sum(s) = f[x] + Sum(s \ {x})
    OBVIOUS
  <2>1. IsFiniteSet(s) /\ \A x \in s : f[x] \in Nat
    BY <1>1
  <2> QED BY <2>1, SumTake
<1>4. Sum({}) = 0
  BY SumNone
<1> HIDE DEF Sum
<1>5. 0 \in S
  BY <1>1, <1>4, FS_EmptySet
<1>6. ASSUME NEW n \in Nat, n \in S PROVE n + 1 \in S
  <2> SUFFICES ASSUME NEW s \in SUBSET T, Cardinality(s) = n + 1
               PROVE  Sum(s) = 0
    OBVIOUS
  <2>1. PICK x \in s : TRUE
    BY FS_EmptySet
  <2>2. Cardinality(s \ {x}) = n /\ s \ {x} \in SUBSET T
    BY <1>2
  <2>3. Sum(s \ {x}) = 0 /\ f[x] = 0
    BY <1>6, <2>2
  <2> QED BY <1>3, <2>3
<1> HIDE DEF S
<1>7. Cardinality(T) \in S
  BY <1>5, <1>6, Induction, FS_CardinalityType
<1> QED BY <1>7 DEF S, Sum

Shifted(f, e, n) == \A i \in 1 .. n : e[i] = f[i + 1]

\* The sum of a sequence is its first element and the sum of its tail.
LEMMA SumTail ==
  ASSUME NEW f, NEW e, NEW n \in Nat, \A i \in 1 .. n + 1 : f[i] \in Nat,
         Shifted(f, e, n)
  PROVE  SumFunctionOnSet(f, 1 .. n + 1) = f[1] + SumFunctionOnSet(e, 1 .. n)
<1> DEFINE Sum(h, k) == SumFunctionOnSet(h, 1 .. k)
           S == {k \in Nat : k <= n => Sum(f, k + 1) = f[1] + Sum(e, k)}
<1>1. f[1] \in Nat
  OBVIOUS
<1>2. 0 \in S
  <2>1. \A i \in 1 .. 0 + 1 : f[i] \in Nat
    BY <1>1
  <2>2. Sum(f, 0 + 1) = Sum(f, 0) + f[0 + 1]
    BY <2>1, SumNext
  <2> QED BY <1>1, <2>2, SumNone
<1>3. ASSUME NEW k \in Nat, k \in S PROVE k + 1 \in S
  <2> SUFFICES ASSUME k + 1 <= n
               PROVE  Sum(f, (k + 1) + 1) = f[1] + Sum(e, k + 1)
    OBVIOUS
  <2>1. \A i \in 1 .. (k + 1) + 1 : f[i] \in Nat
    OBVIOUS
  <2>2. \A i \in 1 .. k + 1 : e[i] \in Nat
    BY <2>1 DEF Shifted
  <2>3. Sum(f, (k + 1) + 1) = Sum(f, k + 1) + f[(k + 1) + 1]
    BY <2>1, SumNext
  <2>4. Sum(e, k) \in Nat /\ Sum(e, k + 1) = Sum(e, k) + e[k + 1]
    BY <2>2, SumNext
  <2>5. e[k + 1] = f[(k + 1) + 1] /\ e[k + 1] \in Nat
    BY <2>2 DEF Shifted
  <2>6. Sum(f, k + 1) = f[1] + Sum(e, k)
    BY <1>3
  <2> HIDE DEF Sum
  <2> QED BY <1>1, <2>3, <2>4, <2>5, <2>6
<1> HIDE DEF S
<1>4. n \in S
  BY <1>2, <1>3, Induction
<1> QED BY <1>4 DEF S

\* The bytes of the first packets of a queue.
LEMMA BytesOfFirst ==
  ASSUME NEW m \in Seq(Nat), NEW n \in 0 .. Len(m)
  PROVE  /\ Bytes(SubSeq(m, 1, n)) = SumFunctionOnSet(m, 1 .. n)
         /\ Bytes(SubSeq(m, 1, n)) \in Nat
<1> DEFINE s == SubSeq(m, 1, n)
<1>1. DOMAIN s = 1 .. n /\ \A i \in 1 .. n : s[i] = m[i] /\ m[i] \in Nat
  OBVIOUS
<1>2. IsFiniteSet(1 .. n)
  BY FS_Interval
<1> HIDE DEF s
<1>3. SumFunctionOnSet(s, 1 .. n) = SumFunctionOnSet(m, 1 .. n)
  <2>1. \A i \in 1 .. n : s[i] = m[i]
    BY <1>1
  <2> QED BY <1>2, <2>1, SumCongruent
<1>4. SumFunctionOnSet(m, 1 .. n) \in Nat
  <2>1. \A i \in 1 .. n : m[i] \in Nat
    BY <1>1
  <2> QED BY <1>2, <2>1, SumNat
<1>5. Bytes(s) = SumFunctionOnSet(s, 1 .. n)
  BY <1>1 DEF Bytes, SumFunction
<1> QED BY <1>3, <1>4, <1>5 DEF s

LEMMA BytesOfNext ==
  ASSUME NEW m \in Seq(Nat), NEW n \in Nat, n < Len(m)
  PROVE  /\ Bytes(SubSeq(m, 1, n + 1)) = Bytes(SubSeq(m, 1, n)) + m[n + 1]
         /\ Bytes(SubSeq(m, 1, n)) \in Nat /\ m[n + 1] \in Nat
         /\ Bytes(SubSeq(m, 1, 0)) = 0
<1>1. n \in 0 .. Len(m) /\ n + 1 \in 0 .. Len(m) /\ 0 \in 0 .. Len(m)
  OBVIOUS
<1>2. \A i \in 1 .. n + 1 : m[i] \in Nat
  OBVIOUS
<1>3. m[n + 1] \in Nat
  BY <1>2
<1> QED BY <1>1, <1>2, <1>3, BytesOfFirst, SumNext, SumNone

----------------------------------------------------------------------------
(* The AMC and the allocator.                                              *)

LEMMA BlocksPerBandNat == BlocksPerBand \in Nat
BY BandAssumption DEF BlocksPerBand

LEMMA BytesNat ==
  ASSUME NEW u \in Ue, NEW n \in 0 .. BlocksPerBand
  PROVE  ComputeBytesOnNRbs(u, n) \in Nat
<1>1. Tbs[u] \in Seq(Nat) /\ BlocksPerBand <= Len(Tbs[u])
  BY TbsAssumption
<1>2. n # 0 => n \in 1 .. Len(Tbs[u])
  BY <1>1, BlocksPerBandNat
<1> QED BY <1>1, <1>2 DEF ComputeBytesOnNRbs

\* The blocks that some bytes need carry them, and are at most any number of
\* blocks of a band that do.
LEMMA ReqRbs ==
  ASSUME NEW u \in Ue, NEW bytes \in Nat
  PROVE  /\ ComputeReqRbs(u, bytes) \in Nat
         /\ \A n \in 0 .. BlocksPerBand :
              bytes <= ComputeBytesOnNRbs(u, n) =>
                /\ ComputeReqRbs(u, bytes) <= n
                /\ bytes <= ComputeBytesOnNRbs(u, ComputeReqRbs(u, bytes))
<1> DEFINE t == Tbs[u]
           Enough(n) == n <= Len(t) => t[n] >= bytes
           r == ComputeReqRbs(u, bytes)
<1>1. /\ t \in Seq(Nat) /\ Len(t) \in Nat /\ BlocksPerBand <= Len(t)
      /\ DOMAIN t = 1 .. Len(t)
  BY TbsAssumption
<1>2. CASE bytes = 0
  BY <1>2, BlocksPerBandNat DEF ComputeReqRbs, ComputeBytesOnNRbs
<1>3. CASE bytes # 0
  <2> DEFINE S == {n \in 1 .. Len(t) + 1 : Enough(n)}
             P(n) == Enough(n) /\ \A m \in 1 .. n - 1 : t[m] < bytes
  <2>1. S \in SUBSET Nat /\ Len(t) + 1 \in S
    BY <1>1
  <2>2. PICK x \in S : \A n \in S : x <= n
    BY <2>1, LeastElement
  <2>3. ASSUME NEW m \in 1 .. x - 1 PROVE t[m] < bytes
    <3>1. m \in 1 .. Len(t) /\ ~(x <= m) /\ t[m] \in Nat
      BY <1>1, <2>1, <2>2
    <3> QED BY <2>2, <3>1
  <2>4. x \in 1 .. Len(t) + 1 /\ P(x)
    BY <2>2, <2>3
  <2>5. r = CHOOSE n \in 1 .. Len(t) + 1 : P(n)
    BY <1>3 DEF ComputeReqRbs
  <2> HIDE DEF r, P
  <2>6. r \in 1 .. Len(t) + 1 /\ P(r)
    BY <2>4, <2>5
  <2>7. ASSUME NEW n \in 0 .. BlocksPerBand, bytes <= ComputeBytesOnNRbs(u, n)
        PROVE  r <= n /\ bytes <= ComputeBytesOnNRbs(u, r)
    <3>1. n # 0 /\ bytes <= t[n]
      BY <1>3, <2>7 DEF ComputeBytesOnNRbs
    <3>2. n \in 1 .. Len(t) /\ t[n] \in Nat
      BY <1>1, <3>1, BlocksPerBandNat
    <3>3. r > n => n \in 1 .. r - 1
      BY <3>2, <2>6
    <3>4. r <= n
      BY <2>6, <3>1, <3>2, <3>3 DEF P
    <3>5. r # 0 /\ r <= Len(t)
      BY <1>1, <2>6, <3>2, <3>4
    <3>6. bytes <= t[r]
      <4>1. t[r] \in Nat
        BY <1>1, <2>6, <3>5
      <4> QED BY <2>6, <3>5, <4>1 DEF P
    <3> QED BY <3>4, <3>5, <3>6 DEF ComputeBytesOnNRbs
  <2>8. r \in Nat
    BY <1>1, <2>6
  <2> QED BY <2>7, <2>8 DEF r
<1> QED BY <1>2, <1>3

LEMMA AvailableInBand ==
  ASSUME NEW a \in Allocation, NEW b \in Band
  PROVE  AvailableBlocks(a, b) \in 0 .. BlocksPerBand
BY BlocksPerBandNat DEF AvailableBlocks, Allocation

\* addBlocks() touches one band.
LEMMA AddBlocksKeeps ==
  ASSUME NEW a \in Allocation, NEW u \in Ue, NEW b \in Band,
         NEW n \in Nat, NEW bytes \in Nat
  PROVE  /\ AddBlocks(a, u, b, n, bytes) \in Allocation
         /\ \A d \in Band \ {b} :
              AvailableBlocks(AddBlocks(a, u, b, n, bytes), d) = AvailableBlocks(a, d)
<1> DEFINE s == AddBlocks(a, u, b, n, bytes)
<1>1. CASE AddBlocksFails(a, b, n, bytes)
  BY <1>1 DEF AddBlocks
<1>2. CASE ~AddBlocksFails(a, b, n, bytes)
  <2>1. s = [taken  |-> [a.taken EXCEPT ![b] = @ + n],
             blocks |-> [a.blocks EXCEPT ![u][b] = @ + n],
             bytes  |-> [a.bytes EXCEPT ![u][b] = @ + bytes]]
    BY <1>2 DEF AddBlocks, Allocation
  <2>2. /\ a.taken \in [Band -> Nat]
        /\ a.blocks \in [Ue -> [Band -> Nat]]
        /\ a.bytes \in [Ue -> [Band -> Nat]]
    BY DEF Allocation
  <2>3. [a.taken EXCEPT ![b] = @ + n] \in [Band -> Nat]
    BY <2>2
  <2>4. [a.blocks EXCEPT ![u][b] = @ + n] \in [Ue -> [Band -> Nat]]
    BY <2>2
  <2>5. [a.bytes EXCEPT ![u][b] = @ + bytes] \in [Ue -> [Band -> Nat]]
    BY <2>2
  <2>6. s \in Allocation
    BY <2>1, <2>3, <2>4, <2>5 DEF Allocation
  <2>7. \A d \in Band \ {b} : s.taken[d] = a.taken[d]
    BY <2>1, <2>2
  <2> QED BY <2>6, <2>7 DEF AvailableBlocks
<1> QED BY <1>1, <1>2

LEMMA AllocatedType ==
  ASSUME NEW taken \in [Band -> Nat]
  PROVE  Allocated(taken) \in Allocation
BY DEF Allocated, Allocation

\* RemoveAt of the community modules.
LEMMA RemoveAtKeeps ==
  ASSUME NEW S, NEW s \in Seq(S), NEW i \in 1 .. Len(s)
  PROVE  /\ RemoveAt(s, i) \in Seq(S)
         /\ \A j \in DOMAIN RemoveAt(s, i) :
              \E k \in DOMAIN s : RemoveAt(s, i)[j] = s[k]
<1> DEFINE a == SubSeq(s, 1, i - 1)
           b == SubSeq(s, i + 1, Len(s))
<1>1. /\ a \in Seq(S) /\ Len(a) = i - 1
      /\ \A j \in 1 .. i - 1 : a[j] = s[j]
  OBVIOUS
<1>2. /\ b \in Seq(S) /\ Len(b) = Len(s) - i
      /\ \A j \in 1 .. Len(s) - i : b[j] = s[i + j]
  OBVIOUS
<1>3. RemoveAt(s, i) = a \o b
  BY DEF RemoveAt
<1> HIDE DEF a, b
<1>4. a \o b \in Seq(S) /\ Len(a \o b) = Len(s) - 1
  BY <1>1, <1>2
<1>5. ASSUME NEW j \in 1 .. Len(s) - 1
      PROVE  \E k \in DOMAIN s : (a \o b)[j] = s[k]
  <2>1. /\ Len(s) \in Nat /\ i \in Nat /\ j \in Nat /\ i <= Len(s)
        /\ 1 <= j /\ j <= Len(s) - 1 /\ DOMAIN s = 1 .. Len(s)
    OBVIOUS
  <2>2. CASE j <= i - 1
    <3>1. (a \o b)[j] = a[j]
      BY <2>1, <2>2, <1>1, <1>2
    <3>2. a[j] = s[j] /\ j \in DOMAIN s
      BY <2>1, <2>2, <1>1
    <3> QED BY <3>1, <3>2
  <2>3. CASE j > i - 1
    <3>1. (a \o b)[j] = b[j - (i - 1)] /\ j - (i - 1) \in 1 .. Len(s) - i
      BY <2>1, <2>3, <1>1, <1>2
    <3>2. b[j - (i - 1)] = s[j + 1] /\ j + 1 \in DOMAIN s
      BY <2>1, <3>1, <1>2
    <3> QED BY <3>1, <3>2
  <2>4. j <= i - 1 \/ j > i - 1
    BY <2>1
  <2> QED BY <2>2, <2>3, <2>4
<1> QED BY <1>3, <1>4, <1>5
----------------------------------------------------------------------------
(* The booked bytes and the noted blocks.                                  *)

\* The bytes of some booked requests.
Sizes(q) == [i \in DOMAIN q |-> q[i].bytes]
Total(q) == SumFunction(Sizes(q))

LEMMA BookedTotal == TotalBooked = Total(g.booked)
BY DEF TotalBooked, Total, Sizes

LEMMA TotalIs ==
  ASSUME NEW q \in Seq(Request)
  PROVE  /\ Total(q) = SumFunctionOnSet(Sizes(q), 1 .. Len(q))
         /\ Total(q) \in Nat
         /\ \A i \in 1 .. Len(q) : Sizes(q)[i] = q[i].bytes /\ q[i].bytes \in Nat
         /\ q = <<>> => Total(q) = 0
<1>1. DOMAIN Sizes(q) = 1 .. Len(q)
  BY DEF Sizes
<1>2. \A i \in 1 .. Len(q) : Sizes(q)[i] = q[i].bytes /\ q[i].bytes \in Nat
  <2>1. \A i \in 1 .. Len(q) : q[i] \in Request /\ i \in DOMAIN q
    OBVIOUS
  <2>2. \A x \in Request : x.bytes \in Nat
    BY DEF Request
  <2> QED BY <2>1, <2>2 DEF Sizes
<1>3. Total(q) = SumFunctionOnSet(Sizes(q), 1 .. Len(q))
  BY <1>1 DEF Total, SumFunction
<1>4. IsFiniteSet(1 .. Len(q))
  BY FS_Interval
<1>5. \A i \in 1 .. Len(q) : Sizes(q)[i] \in Nat
  BY <1>2
<1>6. Total(q) \in Nat
  BY <1>3, <1>4, <1>5, SumNat
<1>7. q = <<>> => Total(q) = 0
  BY <1>3, SumNone
<1> QED BY <1>2, <1>3, <1>6, <1>7

LEMMA TotalAppend ==
  ASSUME NEW q \in Seq(Request), NEW r \in Request
  PROVE  /\ Append(q, r) \in Seq(Request) /\ Len(Append(q, r)) = Len(q) + 1
         /\ Total(Append(q, r)) = Total(q) + r.bytes
<1> DEFINE p == Append(q, r)
           n == Len(q)
<1>1. p \in Seq(Request) /\ Len(p) = n + 1 /\ n \in Nat
  OBVIOUS
<1>2. p[n + 1] = r /\ \A i \in 1 .. n : p[i] = q[i]
  OBVIOUS
<1> HIDE DEF p, n
<1>3. /\ Total(p) = SumFunctionOnSet(Sizes(p), 1 .. n + 1)
      /\ \A i \in 1 .. n + 1 : Sizes(p)[i] = p[i].bytes /\ p[i].bytes \in Nat
  BY <1>1, TotalIs
<1>4. /\ Total(q) = SumFunctionOnSet(Sizes(q), 1 .. n)
      /\ \A i \in 1 .. n : Sizes(q)[i] = q[i].bytes
  BY TotalIs DEF n
<1>5. \A i \in 1 .. n : Sizes(p)[i] = Sizes(q)[i]
  <2>1. \A i \in 1 .. n : i \in 1 .. n + 1
    BY <1>1
  <2> QED BY <1>2, <1>3, <1>4, <2>1
<1>6. SumFunctionOnSet(Sizes(p), 1 .. n) = SumFunctionOnSet(Sizes(q), 1 .. n)
  <2>1. IsFiniteSet(1 .. n)
    BY <1>1, FS_Interval
  <2> QED BY <1>5, <2>1, SumCongruent
<1>7. \A i \in 1 .. n + 1 : Sizes(p)[i] \in Nat
  BY <1>3
<1>8. SumFunctionOnSet(Sizes(p), 1 .. n + 1)
        = SumFunctionOnSet(Sizes(p), 1 .. n) + Sizes(p)[n + 1]
  BY <1>1, <1>7, SumNext
<1>9. Sizes(p)[n + 1] = r.bytes
  BY <1>1, <1>2, <1>3
<1> QED BY <1>1, <1>3, <1>4, <1>6, <1>8, <1>9 DEF p, n

\* The request at the head, whose bytes are used up, is removed.
LEMMA TotalRemove ==
  ASSUME NEW q \in Seq(Request), q # <<>>
  PROVE  /\ RemoveAt(q, 1) \in Seq(Request) /\ Len(RemoveAt(q, 1)) = Len(q) - 1
         /\ Total(q) = q[1].bytes + Total(RemoveAt(q, 1))
         /\ q[1].bytes \in Nat
<1> DEFINE p == RemoveAt(q, 1)
           n == Len(q) - 1
<1>1. n \in Nat /\ Len(q) = n + 1 /\ 1 \in 1 .. Len(q)
  OBVIOUS
<1>2. p = <<>> \o SubSeq(q, 2, Len(q))
  <2>1. SubSeq(q, 1, 1 - 1) = <<>> /\ 1 + 1 = 2
    OBVIOUS
  <2> QED BY <2>1 DEF RemoveAt
<1>3. p = SubSeq(q, 2, Len(q))
  BY <1>2
<1>4. p \in Seq(Request) /\ Len(p) = n /\ \A i \in 1 .. n : p[i] = q[i + 1]
  <2>1. SubSeq(q, 2, Len(q)) \in Seq(Request) /\ Len(SubSeq(q, 2, Len(q))) = Len(q) - 1
    BY <1>1
  <2>2. \A i \in 1 .. Len(q) - 1 : SubSeq(q, 2, Len(q))[i] = q[i + 1]
    BY <1>1
  <2> QED BY <1>3, <2>1, <2>2
<1> HIDE DEF p, n
<1>5. /\ Total(q) = SumFunctionOnSet(Sizes(q), 1 .. n + 1)
      /\ \A i \in 1 .. n + 1 : Sizes(q)[i] = q[i].bytes /\ q[i].bytes \in Nat
  BY <1>1, TotalIs
<1>6. /\ Total(p) = SumFunctionOnSet(Sizes(p), 1 .. n)
      /\ \A i \in 1 .. n : Sizes(p)[i] = p[i].bytes
  BY <1>4, TotalIs
<1>7. Shifted(Sizes(q), Sizes(p), n)
  <2>1. \A i \in 1 .. n : i + 1 \in 1 .. n + 1
    BY <1>1
  <2> QED BY <1>4, <1>5, <1>6, <2>1 DEF Shifted
<1>8. \A i \in 1 .. n + 1 : Sizes(q)[i] \in Nat
  BY <1>5
<1>9. Total(q) = Sizes(q)[1] + Total(p)
  BY <1>1, <1>5, <1>6, <1>7, <1>8, SumTail
<1>10. Sizes(q)[1] = q[1].bytes /\ q[1].bytes \in Nat
  BY <1>1, <1>5
<1> QED BY <1>1, <1>4, <1>9, <1>10 DEF p, n

\* What addBlocks() notes.
LEMMA AddBlocksNotes ==
  ASSUME NEW a \in Allocation, NEW u \in Ue, NEW b \in Band,
         NEW n \in Nat, NEW bytes \in Nat
  PROVE  LET s == AddBlocks(a, u, b, n, bytes)
         IN  /\ AddBlocksFails(a, b, n, bytes) => s = a
             /\ \A v \in Ue, d \in Band : v # u \/ d # b =>
                  s.blocks[v][d] = a.blocks[v][d] /\ a.taken[d] <= s.taken[d]
             /\ ~AddBlocksFails(a, b, n, bytes) =>
                  /\ s.blocks[u][b] = a.blocks[u][b] + n
                  /\ s.taken[b] = a.taken[b] + n
                  /\ n <= AvailableBlocks(a, b)
<1> DEFINE s == AddBlocks(a, u, b, n, bytes)
<1>1. /\ a.taken \in [Band -> Nat] /\ a.blocks \in [Ue -> [Band -> Nat]]
  BY DEF Allocation
<1>2. CASE AddBlocksFails(a, b, n, bytes)
  <2>1. s = a
    BY <1>2 DEF AddBlocks
  <2>2. \A d \in Band : a.taken[d] <= a.taken[d]
    BY <1>1
  <2> QED BY <1>2, <2>1, <2>2
<1>3. CASE ~AddBlocksFails(a, b, n, bytes)
  <2>1. /\ s.taken = [a.taken EXCEPT ![b] = @ + n]
        /\ s.blocks = [a.blocks EXCEPT ![u][b] = @ + n]
    BY <1>3 DEF AddBlocks, Allocation
  <2>2. s.taken[b] = a.taken[b] + n /\ \A d \in Band : d # b => s.taken[d] = a.taken[d]
    BY <1>1, <2>1
  <2>3. \A d \in Band : a.taken[d] <= s.taken[d]
    BY <1>1, <2>2
  <2>4. s.blocks[u][b] = a.blocks[u][b] + n
    BY <1>1, <2>1
  <2>5. \A v \in Ue, d \in Band : v # u \/ d # b => s.blocks[v][d] = a.blocks[v][d]
    BY <1>1, <2>1
  <2>6. n <= AvailableBlocks(a, b)
    BY <1>3, AvailableInBand, BlocksPerBandNat DEF AddBlocksFails
  <2> QED BY <1>3, <2>2, <2>3, <2>4, <2>5, <2>6
<1> QED BY <1>2, <1>3

\* The blocks noted for a UE stay blocks its band has.
LEMMA AddBlocksBounded ==
  ASSUME NEW a \in Allocation, NEW u \in Ue, NEW b \in Band,
         NEW n \in Nat, NEW bytes \in Nat,
         \A v \in Ue, d \in Band :
           a.blocks[v][d] <= a.taken[d] /\ a.blocks[v][d] <= BlocksPerBand
  PROVE  \A v \in Ue, d \in Band :
           LET s == AddBlocks(a, u, b, n, bytes)
           IN  s.blocks[v][d] <= s.taken[d] /\ s.blocks[v][d] <= BlocksPerBand
<1> DEFINE s == AddBlocks(a, u, b, n, bytes)
<1> SUFFICES ASSUME NEW v \in Ue, NEW d \in Band
             PROVE  s.blocks[v][d] <= s.taken[d] /\ s.blocks[v][d] <= BlocksPerBand
  OBVIOUS
<1>1. /\ s \in Allocation
      /\ AddBlocksFails(a, b, n, bytes) => s = a
      /\ \A w \in Ue, e \in Band : w # u \/ e # b =>
           s.blocks[w][e] = a.blocks[w][e] /\ a.taken[e] <= s.taken[e]
      /\ ~AddBlocksFails(a, b, n, bytes) =>
           /\ s.blocks[u][b] = a.blocks[u][b] + n
           /\ s.taken[b] = a.taken[b] + n
           /\ n <= AvailableBlocks(a, b)
  BY AddBlocksKeeps, AddBlocksNotes
<1> HIDE DEF s
<1>2. /\ a.blocks[v][d] \in Nat /\ a.taken[d] \in Nat
      /\ s.blocks[v][d] \in Nat /\ s.taken[d] \in Nat
  BY <1>1 DEF Allocation
<1>3. CASE AddBlocksFails(a, b, n, bytes)
  BY <1>1, <1>3
<1>4. CASE v # u \/ d # b
  <2>1. s.blocks[v][d] = a.blocks[v][d] /\ a.taken[d] <= s.taken[d]
    BY <1>1, <1>4
  <2>2. a.blocks[v][d] <= a.taken[d] /\ a.blocks[v][d] <= BlocksPerBand
    OBVIOUS
  <2> QED BY <1>2, <2>1, <2>2
<1>5. CASE v = u /\ d = b /\ ~AddBlocksFails(a, b, n, bytes)
  <2>1. /\ s.blocks[v][d] = a.blocks[v][d] + n /\ s.taken[d] = a.taken[d] + n
        /\ n <= AvailableBlocks(a, d)
    BY <1>1, <1>5
  <2>2. a.blocks[v][d] <= a.taken[d] /\ a.blocks[v][d] <= BlocksPerBand
    OBVIOUS
  <2>3. n = 0 \/ a.taken[d] + n <= BlocksPerBand
    BY <1>2, <2>1, BlocksPerBandNat DEF AvailableBlocks
  <2> QED BY <1>2, <2>1, <2>2, <2>3, BlocksPerBandNat
<1> QED BY <1>3, <1>4, <1>5

\* Blocks of one more band carry what they carry there besides.
LEMMA CarriedMore ==
  ASSUME NEW u \in Ue, NEW x \in [Band -> Nat], NEW y \in [Band -> Nat],
         NEW b \in Band, x[b] = 0, \A d \in Band \ {b} : y[d] = x[d],
         \A d \in Band : x[d] <= BlocksPerBand /\ y[d] <= BlocksPerBand
  PROVE  /\ SumFunction([d \in Band |-> ComputeBytesOnNRbs(u, x[d])]) \in Nat
         /\ ComputeBytesOnNRbs(u, y[b]) \in Nat
         /\ SumFunction([d \in Band |-> ComputeBytesOnNRbs(u, y[d])])
              = SumFunction([d \in Band |-> ComputeBytesOnNRbs(u, x[d])])
                + ComputeBytesOnNRbs(u, y[b])
<1> DEFINE f == [d \in Band |-> ComputeBytesOnNRbs(u, x[d])]
           e == [d \in Band |-> ComputeBytesOnNRbs(u, y[d])]
<1>1. \A d \in Band : x[d] \in 0 .. BlocksPerBand /\ y[d] \in 0 .. BlocksPerBand
  BY BlocksPerBandNat
<1>2. \A d \in Band : f[d] \in Nat /\ e[d] \in Nat
  BY <1>1, BytesNat
<1>3. f[b] = 0 /\ e[b] = ComputeBytesOnNRbs(u, y[b])
  BY DEF ComputeBytesOnNRbs
<1>4. \A d \in Band \ {b} : f[d] = e[d]
  OBVIOUS
<1>5. SumFunction(f) = SumFunctionOnSet(f, Band) /\ SumFunction(e) = SumFunctionOnSet(e, Band)
  BY DEF SumFunction
<1> HIDE DEF f, e
<1>6. IsFiniteSet(Band) /\ IsFiniteSet(Band \ {b})
  <2>1. NumBands \in Int /\ 1 \in Int
    BY BandAssumption
  <2>2. IsFiniteSet(Band)
    BY <2>1, FS_Interval DEF Band
  <2> QED BY <2>2, FS_Subset
<1>7. \A d \in Band \ {b} : f[d] \in Nat
  BY <1>2
<1>8. SumFunctionOnSet(f, Band \ {b}) = SumFunctionOnSet(e, Band \ {b})
      /\ SumFunctionOnSet(f, Band \ {b}) \in Nat
  BY <1>4, <1>6, <1>7, SumCongruent, SumNat
<1>9. /\ SumFunctionOnSet(f, Band) = f[b] + SumFunctionOnSet(f, Band \ {b})
      /\ SumFunctionOnSet(e, Band) = e[b] + SumFunctionOnSet(e, Band \ {b})
  BY <1>2, <1>6, SumTake
<1>10. SumFunction(f) \in Nat /\ e[b] \in Nat /\ SumFunction(e) = SumFunction(f) + e[b]
  BY <1>2, <1>3, <1>5, <1>8, <1>9
<1> QED BY <1>3, <1>10 DEF f, e
----------------------------------------------------------------------------
(* What the steps share.                                                   *)

\* A grant is to a connection on the score list, of a UE of the cell.
LEMMA GrantTop ==
  ASSUME TypeOK, top # NoCid
  PROVE  top \in candidates /\ top \in temp /\ top \in Cid /\ Owner[top] \in Ue
<1>1. top \in candidates
  BY DEF TypeOK, TopOf
<1> QED BY <1>1, DownlinkAssumption DEF TypeOK

LEMMA AnyTop ==
  ASSUME NEW set, NEW t \in TopOf(set)
  PROVE  t # NoCid => t \in set
BY DEF TopOf

LEMMA NewGrantType == NewGrant \in Grant
BY BandAssumption DEF NewGrant, Grant

\* The fields of a grant.
LEMMA GrantFields ==
  ASSUME NEW x \in Grant
  PROVE  /\ NumBands \in Nat /\ x.band \in 1 .. NumBands + 1 /\ x.band \in Nat
         /\ x.bytes \in Nat /\ x.blocks \in Nat /\ x.allocated \in Nat
         /\ x.cwBytes \in Nat /\ x.items \in Nat /\ x.firstSdu \in BOOLEAN
         /\ x.booked \in Seq(Request) /\ Len(x.booked) \in Nat
         /\ DOMAIN x.booked = 1 .. Len(x.booked)
         /\ x.li \in Nat \ {0} /\ x.toServe \in Nat /\ x.used \in Nat
         /\ x.stop \in BOOLEAN /\ x.active \in BOOLEAN
<1>1. x.booked \in Seq(Request)
  BY DEF Grant
<1> QED BY <1>1, BandAssumption DEF Grant

\* The bands booked by a grant.
LEMMA BookedFields ==
  ASSUME NEW x \in Grant, NEW i \in DOMAIN x.booked
  PROVE  /\ x.booked[i] \in Request
         /\ x.booked[i].band \in Band /\ x.booked[i].band \in Nat
         /\ x.booked[i].bytes \in Nat /\ x.booked[i].blocks \in Nat
<1>1. x.booked[i] \in Request
  BY GrantFields
<1> QED BY <1>1 DEF Request, Band

\* A step that takes no packet from a queue and consumes none.
LEMMA QueuesKept ==
  ASSUME QueuesInStep, pc # "error",
         UNCHANGED <<mbuf, vbuf, rejected>>,
         \A c \in Cid : Consumed(c)' = Consumed(c)
  PROVE  QueuesInStep'
BY DEF QueuesInStep

----------------------------------------------------------------------------
(* The steps.                                                              *)

LEMMA InitBufferInv == Init => BufferInv
<1> SUFFICES ASSUME Init PROVE BufferInv
  OBVIOUS
<1> USE DEF Init
<1>1. TypeOK
  <2>1. [b \in Band |-> 0] \in [Band -> Nat]
    OBVIOUS
  <2>2. /\ mbuf \in [Cid -> Seq(SduSize)] /\ vbuf \in [Cid -> Seq(SduSize)]
        /\ scheduleList \in [Cid -> Nat]
    OBVIOUS
  <2> QED BY <2>1, <2>2, AllocatedType, NewGrantType DEF TypeOK, TopOf
<1>2. QueuesInStep
  BY DEF QueuesInStep, Consumed, NewGrant
<1>3. ActiveFollows
  BY DEF ActiveFollows, Backlogged
<1>4. ItemsHaveBytes
  BY DEF ItemsHaveBytes, NewGrant
<1>5. BandFits
  BY DEF BandFits
<1> QED BY <1>1, <1>2, <1>3, <1>4, <1>5 DEF BufferInv

\* A packet appended to both queues leaves them in step.
LEMMA AppendedInStep ==
  ASSUME NEW m \in Seq(SduSize), NEW v \in Seq(SduSize), NEW n \in Nat,
         NEW size \in SduSize, Len(m) = n + Len(v),
         \A i \in DOMAIN v : v[i] = m[n + i]
  PROVE  /\ Len(Append(m, size)) = n + Len(Append(v, size))
         /\ \A i \in DOMAIN Append(v, size) :
              Append(v, size)[i] = Append(m, size)[n + i]
<1>1. Len(Append(m, size)) = Len(m) + 1 /\ Len(Append(v, size)) = Len(v) + 1
  OBVIOUS
<1>2. Len(m) \in Nat /\ Len(v) \in Nat
  OBVIOUS
<1>3. ASSUME NEW i \in DOMAIN Append(v, size)
      PROVE  Append(v, size)[i] = Append(m, size)[n + i]
  <2>1. i \in 1 .. Len(v) + 1
    BY <1>1
  <2>2. CASE i = Len(v) + 1
    <3>1. n + i = Len(m) + 1
      BY <1>2, <2>2
    <3> QED BY <2>2, <3>1
  <2>3. CASE i # Len(v) + 1
    <3>1. i \in 1 .. Len(v) /\ n + i \in 1 .. Len(m)
      BY <1>2, <2>1, <2>3
    <3>2. Append(v, size)[i] = v[i] /\ Append(m, size)[n + i] = m[n + i]
      BY <3>1
    <3> QED BY <3>1, <3>2
  <2> QED BY <2>2, <2>3
<1>4. Len(Append(m, size)) = n + Len(Append(v, size))
  BY <1>1, <1>2
<1> QED BY <1>3, <1>4

LEMMA BufferizePacketKeeps ==
  ASSUME BufferInv, NEW c \in Cid, NEW size \in SduSize, BufferizePacket(c, size)
  PROVE  BufferInv'
<1> DEFINE fits == QueueSize = 0 \/ Bytes(mbuf[c]) + size <= QueueSize
<1>1. /\ TypeOK /\ QueuesInStep /\ ActiveFollows /\ ItemsHaveBytes
      /\ pc = "idle" /\ pc' = "idle" /\ g.items = 0
  BY DEF BufferInv, BufferizePacket, ItemsHaveBytes
<1>2. /\ created' = created \cup {c}
      /\ mbuf' = IF fits THEN [mbuf EXCEPT ![c] = Append(@, size)] ELSE mbuf
      /\ IF fits \/ c \notin created
         THEN /\ vbuf' = [vbuf EXCEPT ![c] = Append(@, size)]
              /\ active' = active \cup {c}
         ELSE vbuf' = vbuf /\ active' = active
      /\ rejected' = IF fits \/ c \in created THEN rejected
                     ELSE rejected \cup {c}
      /\ UNCHANGED <<pc, temp, candidates, top, cws, alloc, g, spread,
                     scheduleList>>
  BY DEF BufferizePacket, IsCounted
<1> HIDE DEF fits
<1>3. /\ mbuf \in [Cid -> Seq(SduSize)] /\ vbuf \in [Cid -> Seq(SduSize)]
      /\ rejected \subseteq created /\ created \subseteq Cid /\ active \subseteq Cid
      /\ scheduleList \in [Cid -> Nat]
  BY <1>1 DEF TypeOK
<1>4. /\ mbuf' \in [Cid -> Seq(SduSize)] /\ vbuf' \in [Cid -> Seq(SduSize)]
  <2>1. \A q \in Seq(SduSize) : Append(q, size) \in Seq(SduSize)
    OBVIOUS
  <2>2. /\ [mbuf EXCEPT ![c] = Append(@, size)] \in [Cid -> Seq(SduSize)]
        /\ [vbuf EXCEPT ![c] = Append(@, size)] \in [Cid -> Seq(SduSize)]
    BY <1>3, <2>1
  <2> QED BY <1>2, <1>3, <2>2
<1>5. TypeOK'
  BY <1>1, <1>2, <1>3, <1>4 DEF TypeOK
<1>6. QueuesInStep'
  <2>1. ASSUME NEW d \in Cid
        PROVE  Consumed(d) = scheduleList[d] /\ Consumed(d)' = scheduleList[d]
    <3>1. scheduleList[d] \in Nat
      BY <1>3
    <3>2. g.items = 0 /\ UNCHANGED <<g, top, scheduleList>>
      BY <1>1, <1>2
    <3> QED BY <3>1, <3>2 DEF Consumed
  <2>2. ASSUME NEW d \in Cid, d \notin rejected'
        PROVE  /\ Len(mbuf'[d]) = scheduleList[d] + Len(vbuf'[d])
               /\ \A i \in DOMAIN vbuf'[d] :
                    vbuf'[d][i] = mbuf'[d][scheduleList[d] + i]
    <3>1. d \in Cid \ rejected /\ pc # "error"
      BY <1>1, <1>2, <2>2
    <3>2. /\ Len(mbuf[d]) = scheduleList[d] + Len(vbuf[d])
          /\ \A i \in DOMAIN vbuf[d] : vbuf[d][i] = mbuf[d][scheduleList[d] + i]
      BY <1>1, <2>1, <3>1 DEF QueuesInStep
    <3>3. CASE d = c /\ fits
      <4>1. mbuf'[d] = Append(mbuf[d], size) /\ vbuf'[d] = Append(vbuf[d], size)
        BY <1>2, <1>3, <3>3
      <4>2. /\ mbuf[d] \in Seq(SduSize) /\ vbuf[d] \in Seq(SduSize)
            /\ scheduleList[d] \in Nat
        BY <1>3
      <4> DEFINE m == mbuf[d]
                 v == vbuf[d]
                 n == scheduleList[d]
      <4>3. m \in Seq(SduSize) /\ v \in Seq(SduSize) /\ n \in Nat
        BY <4>2
      <4>4. Len(m) = n + Len(v) /\ \A i \in DOMAIN v : v[i] = m[n + i]
        BY <3>2
      <4>5. mbuf'[d] = Append(m, size) /\ vbuf'[d] = Append(v, size)
        BY <4>1
      <4> HIDE DEF m, v, n
      <4>6. /\ Len(Append(m, size)) = n + Len(Append(v, size))
            /\ \A i \in DOMAIN Append(v, size) :
                 Append(v, size)[i] = Append(m, size)[n + i]
        BY <4>3, <4>4, AppendedInStep
      <4> QED BY <4>5, <4>6 DEF n
    <3>4. CASE ~(d = c /\ fits)
      <4>1. c \notin created => d # c
        BY <1>2, <2>2, <3>4
      <4>2. mbuf'[d] = mbuf[d] /\ vbuf'[d] = vbuf[d]
        BY <1>2, <1>3, <3>4, <4>1
      <4> QED BY <3>2, <4>2
    <3> QED BY <3>3, <3>4
  <2>3. \A d \in Cid \ rejected' :
          /\ Len(mbuf'[d]) = Consumed(d)' + Len(vbuf'[d])
          /\ \A i \in DOMAIN vbuf'[d] : vbuf'[d][i] = mbuf'[d][Consumed(d)' + i]
    BY <2>1, <2>2
  <2> QED BY <2>3 DEF QueuesInStep
<1>7. ActiveFollows'
  <2>1. Backlogged' = active'
    <3>1. active = Backlogged
      BY <1>1 DEF ActiveFollows
    <3>2. Append(vbuf[c], size) # <<>>
      BY <1>3
    <3>3. \A d \in Cid : vbuf'[d] # <<>> <=> d \in active'
      BY <1>2, <1>3, <3>1, <3>2 DEF Backlogged
    <3> QED BY <1>2, <1>3, <3>3 DEF Backlogged
  <2> QED BY <1>1, <2>1 DEF ActiveFollows
<1>8. ItemsHaveBytes'
  BY <1>1, <1>2 DEF ItemsHaveBytes
<1>9. BandFits'
  BY <1>1 DEF BandFits
<1> QED BY <1>5, <1>6, <1>7, <1>8, <1>9 DEF BufferInv

LEMMA StartTtiKeeps ==
  ASSUME BufferInv, StartTti
  PROVE  BufferInv'
<1>1. /\ TypeOK /\ QueuesInStep /\ ActiveFollows /\ ItemsHaveBytes
      /\ pc = "idle" /\ g.items = 0 /\ pc' \in {"make", "rank"}
      /\ UNCHANGED <<mbuf, vbuf, created, rejected, active, g, spread, scheduleList>>
  BY DEF BufferInv, StartTti, buffers, ItemsHaveBytes
<1>2. alloc' \in Allocation /\ cws' \subseteq Ue
  BY AllocatedType, DownlinkAssumption DEF StartTti
<1>3. \/ pc' = "make" /\ UNCHANGED <<temp, candidates, top>>
      \/ /\ pc' = "rank" /\ temp' = active
         /\ candidates' \subseteq active /\ top' \in TopOf(candidates')
  BY DEF StartTti
<1>4. TypeOK'
  BY <1>1, <1>2, <1>3 DEF TypeOK
<1>5. QueuesInStep'
  <2>1. \A c \in Cid : Consumed(c)' = Consumed(c)
    BY <1>1 DEF Consumed
  <2> QED BY <1>1, <2>1, QueuesKept
<1>6. ActiveFollows'
  BY <1>1, <1>3 DEF ActiveFollows, Backlogged
<1>7. ItemsHaveBytes'
  BY <1>1 DEF ItemsHaveBytes
<1>8. BandFits'
  BY <1>1 DEF BandFits
<1> QED BY <1>4, <1>5, <1>6, <1>7, <1>8 DEF BufferInv

LEMMA RequestGrantKeeps ==
  ASSUME BufferInv, RequestGrant
  PROVE  BufferInv'
<1>1. /\ TypeOK /\ QueuesInStep /\ ActiveFollows /\ ItemsHaveBytes
      /\ pc = "rank" /\ g.items = 0 /\ temp = Backlogged
      /\ UNCHANGED <<mbuf, vbuf, created, rejected, temp, candidates, top, cws,
                     alloc, spread, scheduleList>>
  BY DEF BufferInv, RequestGrant, buffers, ItemsHaveBytes, ActiveFollows
<1>2. \/ pc' = "make" /\ active' = temp /\ g' = g
      \/ top # NoCid /\ pc' = "band" /\ g' = NewGrant /\ active' = active
  BY DEF RequestGrant
<1>3. TypeOK'
  BY <1>1, <1>2, NewGrantType DEF TypeOK
<1>4. QueuesInStep'
  <2>1. g'.items = 0
    BY <1>1, <1>2 DEF NewGrant
  <2>2. \A c \in Cid : Consumed(c)' = Consumed(c)
    BY <1>1, <2>1 DEF Consumed
  <2> QED BY <1>1, <2>2, QueuesKept
<1>5. ActiveFollows'
  <2>1. Backlogged' = Backlogged
    BY <1>1 DEF Backlogged
  <2>2. top # NoCid => vbuf[top] # <<>>
    BY <1>1, GrantTop DEF Backlogged
  <2> QED BY <1>1, <1>2, <2>1, <2>2 DEF ActiveFollows, NewGrant
<1>6. ItemsHaveBytes'
  BY <1>1, <1>2 DEF ItemsHaveBytes, NewGrant
<1>7. BandFits'
  BY <1>1, <1>2 DEF BandFits, NewGrant
<1> QED BY <1>3, <1>4, <1>5, <1>6, <1>7 DEF BufferInv

LEMMA NextBandKeeps ==
  ASSUME BufferInv, NextBand
  PROVE  BufferInv'
<1> DEFINE blocks == AvailableBlocks(alloc, g.band)
           bytes == ComputeBytesOnNRbs(Owner[top], blocks)
<1>1. /\ TypeOK /\ QueuesInStep /\ ActiveFollows /\ ItemsHaveBytes /\ BandFits
      /\ pc = "band" /\ top # NoCid
      /\ UNCHANGED <<mbuf, vbuf, created, rejected, active, temp, candidates, top,
                     cws, alloc, spread, scheduleList>>
  BY DEF BufferInv, NextBand, buffers, ActiveFollows
<1>2. /\ g \in Grant /\ alloc \in Allocation /\ NumBands \in Nat
      /\ g.band \in 1 .. NumBands + 1
  BY <1>1, BandAssumption DEF TypeOK, Grant
<1>3. ASSUME g.band <= NumBands
      PROVE  blocks \in Nat /\ bytes \in Nat /\ g.band \in Band
  <2>1. g.band \in Band
    BY <1>2, <1>3 DEF Band
  <2>2. blocks \in 0 .. BlocksPerBand
    BY <1>2, <2>1, AvailableInBand
  <2> QED BY <1>1, <2>1, <2>2, BytesNat, GrantTop, BlocksPerBandNat
<1>4. \/ g.band > NumBands /\ pc' = "end" /\ g' = g
      \/ g.band <= NumBands /\ g' = [g EXCEPT !.band = @ + 1] /\ pc' = "band"
      \/ /\ g.band <= NumBands /\ pc' = "serve"
         /\ g' = [g EXCEPT !.bytes = bytes, !.blocks = blocks, !.allocated = 0]
  BY <1>1 DEF NextBand
<1> HIDE DEF blocks, bytes
<1>5. g' \in Grant /\ pc' \in {"end", "band", "serve"}
  <2>1. g.band <= NumBands => g.band + 1 \in 1 .. NumBands + 1
    BY <1>2
  <2>2. g.band <= NumBands => [g EXCEPT !.band = @ + 1] \in Grant
    BY <1>2, <2>1 DEF Grant
  <2>3. g.band <= NumBands =>
          [g EXCEPT !.bytes = bytes, !.blocks = blocks, !.allocated = 0] \in Grant
    BY <1>2, <1>3 DEF Grant
  <2> QED BY <1>2, <1>4, <2>2, <2>3
<1>6. TypeOK'
  BY <1>1, <1>5 DEF TypeOK
<1>7. g'.items = g.items /\ g'.active = g.active /\ g'.stop = g.stop
      /\ g'.cwBytes = g.cwBytes /\ g'.booked = g.booked
  BY <1>2, <1>4 DEF Grant
<1>8. QueuesInStep'
  <2>1. \A c \in Cid : Consumed(c)' = Consumed(c)
    BY <1>1, <1>7 DEF Consumed
  <2> QED BY <1>1, <2>1, QueuesKept
<1>9. ActiveFollows'
  <2>1. /\ temp' \ {top'} = Backlogged' \ {top'} /\ g'.active /\ ~g'.stop
        /\ vbuf'[top'] # <<>> /\ top' # NoCid
    BY <1>1, <1>7 DEF ActiveFollows, Backlogged
  <2> QED BY <1>5, <2>1 DEF ActiveFollows
<1>10. ItemsHaveBytes'
  <2>1. pc' = "serve" => g'.allocated = 0
    BY <1>2, <1>4 DEF Grant
  <2>2. g'.items > 0 => g'.cwBytes > 0
    BY <1>1, <1>7 DEF ItemsHaveBytes
  <2> QED BY <1>5, <2>1, <2>2, GrantFields DEF ItemsHaveBytes
<1>11. BandFits'
  <2>1. \A i \in DOMAIN g.booked :
          g.booked[i].band \in Nat /\ g.booked[i].band < g.band
    BY <1>1, <1>2, BookedFields DEF BandFits
  <2>2. pc' = "serve" =>
          /\ g'.band = g.band /\ g.band <= NumBands
          /\ g'.blocks = blocks /\ g'.bytes = bytes /\ g'.allocated = 0
    BY <1>2, <1>4 DEF Grant
  <2>3. pc' = "serve" =>
          /\ g'.blocks <= AvailableBlocks(alloc', g'.band)
          /\ g'.allocated + g'.bytes = ComputeBytesOnNRbs(Owner[top'], g'.blocks)
    BY <1>1, <1>3, <2>2 DEF blocks, bytes
  <2>4. g'.band \in Nat /\ g.band \in Nat
    BY <1>2, <1>5, GrantFields
  <2>5. g'.band = g.band \/ g'.band = g.band + 1
    BY <1>2, <1>4 DEF Grant
  <2> QED BY <1>2, <1>5, <1>7, <2>1, <2>2, <2>3, <2>4, <2>5 DEF BandFits
<1> QED BY <1>6, <1>8, <1>9, <1>10, <1>11 DEF BufferInv

LEMMA AllServedKeeps ==
  ASSUME BufferInv, AllServed
  PROVE  BufferInv'
<1>1. /\ TypeOK /\ QueuesInStep /\ ActiveFollows /\ ItemsHaveBytes /\ BandFits
      /\ pc = "serve" /\ pc' = "close" /\ vbuf[top] = <<>>
      /\ g' = [g EXCEPT !.active = FALSE, !.stop = TRUE]
      /\ UNCHANGED <<mbuf, vbuf, created, rejected, active, temp, candidates, top,
                     cws, alloc, spread, scheduleList>>
  BY DEF BufferInv, AllServed, buffers
<1>2. g \in Grant /\ g' \in Grant
  BY <1>1 DEF TypeOK, Grant
<1>3. /\ g'.items = g.items /\ g'.cwBytes = g.cwBytes /\ g'.booked = g.booked
      /\ g'.band = g.band /\ g'.blocks = g.blocks /\ g'.bytes = g.bytes
      /\ g'.allocated = g.allocated /\ g'.active = FALSE /\ g'.stop = TRUE
  BY <1>1, <1>2 DEF Grant
<1>4. TypeOK'
  BY <1>1, <1>2 DEF TypeOK
<1>5. QueuesInStep'
  <2>1. \A c \in Cid : Consumed(c)' = Consumed(c)
    BY <1>1, <1>3 DEF Consumed
  <2> QED BY <1>1, <2>1, QueuesKept
<1>6. ActiveFollows'
  BY <1>1, <1>3 DEF ActiveFollows, Backlogged
<1>7. ItemsHaveBytes'
  BY <1>1, <1>3 DEF ItemsHaveBytes
<1>8. BandFits'
  <2>1. \A i \in DOMAIN g.booked : g.booked[i].band \in Nat /\ g.band \in Nat
    BY <1>2, GrantFields, BookedFields
  <2> QED BY <1>1, <1>3, <2>1 DEF BandFits
<1> QED BY <1>4, <1>5, <1>6, <1>7, <1>8 DEF BufferInv

\* What a grant has taken of a band needs no more blocks than the band had.
LEMMA BandHolds ==
  ASSUME TypeOK, ActiveFollows, BandFits, pc \in {"serve", "booked", "close"}
  PROVE  /\ g.band \in Band /\ Owner[top] \in Ue
         /\ ComputeReqRbs(Owner[top], g.allocated) \in Nat
         /\ ComputeReqRbs(Owner[top], g.allocated) <= g.blocks
         /\ g.blocks <= AvailableBlocks(alloc, g.band)
         /\ AvailableBlocks(alloc, g.band) \in Nat
         /\ g.allocated <=
              ComputeBytesOnNRbs(Owner[top], ComputeReqRbs(Owner[top], g.allocated))
<1>1. /\ g \in Grant /\ alloc \in Allocation /\ top # NoCid
      /\ g.blocks <= AvailableBlocks(alloc, g.band)
      /\ g.allocated + g.bytes = ComputeBytesOnNRbs(Owner[top], g.blocks)
  BY DEF TypeOK, ActiveFollows, BandFits
<1>2. g.band \in Band /\ Owner[top] \in Ue
  BY <1>1, GrantTop, GrantFields DEF BandFits, Band
<1>3. AvailableBlocks(alloc, g.band) \in 0 .. BlocksPerBand
  BY <1>1, <1>2, AvailableInBand
<1>4. g.blocks \in 0 .. BlocksPerBand
  BY <1>1, <1>3, GrantFields, BlocksPerBandNat
<1>5. g.allocated \in Nat /\ g.allocated <= ComputeBytesOnNRbs(Owner[top], g.blocks)
  BY <1>1, GrantFields
<1> QED BY <1>1, <1>2, <1>3, <1>4, <1>5, ReqRbs, BlocksPerBandNat

LEMMA BookBandKeeps ==
  ASSUME BufferInv, BookBand
  PROVE  BufferInv'
<1> DEFINE blocksAdded == ComputeReqRbs(Owner[top], g.allocated)
           r == [band |-> g.band, bytes |-> g.bytes, blocks |-> g.blocks - blocksAdded]
<1>1. /\ TypeOK /\ QueuesInStep /\ ActiveFollows /\ ItemsHaveBytes /\ BandFits
      /\ pc = "serve" /\ vbuf[top] # <<>> /\ g \in Grant
      /\ UNCHANGED <<mbuf, vbuf, created, rejected, active, temp, candidates, top,
                     cws, alloc, spread, scheduleList>>
  BY DEF BufferInv, BookBand, buffers, TypeOK
<1>2. /\ g.band \in Band /\ blocksAdded \in Nat /\ blocksAdded <= g.blocks
  BY <1>1, BandHolds
<1>3. r \in Request
  BY <1>1, <1>2, GrantFields DEF Request
<1>4. /\ pc' = "close"
      /\ g' = [g EXCEPT !.firstSdu = FALSE, !.booked = Append(@, r)]
  BY <1>1, <1>2, GrantFields DEF BookBand, NextBandBooked
<1> HIDE DEF r, blocksAdded
<1>5. Append(g.booked, r) \in Seq(Request)
  BY <1>1, <1>3, GrantFields
<1>6. g' \in Grant
  BY <1>1, <1>4, <1>5 DEF Grant
<1>7. /\ g'.items = g.items /\ g'.cwBytes = g.cwBytes
      /\ g'.booked = Append(g.booked, r)
      /\ g'.band = g.band /\ g'.blocks = g.blocks /\ g'.bytes = g.bytes
      /\ g'.allocated = g.allocated /\ g'.active = g.active /\ g'.stop = g.stop
  BY <1>1, <1>4 DEF Grant
<1>8. TypeOK'
  BY <1>1, <1>4, <1>6 DEF TypeOK
<1>9. QueuesInStep'
  <2>1. \A c \in Cid : Consumed(c)' = Consumed(c)
    BY <1>1, <1>7 DEF Consumed
  <2> QED BY <1>1, <2>1, QueuesKept
<1>10. ActiveFollows'
  <2>1. /\ temp' \ {top'} = Backlogged' \ {top'} /\ g'.active /\ ~g'.stop
        /\ vbuf'[top'] # <<>> /\ top' # NoCid
    BY <1>1, <1>7 DEF ActiveFollows, Backlogged
  <2> QED BY <1>4, <2>1 DEF ActiveFollows
<1>11. ItemsHaveBytes'
  BY <1>1, <1>4, <1>7 DEF ItemsHaveBytes
<1>12. BandFits'
  <2>1. \A i \in DOMAIN g'.booked : g'.booked[i].band <= g.band
    <3> SUFFICES ASSUME NEW i \in 1 .. Len(g.booked) + 1
                 PROVE  Append(g.booked, r)[i].band <= g.band
      BY <1>1, <1>3, <1>7, GrantFields
    <3>1. CASE i \in DOMAIN g.booked
      <4>1. Append(g.booked, r)[i] = g.booked[i]
        BY <1>1, <3>1, GrantFields
      <4>2. g.booked[i].band < g.band /\ g.booked[i].band \in Nat /\ g.band \in Nat
        BY <1>1, <3>1, GrantFields, BookedFields DEF BandFits
      <4> QED BY <4>1, <4>2
    <3>2. CASE i = Len(g.booked) + 1
      <4>1. Append(g.booked, r)[i] = r /\ g.band \in Nat
        BY <1>1, <3>2, GrantFields
      <4> QED BY <4>1 DEF r
    <3> QED BY <1>1, <3>1, <3>2, GrantFields
  <2> QED BY <1>1, <1>4, <1>7, <2>1 DEF BandFits
<1> QED BY <1>8, <1>9, <1>10, <1>11, <1>12 DEF BufferInv

LEMMA StartSduKeeps ==
  ASSUME BufferInv, StartSdu
  PROVE  BufferInv'
<1>1. /\ TypeOK /\ QueuesInStep /\ ActiveFollows /\ ItemsHaveBytes /\ BandFits
      /\ pc = "serve" /\ pc' = "booked" /\ vbuf[top] # <<>> /\ g \in Grant
      /\ top \in Cid
      /\ UNCHANGED <<mbuf, vbuf, created, rejected, active, temp, candidates, top,
                     cws, alloc, spread, scheduleList>>
  BY GrantTop DEF BufferInv, StartSdu, buffers, TypeOK, ActiveFollows
<1>2. PICK li \in Nat \ {0} :
        g' = [g EXCEPT !.firstSdu = FALSE, !.toServe = ToServe, !.used = 0, !.li = li]
  <2>1. Len(g.booked) + 1 \in Nat \ {0} /\ 1 \in Nat \ {0}
    BY <1>1, GrantFields
  <2> QED BY <2>1 DEF StartSdu
<1>3. ToServe \in Nat /\ ToServe > 0
  <2>1. vbuf[top] \in Seq(SduSize)
    BY <1>1 DEF TypeOK
  <2>2. Head(vbuf[top]) \in SduSize
    BY <1>1, <2>1
  <2>3. Head(vbuf[top]) \in Nat /\ Head(vbuf[top]) > 0 /\ MacHeader \in Nat
    <3>1. \A x \in SduSize : x \in Nat /\ x > 0
      BY DownlinkAssumption
    <3> QED BY <2>2, <3>1, DownlinkAssumption
  <2>4. (IF g.firstSdu THEN MacHeader ELSE 0) \in Nat
    BY <2>3
  <2> QED BY <2>3, <2>4 DEF ToServe
<1>4. g' \in Grant
  BY <1>1, <1>2, <1>3 DEF Grant
<1>5. /\ g'.items = g.items /\ g'.cwBytes = g.cwBytes /\ g'.booked = g.booked
      /\ g'.band = g.band /\ g'.blocks = g.blocks /\ g'.bytes = g.bytes
      /\ g'.allocated = g.allocated /\ g'.active = g.active /\ g'.stop = g.stop
      /\ g'.toServe = ToServe /\ g'.used = 0
  BY <1>1, <1>2 DEF Grant
<1>6. TypeOK'
  BY <1>1, <1>4 DEF TypeOK
<1>7. QueuesInStep'
  <2>1. \A c \in Cid : Consumed(c)' = Consumed(c)
    BY <1>1, <1>5 DEF Consumed
  <2> QED BY <1>1, <2>1, QueuesKept
<1>8. ActiveFollows'
  <2>1. /\ temp' \ {top'} = Backlogged' \ {top'} /\ g'.active /\ ~g'.stop
        /\ vbuf'[top'] # <<>> /\ top' # NoCid
    BY <1>1, <1>5 DEF ActiveFollows, Backlogged
  <2> QED BY <1>1, <2>1 DEF ActiveFollows
<1>9. ItemsHaveBytes'
  BY <1>1, <1>3, <1>5, GrantFields DEF ItemsHaveBytes
<1>10. BandFits'
  BY <1>1, <1>5 DEF BandFits
<1> QED BY <1>6, <1>7, <1>8, <1>9, <1>10 DEF BufferInv

LEMMA UseBookedKeeps ==
  ASSUME BufferInv, UseBooked
  PROVE  BufferInv'
<1> DEFINE r == g.booked[g.li]
           uBytes == BytesUsed(r)
           needed == ComputeReqRbs(Owner[top], uBytes)
           uBlocks == IF needed <= r.blocks THEN needed ELSE 0
           left == [r EXCEPT !.bytes = @ - g.toServe,
                             !.blocks = IF needed <= @ THEN @ - needed ELSE 0]
           depleted == r.bytes <= g.toServe
           booked == IF depleted THEN RemoveAt(g.booked, g.li)
                     ELSE [g.booked EXCEPT ![g.li] = left]
           li == IF depleted THEN g.li ELSE g.li + 1
<1>1. /\ TypeOK /\ QueuesInStep /\ ActiveFollows /\ ItemsHaveBytes /\ BandFits
      /\ pc = "booked" /\ pc' = "booked" /\ MoreBooked /\ g \in Grant
      /\ alloc \in Allocation /\ top # NoCid
      /\ UNCHANGED <<mbuf, vbuf, created, rejected, active, temp, candidates, top,
                     cws, scheduleList>>
  BY DEF BufferInv, UseBooked, buffers, TypeOK, ActiveFollows
<1>2. /\ alloc' = AddBlocks(alloc, Owner[top], r.band, uBlocks, uBytes)
      /\ g' = [g EXCEPT !.used = @ + uBytes, !.cwBytes = @ + uBytes,
                        !.booked = booked, !.li = li]
      /\ spread' = IF uBytes > 0 THEN spread \cup {Owner[top]} ELSE spread
  BY <1>1 DEF UseBooked, Grant
<1>3. /\ g.li \in DOMAIN g.booked /\ r \in Request /\ r.band \in Band
      /\ r.band \in Nat /\ r.bytes \in Nat /\ r.blocks \in Nat
      /\ g.toServe \in Nat /\ Owner[top] \in Ue
  <2>1. g.li \in DOMAIN g.booked
    BY <1>1, GrantFields DEF MoreBooked
  <2> QED BY <1>1, <2>1, GrantFields, BookedFields, GrantTop
<1>4. uBytes \in Nat
  BY <1>3 DEF BytesUsed
<1>5. needed \in Nat
  BY <1>3, <1>4, ReqRbs
<1>6. uBlocks \in Nat
  BY <1>3, <1>5
<1>7. ~depleted => left \in Request /\ left.band = r.band
  <2>1. ~depleted => r.bytes - g.toServe \in Nat
    BY <1>3
  <2>2. (IF needed <= r.blocks THEN r.blocks - needed ELSE 0) \in Nat
    BY <1>3, <1>5
  <2> QED BY <1>3, <2>1, <2>2 DEF Request
<1> HIDE DEF uBytes, needed, uBlocks, left, depleted
<1>8. /\ booked \in Seq(Request)
      /\ \A i \in DOMAIN booked : booked[i].band < g.band
  <2>1. \A i \in DOMAIN g.booked : g.booked[i].band < g.band
    BY <1>1 DEF BandFits
  <2>2. CASE depleted
    BY <1>1, <1>3, <2>1, <2>2, RemoveAtKeeps, GrantFields
  <2>3. CASE ~depleted
    <3>1. booked = [g.booked EXCEPT ![g.li] = left]
      BY <2>3
    <3>2. booked \in Seq(Request) /\ DOMAIN booked = DOMAIN g.booked
      BY <1>1, <1>3, <1>7, <2>3, <3>1, GrantFields
    <3>3. \A i \in DOMAIN g.booked : booked[i].band = g.booked[i].band
      BY <1>7, <2>3, <3>1
    <3> QED BY <2>1, <3>2, <3>3
  <2> QED BY <2>2, <2>3
<1>9. li \in Nat \ {0}
  BY <1>1, GrantFields
<1> HIDE DEF booked, li, r
<1>10. g' \in Grant
  <2>1. g.used + uBytes \in Nat /\ g.cwBytes + uBytes \in Nat
    BY <1>1, <1>4, GrantFields
  <2>2. booked \in Seq(Request)
    BY <1>8
  <2> QED BY <1>1, <1>2, <1>9, <2>1, <2>2 DEF Grant
<1>11. /\ g'.items = g.items /\ g'.cwBytes = g.cwBytes + uBytes /\ g'.booked = booked
       /\ g'.band = g.band /\ g'.blocks = g.blocks /\ g'.bytes = g.bytes
       /\ g'.allocated = g.allocated /\ g'.active = g.active /\ g'.stop = g.stop
       /\ g'.toServe = g.toServe /\ g'.used = g.used + uBytes
  BY <1>1, <1>2 DEF Grant
<1>12. alloc' \in Allocation
       /\ AvailableBlocks(alloc', g.band) = AvailableBlocks(alloc, g.band)
  <2>1. r.band # g.band /\ g.band \in Band
    <3>1. r.band < g.band
      BY <1>1, <1>3 DEF BandFits, r
    <3> QED BY <1>1, <1>3, <3>1, BandHolds
  <2> QED BY <1>1, <1>2, <1>3, <1>4, <1>6, <2>1, AddBlocksKeeps
<1>13. TypeOK'
  BY <1>1, <1>2, <1>3, <1>10, <1>12 DEF TypeOK
<1>14. QueuesInStep'
  <2>1. \A c \in Cid : Consumed(c)' = Consumed(c)
    BY <1>1, <1>11 DEF Consumed
  <2> QED BY <1>1, <2>1, QueuesKept
<1>15. ActiveFollows'
  <2>1. /\ temp' \ {top'} = Backlogged' \ {top'} /\ g'.active /\ ~g'.stop
        /\ vbuf'[top'] # <<>> /\ top' # NoCid
    BY <1>1, <1>11 DEF ActiveFollows, Backlogged
  <2> QED BY <1>1, <2>1 DEF ActiveFollows
<1>16. ItemsHaveBytes'
  BY <1>1, <1>4, <1>11, GrantFields DEF ItemsHaveBytes
<1>17. BandFits'
  BY <1>1, <1>8, <1>11, <1>12 DEF BandFits
<1> QED BY <1>13, <1>14, <1>15, <1>16, <1>17 DEF BufferInv

LEMMA ServeSduKeeps ==
  ASSUME BufferInv, ServeSdu
  PROVE  BufferInv'
<1> DEFINE own == g.toServe - g.used
<1>1. /\ TypeOK /\ QueuesInStep /\ ActiveFollows /\ ItemsHaveBytes /\ BandFits
      /\ pc = "booked" /\ g \in Grant /\ top # NoCid /\ top \in Cid
      /\ vbuf[top] # <<>>
      /\ UNCHANGED <<mbuf, created, rejected, active, temp, candidates, top,
                     cws, alloc, spread, scheduleList>>
  BY GrantTop DEF BufferInv, ServeSdu, TypeOK, ActiveFollows
<1>2. CASE pc' = "error"
  <2>1. UNCHANGED <<g, vbuf>>
    BY <1>2 DEF ServeSdu
  <2>2. TypeOK'
    BY <1>1, <1>2, <2>1 DEF TypeOK
  <2> QED BY <1>2, <2>2 DEF BufferInv, QueuesInStep, ActiveFollows, ItemsHaveBytes, BandFits
<1>3. CASE pc' # "error"
  <2>1. /\ g.used <= g.toServe /\ own <= g.bytes /\ pc' = "serve"
        /\ g' = [g EXCEPT !.bytes = @ - own, !.allocated = @ + own, !.items = @ + 1]
        /\ vbuf' = [vbuf EXCEPT ![top] = Tail(@)]
    BY <1>1, <1>3, GrantFields DEF ServeSdu
  <2>2. own \in Nat /\ g.bytes - own \in Nat /\ g.allocated + own \in Nat
        /\ g.items + 1 \in Nat
    BY <1>1, <2>1, GrantFields
  <2> HIDE DEF own
  <2>3. g' \in Grant
    BY <1>1, <2>1, <2>2 DEF Grant
  <2>4. /\ g'.items = g.items + 1 /\ g'.cwBytes = g.cwBytes /\ g'.booked = g.booked
        /\ g'.band = g.band /\ g'.blocks = g.blocks /\ g'.bytes = g.bytes - own
        /\ g'.allocated = g.allocated + own /\ g'.active = g.active
        /\ g'.stop = g.stop
    BY <1>1, <2>1 DEF Grant
  <2>5. vbuf \in [Cid -> Seq(SduSize)] /\ scheduleList \in [Cid -> Nat]
    BY <1>1 DEF TypeOK
  <2>6. vbuf' \in [Cid -> Seq(SduSize)] /\ vbuf'[top] = Tail(vbuf[top])
        /\ \A c \in Cid \ {top} : vbuf'[c] = vbuf[c]
    <3>1. Tail(vbuf[top]) \in Seq(SduSize)
      BY <1>1, <2>5
    <3> QED BY <1>1, <2>1, <2>5, <3>1
  <2>7. TypeOK'
    BY <1>1, <2>1, <2>3, <2>6 DEF TypeOK
  <2>8. QueuesInStep'
    <3> SUFFICES ASSUME NEW c \in Cid, c \notin rejected
                 PROVE  /\ Len(mbuf[c]) = Consumed(c)' + Len(vbuf'[c])
                        /\ \A i \in DOMAIN vbuf'[c] :
                             vbuf'[c][i] = mbuf[c][Consumed(c)' + i]
      BY <1>1 DEF QueuesInStep
    <3>1. /\ Len(mbuf[c]) = Consumed(c) + Len(vbuf[c])
          /\ \A i \in DOMAIN vbuf[c] : vbuf[c][i] = mbuf[c][Consumed(c) + i]
      BY <1>1 DEF QueuesInStep
    <3>2. CASE c # top
      <4>1. Consumed(c)' = Consumed(c) /\ vbuf'[c] = vbuf[c]
        BY <1>1, <2>6, <3>2 DEF Consumed
      <4> QED BY <3>1, <4>1
    <3>3. CASE c = top
      <4>1. g.items \in Nat /\ scheduleList[c] \in Nat
        BY <1>1, <2>5, GrantFields
      <4>2. /\ Consumed(c) = scheduleList[c] + g.items
            /\ Consumed(c)' = scheduleList[c] + (g.items + 1)
        BY <1>1, <2>4, <3>3 DEF Consumed
      <4>3. Consumed(c)' = Consumed(c) + 1 /\ Consumed(c) \in Nat
        BY <4>1, <4>2
      <4>4. /\ vbuf[c] \in Seq(SduSize) /\ vbuf[c] # <<>> /\ vbuf'[c] = Tail(vbuf[c])
        BY <1>1, <2>5, <2>6, <3>3
      <4>5. /\ Len(vbuf'[c]) = Len(vbuf[c]) - 1 /\ Len(vbuf[c]) \in Nat
            /\ DOMAIN vbuf'[c] = 1 .. Len(vbuf[c]) - 1
            /\ \A i \in 1 .. Len(vbuf[c]) - 1 :
                 vbuf'[c][i] = vbuf[c][i + 1] /\ i + 1 \in DOMAIN vbuf[c]
        BY <4>4
      <4>6. ASSUME NEW i \in 1 .. Len(vbuf[c]) - 1
            PROVE  vbuf'[c][i] = mbuf[c][Consumed(c)' + i]
        <5>1. vbuf[c][i + 1] = mbuf[c][Consumed(c) + (i + 1)]
          BY <3>1, <4>5
        <5>2. Consumed(c) + (i + 1) = Consumed(c)' + i
          BY <4>3, <4>5
        <5> QED BY <4>5, <5>1, <5>2
      <4>7. Len(mbuf[c]) = Consumed(c)' + Len(vbuf'[c])
        BY <3>1, <4>3, <4>5
      <4> QED BY <4>5, <4>6, <4>7
    <3> QED BY <3>2, <3>3
  <2>9. ActiveFollows'
    <3>1. Backlogged' \ {top} = Backlogged \ {top}
      BY <2>6 DEF Backlogged
    <3>2. temp \ {top} = Backlogged \ {top} /\ g.active /\ ~g.stop
      BY <1>1 DEF ActiveFollows
    <3> QED BY <1>1, <2>1, <2>4, <3>1, <3>2 DEF ActiveFollows
  <2>10. ItemsHaveBytes'
    <3>1. g.toServe > 0 /\ g.used <= g.cwBytes
      BY <1>1 DEF ItemsHaveBytes
    <3>2. g.cwBytes + (g.allocated + own) > 0
      BY <1>1, <2>1, <3>1, GrantFields DEF own
    <3> QED BY <2>1, <2>4, <3>2 DEF ItemsHaveBytes
  <2>11. BandFits'
    <3>1. g'.allocated + g'.bytes = g.allocated + g.bytes
      BY <1>1, <2>2, <2>4, GrantFields
    <3> QED BY <1>1, <2>1, <2>4, <3>1 DEF BandFits
  <2> QED BY <2>7, <2>8, <2>9, <2>10, <2>11 DEF BufferInv
<1> QED BY <1>2, <1>3

LEMMA CloseBandKeeps ==
  ASSUME BufferInv, CloseBand
  PROVE  BufferInv'
<1> DEFINE blocksAdded == ComputeReqRbs(Owner[top], g.allocated)
<1>1. /\ TypeOK /\ QueuesInStep /\ ActiveFollows /\ ItemsHaveBytes /\ BandFits
      /\ pc = "close" /\ g \in Grant /\ alloc \in Allocation /\ top # NoCid
      /\ UNCHANGED <<mbuf, vbuf, created, rejected, active, temp, candidates, top,
                     cws, spread, scheduleList>>
  BY DEF BufferInv, CloseBand, buffers, TypeOK, ActiveFollows
<1>2. /\ g.band \in Band /\ Owner[top] \in Ue /\ blocksAdded \in Nat
      /\ blocksAdded <= g.blocks /\ g.blocks <= AvailableBlocks(alloc, g.band)
      /\ AvailableBlocks(alloc, g.band) \in Nat
  BY <1>1, BandHolds
<1>3. /\ g.allocated \in Nat /\ g.cwBytes \in Nat /\ g.blocks \in Nat /\ g.items \in Nat
      /\ g.band \in Nat
  BY <1>1, GrantFields
<1> HIDE DEF blocksAdded
<1>4. ~(g.allocated > 0 /\ \/ blocksAdded > g.blocks
                           \/ AddBlocksFails(alloc, g.band, blocksAdded, g.allocated))
  BY <1>2, <1>3 DEF AddBlocksFails
<1>5. /\ alloc' = AddBlocks(alloc, Owner[top], g.band, blocksAdded, g.allocated)
      /\ g' = [g EXCEPT !.cwBytes = @ + g.allocated, !.band = @ + 1]
      /\ pc' = IF g.stop THEN "end" ELSE "band"
  BY <1>4 DEF CloseBand, blocksAdded
<1>6. g' \in Grant
  <2>1. g.band + 1 \in 1 .. NumBands + 1 /\ g.cwBytes + g.allocated \in Nat
    BY <1>2, <1>3, BandAssumption DEF Band
  <2> QED BY <1>1, <1>5, <2>1 DEF Grant
<1>7. /\ g'.items = g.items /\ g'.cwBytes = g.cwBytes + g.allocated
      /\ g'.booked = g.booked /\ g'.band = g.band + 1
      /\ g'.active = g.active /\ g'.stop = g.stop
  BY <1>1, <1>5 DEF Grant
<1>8. TypeOK'
  <2>1. alloc' \in Allocation
    BY <1>1, <1>2, <1>3, <1>5, AddBlocksKeeps
  <2> QED BY <1>1, <1>5, <1>6, <2>1 DEF TypeOK
<1>9. QueuesInStep'
  <2>1. \A c \in Cid : Consumed(c)' = Consumed(c)
    BY <1>1, <1>7 DEF Consumed
  <2> QED BY <1>1, <2>1, QueuesKept
<1>10. ActiveFollows'
  <2>1. /\ temp' \ {top'} = Backlogged' \ {top'} /\ top' # NoCid
        /\ (g'.active <=> vbuf'[top'] # <<>>) /\ (g'.stop <=> ~g'.active)
    BY <1>1, <1>7 DEF ActiveFollows, Backlogged
  <2>2. pc' = "band" => ~g'.stop
    BY <1>5, <1>7
  <2> QED BY <1>5, <2>1, <2>2 DEF ActiveFollows
<1>11. ItemsHaveBytes'
  BY <1>1, <1>3, <1>5, <1>7 DEF ItemsHaveBytes
<1>12. BandFits'
  <2>1. ASSUME NEW i \in DOMAIN g.booked PROVE g.booked[i].band < g.band + 1
    BY <1>1, <1>3, BookedFields DEF BandFits
  <2> QED BY <1>5, <1>7, <2>1 DEF BandFits
<1> QED BY <1>8, <1>9, <1>10, <1>11, <1>12 DEF BufferInv

LEMMA EndGrantKeeps ==
  ASSUME BufferInv, EndGrant
  PROVE  BufferInv'
<1>1. /\ TypeOK /\ QueuesInStep /\ ActiveFollows /\ ItemsHaveBytes
      /\ pc = "end" /\ pc' = "rank" /\ g' = NewGrant /\ g \in Grant
      /\ top # NoCid /\ top \in Cid /\ top \in temp /\ top \in candidates
      /\ Owner[top] \in Ue /\ g.items \in Nat /\ g.cwBytes \in Nat
      /\ UNCHANGED <<mbuf, vbuf, created, rejected, active, alloc, spread>>
  BY GrantTop, GrantFields DEF BufferInv, EndGrant, buffers, TypeOK, ActiveFollows
<1>2. /\ candidates \subseteq temp /\ temp \subseteq Cid /\ cws \subseteq Ue
      /\ scheduleList \in [Cid -> Nat]
  BY <1>1 DEF TypeOK
<1>3. /\ cws' \subseteq Ue
      /\ scheduleList' = [scheduleList EXCEPT ![top] = @ + g.items]
  <2>1. CASE g.cwBytes > 0
    BY <1>1, <1>2, <2>1 DEF EndGrant
  <2>2. CASE ~(g.cwBytes > 0)
    <3>1. g.items = 0
      BY <1>1, <2>2 DEF ItemsHaveBytes
    <3>2. cws' = cws /\ scheduleList' = scheduleList
      BY <2>2 DEF EndGrant
    <3> QED BY <1>1, <1>2, <3>1, <3>2
  <2> QED BY <2>1, <2>2
<1>4. /\ temp' = IF g.active THEN temp ELSE temp \ {top}
      /\ top' \in TopOf(candidates')
      /\ \/ g.active /\ candidates' = candidates
         \/ candidates' = candidates \ {top}
  BY <1>1 DEF EndGrant, StillActive, TypeOK
<1>5. scheduleList' \in [Cid -> Nat]
  BY <1>1, <1>2, <1>3
<1>6. TypeOK'
  <2>1. candidates' \subseteq temp' /\ temp' \subseteq Cid
    BY <1>2, <1>4
  <2> QED BY <1>1, <1>3, <1>4, <1>5, <2>1, NewGrantType DEF TypeOK
<1>7. QueuesInStep'
  <2>1. ASSUME NEW c \in Cid PROVE Consumed(c)' = Consumed(c)
    <3>1. g'.items = 0
      BY <1>1 DEF NewGrant
    <3>2. Consumed(c)' = scheduleList'[c] /\ scheduleList'[c] \in Nat
      BY <1>5, <3>1 DEF Consumed
    <3>3. CASE c = top
      BY <1>1, <1>2, <1>3, <3>2, <3>3 DEF Consumed
    <3>4. CASE c # top
      BY <1>1, <1>2, <1>3, <3>2, <3>4 DEF Consumed
    <3> QED BY <3>3, <3>4
  <2> QED BY <1>1, <2>1, QueuesKept
<1>8. ActiveFollows'
  <2>1. /\ temp \ {top} = Backlogged \ {top} /\ (g.active <=> vbuf[top] # <<>>)
        /\ Backlogged' = Backlogged
    BY <1>1 DEF ActiveFollows, Backlogged
  <2>2. top \in Backlogged <=> g.active
    BY <1>1, <2>1 DEF Backlogged
  <2>3. temp' = Backlogged
    <3>1. CASE g.active
      <4>1. temp' = temp /\ top \in Backlogged
        BY <1>4, <2>2, <3>1
      <4>2. top \in temp
        BY <1>1
      <4>3. \A c : c \in temp <=> c \in Backlogged
        <5>1. \A c : c \in temp \ {top} <=> c \in Backlogged \ {top}
          BY <2>1
        <5> QED BY <4>1, <4>2, <5>1
      <4> QED BY <4>1, <4>3
    <3>2. CASE ~g.active
      <4>1. temp' = temp \ {top} /\ top \notin Backlogged
        BY <1>4, <2>2, <3>2
      <4> QED BY <2>1, <4>1
    <3> QED BY <3>1, <3>2
  <2> QED BY <1>1, <2>1, <2>3 DEF ActiveFollows
<1>9. ItemsHaveBytes'
  BY <1>1 DEF ItemsHaveBytes, NewGrant
<1>10. BandFits'
  BY <1>1 DEF BandFits
<1> QED BY <1>6, <1>7, <1>8, <1>9, <1>10 DEF BufferInv

LEMMA MacPduMakeKeeps ==
  ASSUME BufferInv, MacPduMake
  PROVE  BufferInv'
<1>1. /\ TypeOK /\ QueuesInStep /\ ActiveFollows /\ ItemsHaveBytes
      /\ pc = "make" /\ g.items = 0 /\ active = Backlogged
      /\ UNCHANGED <<vbuf, created, rejected, active, g>>
      /\ temp' = {} /\ candidates' = {} /\ top' = NoCid /\ cws' = {} /\ spread' = {}
      /\ alloc' = Allocated([b \in Band |-> 0])
      /\ scheduleList' = [c \in Cid |-> 0]
  BY DEF BufferInv, MacPduMake, ItemsHaveBytes, ActiveFollows
<1>2. \/ pc' = "error" /\ mbuf' = mbuf
      \/ /\ pc' = "idle"
         /\ mbuf' = [c \in Cid |-> SubSeq(mbuf[c], scheduleList[c] + 1, Len(mbuf[c]))]
  BY DEF MacPduMake
<1>3. mbuf \in [Cid -> Seq(SduSize)] /\ scheduleList \in [Cid -> Nat]
      /\ vbuf \in [Cid -> Seq(SduSize)]
  BY <1>1 DEF TypeOK
<1>4. ASSUME NEW c \in Cid, pc' = "idle"
      PROVE  /\ mbuf'[c] \in Seq(SduSize)
             /\ scheduleList[c] <= Len(mbuf[c]) =>
                  /\ Len(mbuf'[c]) = Len(mbuf[c]) - scheduleList[c]
                  /\ \A i \in 1 .. Len(mbuf[c]) - scheduleList[c] :
                       mbuf'[c][i] = mbuf[c][scheduleList[c] + i]
  <2> DEFINE q == mbuf[c]
             n == scheduleList[c]
  <2>1. q \in Seq(SduSize) /\ n \in Nat /\ mbuf'[c] = SubSeq(q, n + 1, Len(q))
    BY <1>2, <1>3, <1>4
  <2> HIDE DEF q, n
  <2>2. SubSeq(q, n + 1, Len(q)) \in Seq(SduSize)
    BY <2>1
  <2>3. n <= Len(q) => Len(SubSeq(q, n + 1, Len(q))) = Len(q) - n
    BY <2>1
  <2>4. n <= Len(q) => \A i \in 1 .. Len(q) - n :
          SubSeq(q, n + 1, Len(q))[i] = q[n + i]
    BY <2>1
  <2> QED BY <2>1, <2>2, <2>3, <2>4 DEF q, n
<1>5. TypeOK'
  <2>1. mbuf' \in [Cid -> Seq(SduSize)]
    BY <1>2, <1>3, <1>4
  <2>2. alloc' \in Allocation /\ scheduleList' \in [Cid -> Nat]
    BY <1>1, AllocatedType
  <2> QED BY <1>1, <1>2, <2>1, <2>2 DEF TypeOK, TopOf
<1>6. QueuesInStep'
  <2> SUFFICES ASSUME NEW c \in Cid, c \notin rejected, pc' = "idle"
               PROVE  /\ Len(mbuf'[c]) = Len(vbuf[c])
                      /\ \A i \in DOMAIN vbuf[c] : vbuf[c][i] = mbuf'[c][i]
    <3>1. \A c \in Cid : Consumed(c)' = 0
      BY <1>1 DEF Consumed
    <3>2. \A c \in Cid : /\ Len(vbuf[c]) \in Nat /\ DOMAIN vbuf[c] = 1 .. Len(vbuf[c])
      BY <1>3
    <3> QED BY <1>1, <1>2, <3>1, <3>2 DEF QueuesInStep
  <2>1. scheduleList[c] \in Nat /\ Consumed(c) = scheduleList[c]
    BY <1>1, <1>3 DEF Consumed
  <2>2. /\ Len(mbuf[c]) = scheduleList[c] + Len(vbuf[c])
        /\ \A i \in DOMAIN vbuf[c] : vbuf[c][i] = mbuf[c][scheduleList[c] + i]
    BY <1>1, <2>1 DEF QueuesInStep
  <2>3. Len(vbuf[c]) \in Nat /\ DOMAIN vbuf[c] = 1 .. Len(vbuf[c])
    BY <1>3
  <2> QED BY <1>4, <2>1, <2>2, <2>3
<1>7. ActiveFollows'
  BY <1>1, <1>2 DEF ActiveFollows, Backlogged
<1>8. ItemsHaveBytes'
  BY <1>1, <1>2 DEF ItemsHaveBytes
<1>9. BandFits'
  BY <1>2 DEF BandFits
<1> QED BY <1>5, <1>6, <1>7, <1>8, <1>9 DEF BufferInv

LEMMA NextBufferInv ==
  ASSUME BufferInv, [Next]_vars
  PROVE  BufferInv'
<1>1. CASE UNCHANGED vars
  BY <1>1 DEF vars, buffers, BufferInv, TypeOK, QueuesInStep, Consumed, ActiveFollows,
              Backlogged, ItemsHaveBytes, BandFits
<1>2. ASSUME NEW c \in Cid, NEW size \in SduSize, BufferizePacket(c, size)
      PROVE  BufferInv'
  BY <1>2, BufferizePacketKeeps
<1>3. CASE TtiStep
  BY <1>3, StartTtiKeeps, RequestGrantKeeps, NextBandKeeps, AllServedKeeps,
     BookBandKeeps, StartSduKeeps, UseBookedKeeps, ServeSduKeeps, CloseBandKeeps,
     EndGrantKeeps, MacPduMakeKeeps DEF TtiStep
<1>4. CASE Failed
  BY <1>1, <1>4 DEF Failed
<1> QED BY <1>1, <1>2, <1>3, <1>4 DEF Next

----------------------------------------------------------------------------
(* Booked bytes, noted blocks and PDUs.                                    *)

\* What the invariant adds to that of the buffers.
Safe ==
  /\ BookedSpent /\ BlocksNoted /\ ScheduledOnce /\ ScheduledFits /\ GrantFits
  /\ OnlyRejectedThrows

LEMMA InvParts ==
  Inv <=> BufferInv /\ Safe /\ BlocksGivenOnce /\ CodewordHasPacket /\ TtiForgotten
BY DEF Inv, Safe

\* What is known of a grant under way.
LEMMA GrantFacts ==
  ASSUME Inv, InGrant
  PROVE  /\ g \in Grant /\ alloc \in Allocation /\ top # NoCid /\ top \in Cid
         /\ Owner[top] \in Ue /\ Owner[top] \notin cws /\ scheduleList[top] = 0
         /\ g.booked \in Seq(Request)
         /\ TotalBooked \in Nat /\ TotalBooked = Total(g.booked)
         /\ scheduleList \in [Cid -> Nat]
         /\ mbuf \in [Cid -> Seq(SduSize)] /\ vbuf \in [Cid -> Seq(SduSize)]
<1>1. TypeOK /\ ActiveFollows /\ ScheduledOnce
  BY DEF Inv, BufferInv
<1>2. g \in Grant /\ alloc \in Allocation /\ scheduleList \in [Cid -> Nat]
      /\ mbuf \in [Cid -> Seq(SduSize)] /\ vbuf \in [Cid -> Seq(SduSize)]
  BY <1>1 DEF TypeOK
<1>3. top # NoCid
  BY <1>1 DEF ActiveFollows, InGrant
<1>4. top \in Cid /\ Owner[top] \in Ue
  BY <1>1, <1>3, GrantTop
<1>5. Owner[top] \notin cws
  BY <1>1 DEF ScheduledOnce
<1>6. scheduleList[top] = 0
  <2>1. ~(scheduleList[top] > 0)
    BY <1>1, <1>4, <1>5 DEF ScheduledOnce
  <2>2. scheduleList[top] \in Nat
    BY <1>2, <1>4
  <2> QED BY <2>1, <2>2
<1>7. g.booked \in Seq(Request)
  BY <1>2, GrantFields
<1>8. TotalBooked \in Nat /\ TotalBooked = Total(g.booked)
  BY <1>7, BookedTotal, TotalIs
<1> QED BY <1>2, <1>3, <1>4, <1>5, <1>6, <1>7, <1>8

\* Packets are numbers of bytes.
LEMMA QueueOfNat ==
  ASSUME NEW m \in Seq(SduSize)
  PROVE  m \in Seq(Nat) /\ Len(m) \in Nat
<1>1. SduSize \subseteq Nat
  BY DownlinkAssumption
<1>2. \A i \in 1 .. Len(m) : m[i] \in SduSize
  OBVIOUS
<1>3. Len(m) \in Nat /\ m = [i \in 1 .. Len(m) |-> m[i]]
  OBVIOUS
<1>4. \A i \in 1 .. Len(m) : m[i] \in Nat
  BY <1>1, <1>2
<1> QED BY <1>3, <1>4

LEMMA CarriedKept ==
  ASSUME NEW u \in Ue, \A b \in Band : alloc'.blocks[u][b] = alloc.blocks[u][b]
  PROVE  Carried(u)' = Carried(u)
<1>1. [b \in Band |-> ComputeBytesOnNRbs(u, alloc'.blocks[u][b])]
        = [b \in Band |-> ComputeBytesOnNRbs(u, alloc.blocks[u][b])]
  OBVIOUS
<1> QED BY <1>1 DEF Carried

LEMMA CarriedNat ==
  ASSUME NEW u \in Ue, alloc \in Allocation, BlocksNoted
  PROVE  Carried(u) \in Nat
<1> DEFINE f == [b \in Band |-> ComputeBytesOnNRbs(u, alloc.blocks[u][b])]
<1>1. \A b \in Band : alloc.blocks[u][b] \in Nat /\ alloc.blocks[u][b] <= BlocksPerBand
  BY DEF Allocation, BlocksNoted
<1>2. \A b \in Band : alloc.blocks[u][b] \in 0 .. BlocksPerBand
  BY <1>1, BlocksPerBandNat
<1>3. \A b \in Band : f[b] \in Nat
  BY <1>2, BytesNat
<1>4. IsFiniteSet(Band)
  <2>1. NumBands \in Int /\ 1 \in Int
    BY BandAssumption
  <2> QED BY <2>1, FS_Interval DEF Band
<1>5. Carried(u) = SumFunctionOnSet(f, Band)
  BY DEF Carried, SumFunction
<1> HIDE DEF f
<1> QED BY <1>3, <1>4, <1>5, SumNat

\* Outside a grant there is nothing to say of one.
LEMMA NoGrant ==
  ASSUME pc' \in {"idle", "rank", "make"}
  PROVE  BookedSpent' /\ GrantFits' /\ OnlyRejectedThrows' /\ ~InGrant'
BY DEF BookedSpent, GrantFits, OnlyRejectedThrows, InGrant

\* A step of a grant leaves what other UEs got.
LEMMA OthersKept ==
  ASSUME Inv, InGrant, UNCHANGED <<mbuf, rejected, top, cws, scheduleList>>,
         spread \subseteq spread',
         \A u \in Ue \ {Owner[top]}, b \in Band :
           alloc'.blocks[u][b] = alloc.blocks[u][b]
  PROVE  ScheduledFits' /\ (pc' # "idle" => ScheduledOnce')
<1>1. ScheduledFits /\ ScheduledOnce /\ pc # "error"
  BY DEF Inv, InGrant
<1>2. ASSUME NEW c \in Cid, c \notin rejected, scheduleList[c] > 0, Owner[c] \notin spread'
      PROVE  PduBytes(c, scheduleList[c])' <= Carried(Owner[c])'
  <2>1. Owner[c] \in Ue \ {Owner[top]}
    <3>1. Owner[c] \in cws /\ Owner[c] \in Ue
      BY <1>1, <1>2, DownlinkAssumption DEF ScheduledOnce
    <3> QED BY <3>1, GrantFacts
  <2>2. Carried(Owner[c])' = Carried(Owner[c])
    BY <2>1, CarriedKept
  <2>3. PduBytes(c, scheduleList[c])' = PduBytes(c, scheduleList[c])
    BY DEF PduBytes
  <2>4. PduBytes(c, scheduleList[c]) <= Carried(Owner[c])
    BY <1>1, <1>2 DEF ScheduledFits
  <2> QED BY <2>2, <2>3, <2>4
<1>3. ScheduledFits'
  BY <1>2 DEF ScheduledFits
<1>4. pc' # "idle" => ScheduledOnce'
  BY <1>1 DEF ScheduledOnce, InGrant
<1> QED BY <1>3, <1>4

\* A step of a grant that allocates nothing.
LEMMA NotesKept ==
  ASSUME Inv, InGrant, InGrant', UNCHANGED <<alloc, cws, top>>,
         g'.band \in Nat, g.band <= g'.band, g'.cwBytes = g.cwBytes
  PROVE  BlocksNoted' /\ Carried(Owner[top])' = Carried(Owner[top])
<1>1. BlocksNoted /\ g.band \in Nat
  BY GrantFacts, GrantFields DEF Inv
<1>2. \A b \in Band : b \in Nat /\ (g'.band <= b => g.band <= b)
  BY <1>1 DEF Band
<1>3. Carried(Owner[top])' = Carried(Owner[top])
  BY DEF Carried
<1> QED BY <1>1, <1>2, <1>3 DEF BlocksNoted

\* The blocks of a band that an allocation has noted for all UEs.
GivenBy(a, b) == SumFunction([u \in Ue |-> a.blocks[u][b]])

OnceIn(a) ==
  \A b \in Band : /\ GivenBy(a, b) <= a.taken[b]
                  /\ GivenBy(a, b) > 0 => a.taken[b] <= BlocksPerBand

LEMMA NothingGiven ==
  ASSUME NEW taken \in [Band -> Nat]
  PROVE  OnceIn(Allocated(taken))
<1> SUFFICES ASSUME NEW b \in Band
             PROVE  GivenBy(Allocated(taken), b) = 0
  BY DEF OnceIn, Allocated
<1> DEFINE f == [u \in Ue |-> Allocated(taken).blocks[u][b]]
<1>1. \A u \in Ue : f[u] = 0
  BY DEF Allocated
<1>2. GivenBy(Allocated(taken), b) = SumFunctionOnSet(f, Ue)
  BY DEF GivenBy, SumFunction
<1> HIDE DEF f
<1> QED BY <1>1, <1>2, SumZero, UeAssumption

LEMMA AddBlocksOnce ==
  ASSUME NEW a \in Allocation, NEW u \in Ue, NEW b \in Band,
         NEW n \in Nat, NEW bytes \in Nat, OnceIn(a)
  PROVE  OnceIn(AddBlocks(a, u, b, n, bytes))
<1> DEFINE s == AddBlocks(a, u, b, n, bytes)
<1>1. CASE AddBlocksFails(a, b, n, bytes)
  BY <1>1 DEF AddBlocks
<1>2. CASE ~AddBlocksFails(a, b, n, bytes)
  <2>1. /\ s.taken = [a.taken EXCEPT ![b] = @ + n]
        /\ s.blocks = [a.blocks EXCEPT ![u][b] = @ + n]
    BY <1>2 DEF AddBlocks, Allocation
  <2>2. a.taken \in [Band -> Nat] /\ a.blocks \in [Ue -> [Band -> Nat]]
    BY DEF Allocation
  <2>3. n = 0 \/ a.taken[b] + n <= BlocksPerBand
    BY <1>2, <2>2, BlocksPerBandNat DEF AddBlocksFails, AvailableBlocks
  <2> HIDE DEF s
  <2>4. ASSUME NEW d \in Band
        PROVE  /\ GivenBy(s, d) <= s.taken[d]
               /\ GivenBy(s, d) > 0 => s.taken[d] <= BlocksPerBand
    <3> DEFINE f == [v \in Ue |-> a.blocks[v][d]]
               e == [v \in Ue |-> s.blocks[v][d]]
               m == IF d = b THEN n ELSE 0
    <3>1. /\ GivenBy(a, d) = SumFunctionOnSet(f, Ue)
          /\ GivenBy(s, d) = SumFunctionOnSet(e, Ue)
      BY DEF GivenBy, SumFunction
    <3>2. \A v \in Ue : f[v] \in Nat
      BY <2>2
    <3>3. e[u] = f[u] + m
      BY <2>1, <2>2
    <3>4. \A v \in Ue \ {u} : e[v] = f[v]
      BY <2>1, <2>2
    <3>5. m \in Nat
      OBVIOUS
    <3> HIDE DEF f, e, m
    <3>6. GivenBy(a, d) \in Nat /\ GivenBy(s, d) = GivenBy(a, d) + m
      BY <3>1, <3>2, <3>3, <3>4, <3>5, SumRaised, UeAssumption
    <3>7. s.taken[d] = a.taken[d] + m /\ a.taken[d] \in Nat
      BY <2>1, <2>2 DEF m
    <3>8. m = 0 \/ a.taken[d] + m <= BlocksPerBand
      BY <2>3 DEF m
    <3>9. /\ GivenBy(a, d) <= a.taken[d]
          /\ GivenBy(a, d) > 0 => a.taken[d] <= BlocksPerBand
      BY DEF OnceIn
    <3> QED BY <3>5, <3>6, <3>7, <3>8, <3>9
  <2> QED BY <2>4 DEF OnceIn, s
<1> QED BY <1>1, <1>2

LEMMA GivenIs == BlocksGivenOnce <=> OnceIn(alloc)
BY DEF BlocksGivenOnce, Given, OnceIn, GivenBy

\* The loops of scheduleGrant(), over the bands, packets and booked requests.
GrantLoop ==
  NextBand \/ AllServed \/ BookBand \/ StartSdu \/ UseBooked \/ ServeSdu \/ CloseBand

\* They allocate nothing, or blocks of one band to the UE of the grant.
LEMMA GrantLoopAllocates ==
  ASSUME Inv, GrantLoop
  PROVE  /\ InGrant
         /\ \/ alloc' = alloc
            \/ \E b \in Band, n \in Nat, bytes \in Nat :
                 alloc' = AddBlocks(alloc, Owner[top], b, n, bytes)
<1>1. InGrant /\ TypeOK /\ g \in Grant /\ Owner[top] \in Ue
  <2>1. InGrant
    BY DEF GrantLoop, InGrant, NextBand, AllServed, BookBand, StartSdu, UseBooked,
           ServeSdu, CloseBand
  <2> QED BY <2>1, GrantFacts DEF Inv, BufferInv
<1>2. CASE UseBooked
  <2> DEFINE r == g.booked[g.li]
             uBytes == BytesUsed(r)
             needed == ComputeReqRbs(Owner[top], uBytes)
             uBlocks == IF needed <= r.blocks THEN needed ELSE 0
  <2>1. MoreBooked /\ g.toServe \in Nat
    BY <1>1, <1>2, GrantFields DEF UseBooked
  <2>2. g.li \in DOMAIN g.booked
    BY <1>1, <2>1, GrantFields DEF MoreBooked
  <2>3. r.band \in Band /\ r.bytes \in Nat /\ r.blocks \in Nat
    BY <1>1, <2>2, BookedFields
  <2>4. alloc' = AddBlocks(alloc, Owner[top], r.band, uBlocks, uBytes)
    BY <1>2 DEF UseBooked
  <2>5. uBytes \in Nat
    BY <2>1, <2>3 DEF BytesUsed
  <2>6. needed \in Nat
    BY <1>1, <2>5, ReqRbs
  <2>7. uBlocks \in Nat
    BY <2>3, <2>6
  <2> HIDE DEF r, uBytes, uBlocks
  <2> QED BY <1>1, <2>3, <2>4, <2>5, <2>7
<1>3. CASE CloseBand /\ alloc' # alloc
  <2> DEFINE n == ComputeReqRbs(Owner[top], g.allocated)
  <2>1. alloc' = AddBlocks(alloc, Owner[top], g.band, n, g.allocated)
    BY <1>3 DEF CloseBand
  <2>2. g.band \in Band /\ n \in Nat
    BY <1>3, BandHolds DEF Inv, BufferInv, CloseBand
  <2>3. g.allocated \in Nat
    BY <1>1, GrantFields
  <2> HIDE DEF n
  <2> QED BY <1>1, <2>1, <2>2, <2>3
<1>4. CASE NextBand \/ AllServed \/ BookBand \/ StartSdu \/ ServeSdu
  BY <1>1, <1>4 DEF NextBand, AllServed, BookBand, StartSdu, ServeSdu
<1> QED BY <1>1, <1>2, <1>3, <1>4 DEF GrantLoop

\* Every step allocates nothing, starts a TTI, or adds blocks of one band.
LEMMA NextGivenOnce ==
  ASSUME Inv, [Next]_vars
  PROVE  BlocksGivenOnce'
<1>1. OnceIn(alloc) /\ TypeOK /\ alloc \in Allocation
  BY GivenIs DEF Inv, BufferInv, TypeOK
<1>2. CASE alloc' = alloc
  BY <1>1, <1>2 DEF BlocksGivenOnce, Given, OnceIn, GivenBy
<1>3. ASSUME NEW taken \in [Band -> Nat], alloc' = Allocated(taken)
      PROVE  BlocksGivenOnce'
  <2>1. OnceIn(Allocated(taken))
    BY NothingGiven
  <2> QED BY <1>3, <2>1 DEF BlocksGivenOnce, Given, OnceIn, GivenBy
<1>4. CASE StartTti
  <2>1. PICK taken \in RtxBlocks : alloc' = Allocated(taken)
    BY <1>4 DEF StartTti
  <2>2. taken \in [Band -> Nat]
    BY DownlinkAssumption
  <2> QED BY <1>3, <2>1, <2>2
<1>5. CASE MacPduMake
  <2>1. [b \in Band |-> 0] \in [Band -> Nat]
    OBVIOUS
  <2> QED BY <1>3, <1>5, <2>1 DEF MacPduMake
<1>6. CASE GrantLoop /\ alloc' # alloc
  <2>1. PICK b \in Band, n \in Nat, bytes \in Nat :
          InGrant /\ alloc' = AddBlocks(alloc, Owner[top], b, n, bytes)
    BY <1>6, GrantLoopAllocates
  <2>2. Owner[top] \in Ue
    BY <2>1, GrantFacts
  <2>3. OnceIn(AddBlocks(alloc, Owner[top], b, n, bytes))
    BY <1>1, <2>2, AddBlocksOnce
  <2> QED BY <2>1, <2>3 DEF BlocksGivenOnce, Given, OnceIn, GivenBy
<1>7. ASSUME ~StartTti, ~MacPduMake, ~GrantLoop
      PROVE  alloc' = alloc
  BY <1>7 DEF Next, TtiStep, GrantLoop, BufferizePacket, RequestGrant, EndGrant, Failed,
              vars
<1> QED BY <1>2, <1>4, <1>5, <1>6, <1>7

LEMMA InitInv == Init => Inv
<1> SUFFICES ASSUME Init PROVE Inv
  OBVIOUS
<1>1. BufferInv
  BY InitBufferInv
<1>2. BookedSpent /\ OnlyRejectedThrows /\ GrantFits /\ ~InGrant
  BY DEF Init, BookedSpent, OnlyRejectedThrows, GrantFits, InGrant
<1>3. scheduleList = [c \in Cid |-> 0] /\ pc = "idle"
      /\ alloc = Allocated([b \in Band |-> 0])
  BY DEF Init
<1>4. BlocksNoted
  <2>1. \A u \in Ue, b \in Band : alloc.blocks[u][b] = 0 /\ alloc.taken[b] = 0
    BY <1>3 DEF Allocated
  <2> QED BY <1>2, <2>1, BlocksPerBandNat DEF BlocksNoted
<1>5. ScheduledOnce /\ ScheduledFits
  BY <1>2, <1>3 DEF ScheduledOnce, ScheduledFits
<1>6. BlocksGivenOnce
  <2>1. [b \in Band |-> 0] \in [Band -> Nat]
    OBVIOUS
  <2> QED BY <1>3, <2>1, NothingGiven, GivenIs
<1>7. CodewordHasPacket /\ TtiForgotten
  BY DEF Init, CodewordHasPacket, TtiForgotten
<1> QED BY <1>1, <1>2, <1>4, <1>5, <1>6, <1>7, InvParts DEF Safe

LEMMA BufferizePacketSafe ==
  ASSUME Inv, NEW c \in Cid, NEW size \in SduSize, BufferizePacket(c, size)
  PROVE  Safe'
<1>1. /\ pc = "idle" /\ pc' = "idle" /\ ~InGrant
      /\ UNCHANGED <<top, cws, alloc, g, spread, scheduleList>>
  BY DEF BufferizePacket, InGrant
<1>2. BlocksNoted /\ ScheduledOnce /\ scheduleList = [d \in Cid |-> 0]
  BY <1>1 DEF Inv, ScheduledOnce
<1>3. BookedSpent' /\ GrantFits' /\ OnlyRejectedThrows' /\ ~InGrant'
  BY <1>1, NoGrant
<1>4. BlocksNoted'
  BY <1>1, <1>2, <1>3 DEF BlocksNoted
<1>5. ScheduledOnce' /\ ScheduledFits'
  BY <1>1, <1>2, <1>3 DEF ScheduledOnce, ScheduledFits
<1> QED BY <1>3, <1>4, <1>5 DEF Safe

LEMMA StartTtiSafe ==
  ASSUME Inv, StartTti
  PROVE  Safe'
<1>1. /\ pc = "idle" /\ pc' \in {"rank", "make"} /\ scheduleList' = scheduleList
  BY DEF StartTti
<1>2. PICK taken \in RtxBlocks : alloc' = Allocated(taken)
  BY DEF StartTti
<1>3. scheduleList' = [d \in Cid |-> 0]
  BY <1>1 DEF Inv, ScheduledOnce
<1>4. BookedSpent' /\ GrantFits' /\ OnlyRejectedThrows' /\ ~InGrant'
  BY <1>1, NoGrant
<1>5. BlocksNoted'
  <2>1. taken \in [Band -> Nat]
    BY <1>2, DownlinkAssumption
  <2>2. \A u \in Ue, b \in Band : alloc'.blocks[u][b] = 0 /\ alloc'.taken[b] \in Nat
    BY <1>2, <2>1 DEF Allocated
  <2> QED BY <1>4, <2>2, BlocksPerBandNat DEF BlocksNoted
<1>6. ScheduledOnce' /\ ScheduledFits'
  BY <1>1, <1>3, <1>4 DEF ScheduledOnce, ScheduledFits
<1> QED BY <1>4, <1>5, <1>6 DEF Safe

LEMMA RequestGrantSafe ==
  ASSUME Inv, RequestGrant
  PROVE  Safe'
<1>1. /\ pc = "rank" /\ ~InGrant
      /\ UNCHANGED <<mbuf, rejected, top, cws, alloc, spread, scheduleList>>
      /\ \/ pc' = "make"
         \/ pc' = "band" /\ g' = NewGrant /\ top # NoCid /\ Owner[top] \notin cws
  BY DEF RequestGrant, buffers, InGrant
<1>2. BlocksNoted /\ ScheduledOnce /\ ScheduledFits /\ TypeOK
  BY DEF Inv, BufferInv
<1>3. ScheduledFits'
  <2>1. ASSUME NEW c \in Cid
        PROVE  /\ PduBytes(c, scheduleList[c])' = PduBytes(c, scheduleList[c])
               /\ Carried(Owner[c])' = Carried(Owner[c])
    BY <1>1 DEF PduBytes, Carried
  <2> QED BY <1>1, <1>2, <2>1 DEF ScheduledFits
<1>4. ScheduledOnce'
  BY <1>1, <1>2 DEF ScheduledOnce, InGrant
<1>5. CASE pc' = "make"
  <2>1. BookedSpent' /\ GrantFits' /\ OnlyRejectedThrows' /\ ~InGrant'
    BY <1>5, NoGrant
  <2>2. BlocksNoted'
    BY <1>1, <1>2, <2>1 DEF BlocksNoted
  <2> QED BY <1>3, <1>4, <2>1, <2>2 DEF Safe
<1>6. CASE pc' = "band"
  <2>1. /\ g'.booked = <<>> /\ g'.items = 0 /\ g'.firstSdu = TRUE
        /\ top # NoCid /\ Owner[top] \notin cws
    BY <1>1, <1>6 DEF NewGrant
  <2>2. Owner[top] \in Ue
    BY <1>2, <2>1, GrantTop
  <2>3. BookedSpent'
    BY <1>6, <2>1 DEF BookedSpent
  <2>4. \A b \in Band : alloc.blocks[Owner[top]][b] = 0
    BY <1>1, <1>2, <2>1, <2>2 DEF BlocksNoted
  <2>5. BlocksNoted'
    BY <1>1, <1>2, <2>4 DEF BlocksNoted
  <2>6. GrantFits' /\ OnlyRejectedThrows'
    BY <1>6, <2>1 DEF GrantFits, OnlyRejectedThrows
  <2> QED BY <1>3, <1>4, <2>3, <2>5, <2>6 DEF Safe
<1> QED BY <1>1, <1>5, <1>6

LEMMA NextBandSafe ==
  ASSUME Inv, NextBand
  PROVE  Safe'
<1> DEFINE blocks == AvailableBlocks(alloc, g.band)
           bytes == ComputeBytesOnNRbs(Owner[top], blocks)
<1>1. /\ pc = "band" /\ InGrant /\ BookedSpent /\ GrantFits /\ g \in Grant
      /\ UNCHANGED <<mbuf, vbuf, rejected, top, cws, alloc, spread, scheduleList>>
  <2>1. pc = "band" /\ InGrant
    BY DEF NextBand, InGrant
  <2> QED BY <2>1, GrantFacts DEF NextBand, buffers, Inv
<1>2. \/ pc' = "end" /\ g' = g
      \/ g' = [g EXCEPT !.band = @ + 1] /\ pc' = "band"
      \/ /\ pc' = "serve" /\ bytes > 0
         /\ g' = [g EXCEPT !.bytes = bytes, !.blocks = blocks, !.allocated = 0]
  BY <1>1 DEF NextBand
<1> HIDE DEF blocks, bytes
<1>3. /\ g'.items = g.items /\ g'.cwBytes = g.cwBytes /\ g'.booked = g.booked
      /\ g'.firstSdu = g.firstSdu
      /\ g'.band \in {g.band, g.band + 1}
      /\ pc' = "serve" => g'.bytes > 0 /\ g'.allocated = 0
      /\ g.band \in Nat
  BY <1>1, <1>2, GrantFields DEF Grant
<1>4. InGrant' /\ pc' \in {"end", "band", "serve"}
  BY <1>2 DEF InGrant
<1>5. BlocksNoted' /\ Carried(Owner[top])' = Carried(Owner[top])
  BY <1>1, <1>3, <1>4, NotesKept
<1>6. ScheduledFits' /\ ScheduledOnce'
  BY <1>1, <1>4, OthersKept
<1>7. TotalBooked' = TotalBooked
  BY <1>3 DEF TotalBooked
<1>8. BookedSpent'
  BY <1>1, <1>3, <1>4, <1>7 DEF BookedSpent
<1>9. GrantFits'
  <2>1. PduBytes(top, g.items)' = PduBytes(top, g.items)
    BY <1>1, <1>3 DEF PduBytes
  <2>2. Carried(Owner[top]) \in Nat
    BY <1>1, GrantFacts, CarriedNat DEF Inv
  <2>3. ASSUME top \notin rejected, Owner[top] \notin spread
        PROVE  /\ g.items > 0 => PduBytes(top, g.items) <= Carried(Owner[top])
               /\ g.firstSdu => g.items = 0
               /\ g.items = 0 /\ ~g.firstSdu => TotalBooked > 0
    BY <1>1, <2>2, <2>3 DEF GrantFits
  <2>4. Carried(Owner[top]) + 0 = Carried(Owner[top])
    BY <2>2
  <2>5. (IF pc' \in {"serve", "booked", "close"} THEN g'.allocated ELSE 0) = 0
    BY <1>3, <1>4
  <2> QED BY <1>1, <1>3, <1>4, <1>5, <1>7, <2>1, <2>3, <2>4, <2>5 DEF GrantFits
<1>10. OnlyRejectedThrows'
  BY <1>4 DEF OnlyRejectedThrows
<1> QED BY <1>5, <1>6, <1>8, <1>9, <1>10 DEF Safe

LEMMA AllServedSafe ==
  ASSUME Inv, AllServed
  PROVE  Safe'
<1>1. /\ pc = "serve" /\ pc' = "close" /\ InGrant /\ InGrant'
      /\ BookedSpent /\ GrantFits /\ g \in Grant
      /\ UNCHANGED <<mbuf, vbuf, rejected, top, cws, alloc, spread, scheduleList>>
  <2>1. pc = "serve" /\ pc' = "close" /\ InGrant /\ InGrant'
    BY DEF AllServed, InGrant
  <2> QED BY <2>1, GrantFacts DEF AllServed, buffers, Inv
<1>2. /\ g'.items = g.items /\ g'.cwBytes = g.cwBytes /\ g'.booked = g.booked
      /\ g'.firstSdu = g.firstSdu /\ g'.band = g.band /\ g'.allocated = g.allocated
      /\ g.band \in Nat
  BY <1>1, GrantFields DEF Grant, AllServed
<1>3. BlocksNoted' /\ Carried(Owner[top])' = Carried(Owner[top])
  BY <1>1, <1>2, NotesKept
<1>4. ScheduledFits' /\ ScheduledOnce'
  BY <1>1, OthersKept
<1>5. TotalBooked' = TotalBooked
  BY <1>2 DEF TotalBooked
<1>6. BookedSpent'
  BY <1>1, <1>2, <1>5 DEF BookedSpent
<1>7. GrantFits'
  <2>1. PduBytes(top, g.items)' = PduBytes(top, g.items)
    BY <1>1, <1>2 DEF PduBytes
  <2> QED BY <1>1, <1>2, <1>3, <1>5, <2>1 DEF GrantFits
<1>8. OnlyRejectedThrows'
  BY <1>1 DEF OnlyRejectedThrows
<1> QED BY <1>3, <1>4, <1>6, <1>7, <1>8 DEF Safe

\* The packet at the head of the virtual buffer.
LEMMA HeadSize ==
  ASSUME Inv, InGrant, vbuf[top] # <<>>
  PROVE  /\ Head(vbuf[top]) \in Nat /\ Head(vbuf[top]) = vbuf[top][1]
         /\ 1 \in DOMAIN vbuf[top] /\ MacHeader \in Nat
         /\ Len(vbuf[top]) \in Nat /\ Len(vbuf[top]) > 0
<1>1. vbuf[top] \in Seq(SduSize)
  BY GrantFacts
<1>2. Head(vbuf[top]) \in SduSize /\ Head(vbuf[top]) = vbuf[top][1]
      /\ Len(vbuf[top]) \in Nat /\ Len(vbuf[top]) > 0 /\ 1 \in DOMAIN vbuf[top]
  BY <1>1
<1>3. SduSize \subseteq Nat /\ MacHeader \in Nat
  BY DownlinkAssumption
<1> QED BY <1>2, <1>3

LEMMA BookBandSafe ==
  ASSUME Inv, BookBand
  PROVE  Safe'
<1> DEFINE blocksAdded == ComputeReqRbs(Owner[top], g.allocated)
           r == [band |-> g.band, bytes |-> g.bytes, blocks |-> g.blocks - blocksAdded]
<1>1. /\ pc = "serve" /\ InGrant /\ vbuf[top] # <<>>
      /\ ToServe > g.bytes + TotalBooked
      /\ BookedSpent /\ GrantFits /\ g \in Grant
      /\ UNCHANGED <<mbuf, vbuf, rejected, top, cws, alloc, spread, scheduleList>>
      /\ TypeOK /\ ActiveFollows /\ BandFits
  <2>1. pc = "serve" /\ InGrant
    BY DEF BookBand, InGrant
  <2> QED BY <2>1, GrantFacts DEF BookBand, buffers, Inv, BufferInv
<1>2. /\ g.band \in Band /\ blocksAdded \in Nat /\ blocksAdded <= g.blocks
  BY <1>1, BandHolds
<1>3. r \in Request /\ r.bytes = g.bytes
  BY <1>1, <1>2, GrantFields DEF Request
<1>4. /\ pc' = "close"
      /\ g' = [g EXCEPT !.firstSdu = FALSE, !.booked = Append(@, r)]
  BY <1>1, <1>2, GrantFields DEF BookBand, NextBandBooked
<1> HIDE DEF r, blocksAdded
<1>5. /\ g'.items = g.items /\ g'.cwBytes = g.cwBytes
      /\ g'.booked = Append(g.booked, r) /\ g'.firstSdu = FALSE
      /\ g'.band = g.band /\ g'.allocated = g.allocated
      /\ g.band \in Nat /\ g.bytes \in Nat /\ g.booked \in Seq(Request)
  BY <1>1, <1>4, GrantFields DEF Grant
<1>6. /\ TotalBooked \in Nat /\ TotalBooked' = TotalBooked + g.bytes
      /\ Len(g'.booked) = Len(g.booked) + 1
  <2>1. TotalBooked \in Nat /\ TotalBooked = Total(g.booked)
    BY <1>1, GrantFacts
  <2>2. TotalBooked' = Total(g'.booked)
    BY DEF TotalBooked, Total, Sizes
  <2> QED BY <1>3, <1>5, <2>1, <2>2, TotalAppend
<1>7. InGrant'
  BY <1>4 DEF InGrant
<1>8. BlocksNoted' /\ Carried(Owner[top])' = Carried(Owner[top])
  BY <1>1, <1>5, <1>7, NotesKept
<1>9. ScheduledFits' /\ ScheduledOnce'
  BY <1>1, <1>4, OthersKept
<1>10. BookedSpent'
  <2>1. ASSUME Len(g'.booked) > 1 PROVE TotalBooked' < Head(vbuf[top])
    <3>1. g.booked # <<>>
      BY <1>5, <1>6, <2>1
    <3>2. ~g.firstSdu
      BY <1>1, <3>1 DEF BookedSpent
    <3>3. Head(vbuf[top]) \in Nat
      BY <1>1, HeadSize
    <3> QED BY <1>1, <1>5, <1>6, <3>2, <3>3 DEF ToServe
  <2> QED BY <1>1, <1>4, <1>5, <2>1 DEF BookedSpent
<1>11. GrantFits'
  <2>1. PduBytes(top, g.items)' = PduBytes(top, g.items)
    BY <1>1, <1>5 DEF PduBytes
  <2>2. ASSUME top \notin rejected, Owner[top] \notin spread, g.items = 0
        PROVE  TotalBooked' > 0
    <3>1. CASE g.firstSdu
      <4>1. g.bytes > 0
        BY <1>1, <2>2, <3>1 DEF GrantFits
      <4> QED BY <1>5, <1>6, <4>1
    <3>2. CASE ~g.firstSdu
      <4>1. TotalBooked > 0
        BY <1>1, <2>2, <3>2 DEF GrantFits
      <4> QED BY <1>5, <1>6, <4>1
    <3> QED BY <3>1, <3>2
  <2> QED BY <1>1, <1>4, <1>5, <1>8, <2>1, <2>2 DEF GrantFits
<1>12. OnlyRejectedThrows'
  BY <1>4 DEF OnlyRejectedThrows
<1> QED BY <1>8, <1>9, <1>10, <1>11, <1>12 DEF Safe

LEMMA StartSduSafe ==
  ASSUME Inv, StartSdu
  PROVE  Safe'
<1> DEFINE li == IF TotalBooked > 0 THEN 1 ELSE Len(g.booked) + 1
<1>1. /\ pc = "serve" /\ pc' = "booked" /\ InGrant /\ InGrant' /\ vbuf[top] # <<>>
      /\ ToServe <= g.bytes + TotalBooked
      /\ BookedSpent /\ GrantFits /\ g \in Grant
      /\ UNCHANGED <<mbuf, vbuf, rejected, top, cws, alloc, spread, scheduleList>>
  <2>1. pc = "serve" /\ pc' = "booked" /\ InGrant /\ InGrant'
    BY DEF StartSdu, InGrant
  <2> QED BY <2>1, GrantFacts DEF StartSdu, buffers, Inv
<1>2. g' = [g EXCEPT !.firstSdu = FALSE, !.toServe = ToServe, !.used = 0, !.li = li]
  BY DEF StartSdu
<1> HIDE DEF li
<1>3. /\ g'.items = g.items /\ g'.cwBytes = g.cwBytes /\ g'.booked = g.booked
      /\ g'.firstSdu = FALSE /\ g'.band = g.band /\ g'.allocated = g.allocated
      /\ g'.toServe = ToServe /\ g'.used = 0 /\ g'.li = li /\ g'.bytes = g.bytes
  BY <1>1, <1>2 DEF Grant
<1>4. g.band \in Nat /\ g.bytes \in Nat /\ Len(g.booked) \in Nat
  BY <1>1, GrantFields
<1>5. BlocksNoted' /\ Carried(Owner[top])' = Carried(Owner[top])
  BY <1>1, <1>3, <1>4, NotesKept
<1>6. ScheduledFits' /\ ScheduledOnce'
  BY <1>1, OthersKept
<1>7. /\ TotalBooked' = TotalBooked /\ TotalBooked \in Nat
      /\ TotalBooked > 0 => g.booked # <<>>
  <2>1. TotalBooked \in Nat /\ TotalBooked = Total(g.booked)
    BY <1>1, GrantFacts
  <2>2. g.booked = <<>> => TotalBooked = 0
    BY <1>1, <2>1, GrantFacts, TotalIs
  <2> QED BY <1>3, <2>1, <2>2 DEF TotalBooked
<1>8. /\ Head(vbuf[top]) \in Nat /\ MacHeader \in Nat
      /\ ToServe = Head(vbuf[top]) + IF g.firstSdu THEN MacHeader ELSE 0
      /\ ToServe \in Nat /\ Head(vbuf[top]) <= ToServe
  <2>1. Head(vbuf[top]) \in Nat /\ MacHeader \in Nat
    BY <1>1, HeadSize
  <2> QED BY <2>1 DEF ToServe
<1>9. BookedSpent'
  <2>1. CASE TotalBooked > 0
    <3>1. li = 1 /\ Len(g.booked) > 0
      <4>1. g.booked # <<>> /\ li = 1
        BY <1>7, <2>1 DEF li
      <4>2. g.booked \in Seq(Request)
        BY <1>1, GrantFields
      <4> QED BY <4>1, <4>2
    <3>2. Len(g.booked) = 1 \/ Len(g.booked) > 1
      <4> DEFINE n == Len(g.booked)
      <4>1. n \in Nat /\ n > 0
        BY <1>4, <3>1
      <4> HIDE DEF n
      <4>2. n = 1 \/ n > 1
        BY <4>1
      <4> QED BY <4>2 DEF n
    <3>3. Len(g.booked) > 1 => TotalBooked < Head(vbuf[top])
      BY <1>1, <2>1 DEF BookedSpent
    <3>4. 0 + TotalBooked <= ToServe \/ (Len(g.booked) = 1 /\ TotalBooked > ToServe)
      BY <1>7, <1>8, <3>2, <3>3
    <3>5. ToServe <= 0 + TotalBooked + g.bytes
      BY <1>1, <1>4, <1>7, <1>8
    <3> QED BY <1>1, <1>3, <1>7, <3>1, <3>4, <3>5 DEF BookedSpent
  <2>2. CASE ~(TotalBooked > 0)
    <3>1. li = Len(g.booked) + 1 /\ TotalBooked = 0
      BY <1>7, <2>2 DEF li
    <3>2. ToServe <= 0 + TotalBooked + g.bytes
      BY <1>1, <1>4, <1>7, <1>8
    <3> QED BY <1>1, <1>3, <1>7, <3>1, <3>2 DEF BookedSpent
  <2> QED BY <2>1, <2>2
<1>10. GrantFits'
  <2>1. PduBytes(top, g.items)' = PduBytes(top, g.items)
    BY <1>1, <1>3 DEF PduBytes
  <2>2. ASSUME top \notin rejected, Owner[top] \notin spread
        PROVE  \/ TotalBooked > 0 /\ li = 1
               \/ /\ TotalBooked = 0
                  /\ ToServe = Head(vbuf[top]) + IF g.items = 0 THEN MacHeader ELSE 0
    <3>1. CASE TotalBooked > 0
      BY <3>1 DEF li
    <3>2. CASE TotalBooked = 0
      <4>1. g.firstSdu <=> g.items = 0
        BY <1>1, <2>2, <3>2 DEF GrantFits
      <4> QED BY <1>8, <3>2, <4>1
    <3> QED BY <1>7, <3>1, <3>2
  <2> QED BY <1>1, <1>3, <1>5, <1>7, <2>1, <2>2 DEF GrantFits
<1>11. OnlyRejectedThrows'
  BY <1>1 DEF OnlyRejectedThrows
<1> QED BY <1>5, <1>6, <1>9, <1>10, <1>11 DEF Safe

LEMMA UseBookedSafe ==
  ASSUME Inv, UseBooked
  PROVE  Safe'
<1> DEFINE r == g.booked[g.li]
           uBytes == BytesUsed(r)
           needed == ComputeReqRbs(Owner[top], uBytes)
           uBlocks == IF needed <= r.blocks THEN needed ELSE 0
           left == [r EXCEPT !.bytes = @ - g.toServe,
                             !.blocks = IF needed <= @ THEN @ - needed ELSE 0]
           depleted == r.bytes <= g.toServe
           booked == IF depleted THEN RemoveAt(g.booked, g.li)
                     ELSE [g.booked EXCEPT ![g.li] = left]
           li == IF depleted THEN g.li ELSE g.li + 1
<1>1. /\ pc = "booked" /\ pc' = "booked" /\ InGrant /\ InGrant' /\ MoreBooked
      /\ BookedSpent /\ GrantFits /\ BlocksNoted /\ g \in Grant
      /\ ItemsHaveBytes /\ BandFits /\ alloc \in Allocation
      /\ UNCHANGED <<mbuf, vbuf, rejected, top, cws, scheduleList>>
  <2>1. pc = "booked" /\ pc' = "booked" /\ InGrant /\ InGrant'
    BY DEF UseBooked, InGrant
  <2> QED BY <2>1, GrantFacts DEF UseBooked, buffers, Inv, BufferInv
<1>2. /\ alloc' = AddBlocks(alloc, Owner[top], r.band, uBlocks, uBytes)
      /\ g' = [g EXCEPT !.used = @ + uBytes, !.cwBytes = @ + uBytes,
                        !.booked = booked, !.li = li]
      /\ spread' = IF uBytes > 0 THEN spread \cup {Owner[top]} ELSE spread
  BY <1>1 DEF UseBooked, Grant
<1>3. /\ g.li \in DOMAIN g.booked /\ r \in Request /\ r.band \in Band
      /\ r.band \in Nat /\ r.bytes \in Nat /\ r.blocks \in Nat
      /\ g.toServe \in Nat /\ Owner[top] \in Ue /\ r.band < g.band
  <2>1. g.li \in DOMAIN g.booked
    BY <1>1, GrantFields DEF MoreBooked
  <2> QED BY <1>1, <2>1, BookedFields, GrantFields, GrantFacts DEF BandFits
<1>4. uBytes \in Nat
  BY <1>3 DEF BytesUsed
<1>5. needed \in Nat /\ uBlocks \in Nat
  BY <1>3, <1>4, ReqRbs
<1>6. /\ g'.items = g.items /\ g'.cwBytes = g.cwBytes + uBytes /\ g'.booked = booked
      /\ g'.band = g.band /\ g'.bytes = g.bytes /\ g'.allocated = g.allocated
      /\ g'.toServe = g.toServe /\ g'.used = g.used + uBytes /\ g'.li = li
      /\ g'.firstSdu = g.firstSdu
  BY <1>1, <1>2 DEF Grant
<1>7. /\ g.band \in Nat /\ g.bytes \in Nat /\ g.used \in Nat /\ g.cwBytes \in Nat
      /\ g.li \in Nat \ {0} /\ Len(g.booked) \in Nat /\ g.booked \in Seq(Request)
      /\ TotalBooked \in Nat /\ TotalBooked = Total(g.booked)
      /\ g.li <= Len(g.booked) /\ g.toServe > 0
  BY <1>1, GrantFields, GrantFacts DEF MoreBooked, ItemsHaveBytes
<1>8. TotalBooked' = Total(booked)
  BY <1>6 DEF TotalBooked, Total, Sizes
<1>9. /\ g.li = 1 /\ ~g.firstSdu /\ g.toServe <= g.used + TotalBooked + g.bytes
      /\ \/ g.used + TotalBooked <= g.toServe
         \/ Len(g.booked) = 1 /\ g.used = 0 /\ TotalBooked > g.toServe
  <2>1. /\ ~g.firstSdu /\ g.toServe <= g.used + TotalBooked + g.bytes
        /\ \/ g.li = 1 /\ g.used + TotalBooked <= g.toServe
           \/ /\ g.li = 1 /\ Len(g.booked) = 1
              /\ g.used = 0 /\ TotalBooked > g.toServe
           \/ g.li = 2 /\ Len(g.booked) = 1
           \/ g.li = Len(g.booked) + 1
    BY <1>1 DEF BookedSpent
  <2>2. ~(g.li = 2 /\ Len(g.booked) = 1) /\ g.li # Len(g.booked) + 1
    <3> DEFINE n == Len(g.booked)
    <3>1. n \in Nat /\ g.li \in Nat /\ g.li <= n
      BY <1>7
    <3> HIDE DEF n
    <3>2. ~(g.li = 2 /\ n = 1) /\ g.li # n + 1
      BY <3>1
    <3> QED BY <3>2 DEF n
  <2> QED BY <2>1, <2>2
<1>10. /\ RemoveAt(g.booked, 1) \in Seq(Request)
       /\ Len(RemoveAt(g.booked, 1)) = Len(g.booked) - 1
       /\ TotalBooked = r.bytes + Total(RemoveAt(g.booked, 1))
       /\ Total(RemoveAt(g.booked, 1)) \in Nat
  <2>1. g.booked # <<>>
    BY <1>3
  <2> QED BY <1>7, <1>9, <2>1, TotalRemove, TotalIs
\* Either the bytes fall short and are used up, or those of one band do.
<1>11. \/ /\ depleted /\ uBytes = r.bytes /\ li = 1 /\ booked = RemoveAt(g.booked, 1)
          /\ TotalBooked' = TotalBooked - uBytes
          /\ g.used + TotalBooked <= g.toServe
       \/ /\ ~depleted /\ uBytes = g.toServe /\ li = 2 /\ Len(booked) = 1
          /\ g.used = 0 /\ TotalBooked' \in Nat /\ TotalBooked > g.toServe
  <2>1. CASE g.used + TotalBooked <= g.toServe
    <3>1. r.bytes <= g.toServe
      <4> DEFINE rest == Total(RemoveAt(g.booked, 1))
                 bytes == r.bytes
      <4>1. /\ TotalBooked = bytes + rest /\ rest \in Nat /\ bytes \in Nat
            /\ g.used \in Nat /\ g.toServe \in Nat
        BY <1>3, <1>7, <1>10
      <4> HIDE DEF rest, bytes
      <4>2. bytes <= g.toServe
        BY <2>1, <4>1
      <4> QED BY <4>2 DEF bytes
    <3>2. depleted /\ uBytes = r.bytes /\ li = 1 /\ booked = RemoveAt(g.booked, 1)
      BY <1>3, <1>9, <3>1 DEF BytesUsed
    <3>3. TotalBooked' = TotalBooked - uBytes
      BY <1>3, <1>7, <1>8, <1>10, <3>2
    <3> QED BY <2>1, <3>2, <3>3
  <2>2. CASE Len(g.booked) = 1 /\ g.used = 0 /\ TotalBooked > g.toServe
    <3>1. RemoveAt(g.booked, 1) = <<>>
      BY <1>10, <2>2
    <3>2. TotalBooked = r.bytes
      BY <1>3, <1>10, <3>1, TotalIs
    <3>3. ~depleted /\ uBytes = g.toServe /\ li = 2
      BY <1>3, <1>9, <2>2, <3>2 DEF BytesUsed
    <3>4. booked = [g.booked EXCEPT ![g.li] = left]
      BY <3>3
    <3>5. left \in Request
      <4>1. r.bytes - g.toServe \in Nat
        BY <1>3, <3>3
      <4>2. (IF needed <= r.blocks THEN r.blocks - needed ELSE 0) \in Nat
        BY <1>3, <1>5
      <4> QED BY <1>3, <4>1, <4>2 DEF Request
    <3>6. booked \in Seq(Request) /\ Len(booked) = 1
      <4> HIDE DEF left
      <4> QED BY <1>3, <1>7, <2>2, <3>4, <3>5
    <3>7. TotalBooked' \in Nat
      BY <1>8, <3>6, TotalIs
    <3> QED BY <2>2, <3>3, <3>6, <3>7
  <2> QED BY <1>9, <2>1, <2>2
<1> HIDE DEF r, uBytes, needed, uBlocks, left, depleted, booked, li
<1>12. BookedSpent'
  <2>1. CASE /\ uBytes = r.bytes /\ li = 1
             /\ TotalBooked' = TotalBooked - uBytes
             /\ g.used + TotalBooked <= g.toServe
    <3>1. g'.used + TotalBooked' = g.used + TotalBooked
      BY <1>4, <1>6, <1>7, <2>1
    <3>2. g'.li = 1 /\ g'.used + TotalBooked' <= g'.toServe
      BY <1>6, <2>1, <3>1
    <3>3. g'.toServe <= g'.used + TotalBooked' + g'.bytes
      BY <1>6, <1>9, <3>1
    <3> QED BY <1>1, <1>6, <1>9, <3>2, <3>3 DEF BookedSpent
  <2>2. CASE /\ uBytes = g.toServe /\ li = 2 /\ Len(booked) = 1
             /\ g.used = 0 /\ TotalBooked' \in Nat
    <3>1. g'.used = g'.toServe /\ g'.li = 2 /\ Len(g'.booked) = 1
      BY <1>3, <1>6, <2>2
    <3>2. g'.toServe <= g'.used + TotalBooked' + g'.bytes
      BY <1>3, <1>6, <1>7, <2>2, <3>1
    <3> QED BY <1>1, <1>6, <1>9, <3>1, <3>2 DEF BookedSpent
  <2> QED BY <1>11, <2>1, <2>2
<1>13. /\ AddBlocksFails(alloc, r.band, uBlocks, uBytes) => alloc' = alloc
       /\ \A v \in Ue, d \in Band : v # Owner[top] \/ d # r.band =>
            alloc'.blocks[v][d] = alloc.blocks[v][d] /\ alloc.taken[d] <= alloc'.taken[d]
       /\ ~AddBlocksFails(alloc, r.band, uBlocks, uBytes) =>
            /\ alloc'.blocks[Owner[top]][r.band]
                 = alloc.blocks[Owner[top]][r.band] + uBlocks
            /\ alloc'.taken[r.band] = alloc.taken[r.band] + uBlocks
            /\ uBlocks <= AvailableBlocks(alloc, r.band)
  <2> DEFINE s == AddBlocks(alloc, Owner[top], r.band, uBlocks, uBytes)
  <2>1. /\ AddBlocksFails(alloc, r.band, uBlocks, uBytes) => s = alloc
        /\ \A v \in Ue, d \in Band : v # Owner[top] \/ d # r.band =>
             s.blocks[v][d] = alloc.blocks[v][d] /\ alloc.taken[d] <= s.taken[d]
        /\ ~AddBlocksFails(alloc, r.band, uBlocks, uBytes) =>
             /\ s.blocks[Owner[top]][r.band]
                  = alloc.blocks[Owner[top]][r.band] + uBlocks
             /\ s.taken[r.band] = alloc.taken[r.band] + uBlocks
             /\ uBlocks <= AvailableBlocks(alloc, r.band)
    BY <1>1, <1>3, <1>4, <1>5, AddBlocksNotes
  <2>2. alloc' = s
    BY <1>2
  <2> HIDE DEF s
  <2> QED BY <2>1, <2>2
<1>14. BlocksNoted'
  <2>1. \A u \in Ue, b \in Band :
          /\ alloc'.blocks[u][b] <= alloc'.taken[b]
          /\ alloc'.blocks[u][b] <= BlocksPerBand
    BY <1>1, <1>2, <1>3, <1>4, <1>5, AddBlocksBounded DEF BlocksNoted
  <2>2. CASE AddBlocksFails(alloc, r.band, uBlocks, uBytes)
    <3>1. alloc' = alloc
      BY <1>13, <2>2
    <3>2. g'.cwBytes = 0 => g.cwBytes = 0
      BY <1>4, <1>6, <1>7
    <3> QED BY <1>1, <1>6, <3>1, <3>2 DEF BlocksNoted
  <2>3. CASE ~AddBlocksFails(alloc, r.band, uBlocks, uBytes)
    <3>1. uBytes > 0 /\ g'.cwBytes # 0
      BY <1>4, <1>6, <1>7, <2>3 DEF AddBlocksFails
    <3>2. ASSUME NEW b \in Band, g'.band <= b
          PROVE  alloc'.blocks[Owner[top]][b] = 0
      <4>1. b # r.band /\ g.band <= b
        BY <1>3, <1>6, <1>7, <3>2 DEF Band
      <4> QED BY <1>1, <1>3, <1>13, <4>1 DEF BlocksNoted
    <3>3. \A u \in Ue, b \in Band : u \notin cws /\ u # Owner[top] =>
            alloc'.blocks[u][b] = 0
      BY <1>1, <1>13 DEF BlocksNoted
    <3> QED BY <1>1, <1>6, <2>1, <3>1, <3>2, <3>3 DEF BlocksNoted
  <2> QED BY <2>2, <2>3
<1>15. ScheduledFits' /\ ScheduledOnce'
  <2>1. \A u \in Ue \ {Owner[top]}, b \in Band :
          alloc'.blocks[u][b] = alloc.blocks[u][b]
    BY <1>13
  <2>2. spread \subseteq spread'
    BY <1>2
  <2> QED BY <1>1, <2>1, <2>2, OthersKept
<1>16. GrantFits'
  <2> SUFFICES ASSUME top \notin rejected, Owner[top] \notin spread'
               PROVE  GrantFits'
    BY <1>1 DEF GrantFits
  <2>1. uBytes = 0 /\ Owner[top] \notin spread
    BY <1>2, <1>4
  <2>2. /\ uBytes = r.bytes /\ li = 1 /\ TotalBooked' = TotalBooked
    BY <1>7, <1>11, <2>1
  <2>3. alloc' = alloc
    BY <1>13, <2>1 DEF AddBlocksFails
  <2>4. Carried(Owner[top])' = Carried(Owner[top])
    BY <1>1, <2>3 DEF Carried
  <2>5. PduBytes(top, g.items)' = PduBytes(top, g.items)
    BY <1>1, <1>6 DEF PduBytes
  <2>6. g'.used = g.used
    BY <1>6, <1>7, <2>1
  <2> QED BY <1>1, <1>6, <2>1, <2>2, <2>4, <2>5, <2>6 DEF GrantFits
<1>17. OnlyRejectedThrows'
  BY <1>1 DEF OnlyRejectedThrows
<1> QED BY <1>12, <1>14, <1>15, <1>16, <1>17 DEF Safe

\* The loop over the booked requests leaves a rest that the band holds.
LEMMA LoopLeavesRest ==
  ASSUME Inv, pc = "booked", ~MoreBooked
  PROVE  /\ g.used <= g.toServe /\ g.toServe - g.used <= g.bytes
         /\ ~(Len(g.booked) > 1 /\ TotalBooked > 0)
         /\ g.used = 0 /\ g.li = 1 => TotalBooked = 0
         /\ ~g.firstSdu
<1>1. /\ pc = "booked" /\ InGrant /\ ~MoreBooked /\ BookedSpent /\ g \in Grant
      /\ g.booked \in Seq(Request) /\ TotalBooked \in Nat
      /\ TotalBooked = Total(g.booked)
  <2>1. pc = "booked" /\ InGrant
    BY DEF InGrant
  <2> QED BY <2>1, GrantFacts DEF Inv
<1> DEFINE n == Len(g.booked)
<1>2. /\ g.used \in Nat /\ g.toServe \in Nat /\ g.bytes \in Nat /\ g.li \in Nat \ {0}
      /\ n \in Nat /\ ~(g.li <= n /\ g.used <= g.toServe)
  BY <1>1, GrantFields DEF MoreBooked
<1>3. n = 0 => TotalBooked = 0
  BY <1>1, TotalIs
<1>4. /\ ~g.firstSdu /\ g.toServe <= g.used + TotalBooked + g.bytes
      /\ \/ g.li = 1 /\ g.used + TotalBooked <= g.toServe
         \/ g.li = 1 /\ n = 1 /\ g.used = 0 /\ TotalBooked > g.toServe
         \/ g.li = 2 /\ n = 1 /\ g.used = g.toServe
         \/ g.li = n + 1 /\ g.used = 0 /\ TotalBooked = 0
  BY <1>1 DEF BookedSpent
<1> HIDE DEF n
<1>5. CASE g.li = 1 /\ g.used + TotalBooked <= g.toServe
  <2>1. g.used <= g.toServe /\ n = 0
    BY <1>1, <1>2, <1>5
  <2>2. TotalBooked = 0 /\ ~(n > 1 /\ TotalBooked > 0)
    BY <1>3, <2>1
  <2> QED BY <1>2, <1>4, <2>1, <2>2 DEF n
<1>6. CASE g.li = 2 /\ n = 1 /\ g.used = g.toServe
  <2>1. g.toServe - g.used = 0 /\ ~(n > 1)
    BY <1>2, <1>6
  <2> QED BY <1>2, <1>4, <1>6, <2>1 DEF n
<1>7. CASE g.li = n + 1 /\ g.used = 0 /\ TotalBooked = 0
  BY <1>2, <1>4, <1>7
<1>8. ~(g.li = 1 /\ n = 1 /\ g.used = 0 /\ TotalBooked > g.toServe)
  BY <1>2
<1> QED BY <1>4, <1>5, <1>6, <1>7, <1>8

LEMMA ServeSduSafe ==
  ASSUME Inv, ServeSdu
  PROVE  Safe'
<1> DEFINE own == g.toServe - g.used
<1>1. /\ pc = "booked" /\ InGrant /\ vbuf[top] # <<>> /\ g \in Grant /\ top \in Cid
      /\ GrantFits /\ BlocksNoted /\ QueuesInStep /\ alloc \in Allocation
      /\ Owner[top] \in Ue /\ scheduleList[top] = 0
      /\ mbuf \in [Cid -> Seq(SduSize)] /\ vbuf \in [Cid -> Seq(SduSize)]
      /\ UNCHANGED <<mbuf, rejected, top, cws, alloc, spread, scheduleList>>
  <2>1. pc = "booked" /\ InGrant
    BY DEF ServeSdu, InGrant
  <2> QED BY <2>1, GrantFacts DEF ServeSdu, Inv, BufferInv, ActiveFollows
<1>2. /\ g.used <= g.toServe /\ own <= g.bytes
      /\ ~(Len(g.booked) > 1 /\ TotalBooked > 0)
      /\ g.used = 0 /\ g.li = 1 => TotalBooked = 0
      /\ ~g.firstSdu
  BY LoopLeavesRest DEF ServeSdu
<1>3. /\ g.used \in Nat /\ g.toServe \in Nat /\ g.bytes \in Nat /\ g.items \in Nat
      /\ g.allocated \in Nat /\ g.band \in Nat /\ g.cwBytes \in Nat /\ own \in Nat
  BY <1>1, <1>2, GrantFields
<1>4. /\ pc' = "serve"
      /\ g' = [g EXCEPT !.bytes = @ - own, !.allocated = @ + own, !.items = @ + 1]
      /\ vbuf' = [vbuf EXCEPT ![top] = Tail(@)]
  BY <1>2, <1>3 DEF ServeSdu
<1>5. /\ g'.items = g.items + 1 /\ g'.allocated = g.allocated + own
      /\ g'.booked = g.booked /\ g'.firstSdu = g.firstSdu /\ g'.band = g.band
      /\ g'.cwBytes = g.cwBytes
  BY <1>1, <1>4 DEF Grant
<1>6. InGrant' /\ g'.items > 0
  BY <1>3, <1>4, <1>5 DEF InGrant
<1>7. BlocksNoted' /\ Carried(Owner[top])' = Carried(Owner[top])
  BY <1>1, <1>3, <1>5, <1>6, NotesKept
<1>8. ScheduledFits' /\ ScheduledOnce'
  BY <1>1, <1>4, OthersKept
<1>9. TotalBooked' = TotalBooked
  BY <1>5 DEF TotalBooked
<1>10. BookedSpent'
  BY <1>2, <1>4, <1>5, <1>9 DEF BookedSpent
<1>11. ASSUME top \notin rejected, Owner[top] \notin spread
       PROVE  PduBytes(top, g.items + 1) <= Carried(Owner[top]) + (g.allocated + own)
  <2>1. /\ g.used = 0
        /\ g.toServe = Head(vbuf[top]) + IF g.items = 0 THEN MacHeader ELSE 0
    BY <1>1, <1>2, <1>11 DEF GrantFits
  <2>2. /\ Head(vbuf[top]) \in Nat /\ Head(vbuf[top]) = vbuf[top][1]
        /\ 1 \in DOMAIN vbuf[top] /\ MacHeader \in Nat
        /\ Len(vbuf[top]) \in Nat /\ Len(vbuf[top]) > 0
    BY <1>1, HeadSize
  <2>3. /\ Len(mbuf[top]) = g.items + Len(vbuf[top])
        /\ vbuf[top][1] = mbuf[top][g.items + 1]
    <3>1. Consumed(top) = g.items
      BY <1>1, <1>3 DEF Consumed
    <3> QED BY <1>1, <1>11, <2>2, <3>1 DEF QueuesInStep
  <2>4. mbuf[top] \in Seq(Nat) /\ g.items < Len(mbuf[top])
    <3>1. mbuf[top] \in Seq(Nat) /\ Len(mbuf[top]) \in Nat
      BY <1>1, QueueOfNat
    <3> QED BY <1>3, <2>2, <2>3, <3>1
  <2>5. /\ Bytes(SubSeq(mbuf[top], 1, g.items + 1))
             = Bytes(SubSeq(mbuf[top], 1, g.items)) + Head(vbuf[top])
        /\ Bytes(SubSeq(mbuf[top], 1, g.items)) \in Nat
        /\ Bytes(SubSeq(mbuf[top], 1, 0)) = 0
    BY <1>3, <2>2, <2>3, <2>4, BytesOfNext
  <2>6. Carried(Owner[top]) \in Nat
    BY <1>1, CarriedNat
  <2> DEFINE before == Bytes(SubSeq(mbuf[top], 1, g.items))
  <2>7. PduBytes(top, g.items + 1) = MacHeader + (before + Head(vbuf[top]))
    BY <2>5 DEF PduBytes
  <2>8. CASE g.items = 0
    <3>1. before = 0 /\ own = Head(vbuf[top]) + MacHeader
      BY <1>3, <2>1, <2>5, <2>8
    <3> HIDE DEF before, own
    <3> QED BY <1>3, <2>2, <2>6, <2>7, <3>1
  <2>9. CASE g.items > 0
    <3>1. own = Head(vbuf[top])
      BY <1>3, <2>1, <2>2, <2>9
    <3>2. MacHeader + before <= Carried(Owner[top]) + g.allocated
      BY <1>1, <1>11, <2>9 DEF GrantFits, PduBytes
    <3>3. before \in Nat
      BY <2>5
    <3> HIDE DEF before, own
    <3> QED BY <1>3, <2>2, <2>6, <2>7, <3>1, <3>2, <3>3
  <2> QED BY <1>3, <2>8, <2>9
<1>12. GrantFits'
  <2>1. PduBytes(top, g.items)' = PduBytes(top, g.items + 1)
    BY <1>1, <1>5 DEF PduBytes
  <2> QED BY <1>1, <1>2, <1>4, <1>5, <1>6, <1>7, <1>11, <2>1 DEF GrantFits
<1>13. OnlyRejectedThrows'
  BY <1>4 DEF OnlyRejectedThrows
<1> QED BY <1>7, <1>8, <1>10, <1>12, <1>13 DEF Safe

LEMMA PduBytesNat ==
  ASSUME Inv, InGrant, top \notin rejected
  PROVE  PduBytes(top, g.items) \in Nat
<1>1. /\ QueuesInStep /\ pc # "error" /\ top \in Cid /\ g \in Grant
      /\ scheduleList[top] = 0 /\ g.items \in Nat
      /\ mbuf[top] \in Seq(SduSize) /\ vbuf[top] \in Seq(SduSize)
      /\ MacHeader \in Nat
  BY GrantFacts, GrantFields, DownlinkAssumption DEF Inv, BufferInv, InGrant
<1>2. Consumed(top) = g.items
  BY <1>1 DEF Consumed
<1>3. Len(mbuf[top]) = g.items + Len(vbuf[top])
  BY <1>1, <1>2 DEF QueuesInStep
<1>4. mbuf[top] \in Seq(Nat) /\ Len(vbuf[top]) \in Nat
  BY <1>1, QueueOfNat
<1>5. g.items \in 0 .. Len(mbuf[top])
  BY <1>1, <1>3, <1>4
<1>6. Bytes(SubSeq(mbuf[top], 1, g.items)) \in Nat
  BY <1>4, <1>5, BytesOfFirst
<1> QED BY <1>1, <1>6 DEF PduBytes

LEMMA CloseBandSafe ==
  ASSUME Inv, CloseBand
  PROVE  Safe'
<1> DEFINE blocksAdded == ComputeReqRbs(Owner[top], g.allocated)
<1>1. /\ pc = "close" /\ InGrant /\ g \in Grant /\ alloc \in Allocation
      /\ BookedSpent /\ GrantFits /\ BlocksNoted
      /\ TypeOK /\ ActiveFollows /\ BandFits
      /\ UNCHANGED <<mbuf, vbuf, rejected, top, cws, spread, scheduleList>>
  <2>1. pc = "close" /\ InGrant
    BY DEF CloseBand, InGrant
  <2> QED BY <2>1, GrantFacts DEF CloseBand, buffers, Inv, BufferInv
<1>2. /\ g.band \in Band /\ Owner[top] \in Ue /\ blocksAdded \in Nat
      /\ blocksAdded <= g.blocks /\ g.blocks <= AvailableBlocks(alloc, g.band)
      /\ AvailableBlocks(alloc, g.band) \in Nat
      /\ g.allocated <= ComputeBytesOnNRbs(Owner[top], blocksAdded)
  BY <1>1, BandHolds
<1>3. /\ g.allocated \in Nat /\ g.cwBytes \in Nat /\ g.blocks \in Nat
      /\ g.items \in Nat /\ g.band \in Nat
  BY <1>1, GrantFields
<1> HIDE DEF blocksAdded
<1>4. g.allocated > 0 => ~AddBlocksFails(alloc, g.band, blocksAdded, g.allocated)
  BY <1>2, <1>3 DEF AddBlocksFails
<1>5. /\ alloc' = AddBlocks(alloc, Owner[top], g.band, blocksAdded, g.allocated)
      /\ g' = [g EXCEPT !.cwBytes = @ + g.allocated, !.band = @ + 1]
      /\ pc' = IF g.stop THEN "end" ELSE "band"
  BY <1>2, <1>3, <1>4 DEF CloseBand, blocksAdded
<1>6. /\ g'.items = g.items /\ g'.cwBytes = g.cwBytes + g.allocated
      /\ g'.booked = g.booked /\ g'.band = g.band + 1 /\ g'.firstSdu = g.firstSdu
      /\ InGrant' /\ pc' \in {"band", "end"}
  BY <1>1, <1>5 DEF Grant, InGrant
<1>7. /\ alloc' \in Allocation
      /\ AddBlocksFails(alloc, g.band, blocksAdded, g.allocated) => alloc' = alloc
      /\ \A v \in Ue, d \in Band : v # Owner[top] \/ d # g.band =>
           alloc'.blocks[v][d] = alloc.blocks[v][d]
      /\ ~AddBlocksFails(alloc, g.band, blocksAdded, g.allocated) =>
           alloc'.blocks[Owner[top]][g.band]
             = alloc.blocks[Owner[top]][g.band] + blocksAdded
  <2> DEFINE s == AddBlocks(alloc, Owner[top], g.band, blocksAdded, g.allocated)
  <2>1. s \in Allocation
    BY <1>1, <1>2, <1>3, AddBlocksKeeps
  <2>2. /\ AddBlocksFails(alloc, g.band, blocksAdded, g.allocated) => s = alloc
        /\ \A v \in Ue, d \in Band : v # Owner[top] \/ d # g.band =>
             s.blocks[v][d] = alloc.blocks[v][d] /\ alloc.taken[d] <= s.taken[d]
        /\ ~AddBlocksFails(alloc, g.band, blocksAdded, g.allocated) =>
             /\ s.blocks[Owner[top]][g.band]
                  = alloc.blocks[Owner[top]][g.band] + blocksAdded
             /\ s.taken[g.band] = alloc.taken[g.band] + blocksAdded
             /\ blocksAdded <= AvailableBlocks(alloc, g.band)
    BY <1>1, <1>2, <1>3, AddBlocksNotes
  <2>3. alloc' = s
    BY <1>5
  <2> HIDE DEF s
  <2> QED BY <2>1, <2>2, <2>3
<1>8. \A u \in Ue, b \in Band :
        alloc'.blocks[u][b] <= alloc'.taken[b] /\ alloc'.blocks[u][b] <= BlocksPerBand
  BY <1>1, <1>2, <1>3, <1>5, AddBlocksBounded DEF BlocksNoted
<1>9. BlocksNoted'
  <2>1. ASSUME NEW b \in Band, g'.band <= b \/ g'.cwBytes = 0
        PROVE  alloc'.blocks[Owner[top]][b] = 0
    <3>1. CASE g.allocated = 0
      <4>1. alloc' = alloc /\ g'.cwBytes = g.cwBytes
        BY <1>3, <1>6, <1>7, <3>1 DEF AddBlocksFails
      <4>2. g.band <= b \/ g.cwBytes = 0
        BY <1>3, <1>6, <2>1, <4>1 DEF Band
      <4> QED BY <1>1, <4>1, <4>2 DEF BlocksNoted
    <3>2. CASE g.allocated # 0
      <4>1. b # g.band /\ g.band <= b
        BY <1>3, <1>6, <2>1, <3>2 DEF Band
      <4>2. alloc'.blocks[Owner[top]][b] = alloc.blocks[Owner[top]][b]
        BY <1>2, <1>7, <4>1
      <4> QED BY <1>1, <4>1, <4>2 DEF BlocksNoted
    <3> QED BY <3>1, <3>2
  <2>2. \A u \in Ue, b \in Band : u \notin cws /\ u # Owner[top] =>
          alloc'.blocks[u][b] = 0
    BY <1>1, <1>7 DEF BlocksNoted
  <2> QED BY <1>1, <1>6, <1>8, <2>1, <2>2 DEF BlocksNoted
<1>10. ScheduledFits' /\ ScheduledOnce'
  <2>1. \A u \in Ue \ {Owner[top]}, b \in Band :
          alloc'.blocks[u][b] = alloc.blocks[u][b]
    BY <1>7
  <2> QED BY <1>1, <1>6, <2>1, OthersKept
<1>11. /\ Carried(Owner[top]) \in Nat /\ Carried(Owner[top])' \in Nat
       /\ Carried(Owner[top]) + g.allocated <= Carried(Owner[top])'
  <2>1. Carried(Owner[top]) \in Nat
    BY <1>1, <1>2, CarriedNat
  <2>2. CASE g.allocated = 0
    <3>1. alloc' = alloc
      BY <1>7, <2>2 DEF AddBlocksFails
    <3>2. Carried(Owner[top])' = Carried(Owner[top])
      BY <1>1, <3>1 DEF Carried
    <3> QED BY <2>1, <2>2, <3>2
  <2>3. CASE g.allocated # 0
    <3> DEFINE x == alloc.blocks[Owner[top]]
               y == alloc'.blocks[Owner[top]]
    <3>1. x \in [Band -> Nat] /\ y \in [Band -> Nat]
      BY <1>1, <1>2, <1>7 DEF Allocation
    <3>2. x[g.band] = 0
      BY <1>1, <1>2, <1>3 DEF BlocksNoted
    <3>3. y[g.band] = blocksAdded
      BY <1>2, <1>3, <1>4, <1>7, <2>3, <3>2
    <3>4. \A d \in Band \ {g.band} : y[d] = x[d]
      BY <1>2, <1>7
    <3>5. \A d \in Band : x[d] <= BlocksPerBand /\ y[d] <= BlocksPerBand
      BY <1>1, <1>2, <1>8 DEF BlocksNoted
    <3>6. /\ Carried(Owner[top])
               = SumFunction([d \in Band |-> ComputeBytesOnNRbs(Owner[top], x[d])])
          /\ Carried(Owner[top])'
               = SumFunction([d \in Band |-> ComputeBytesOnNRbs(Owner[top], y[d])])
      BY <1>1 DEF Carried
    <3> HIDE DEF x, y
    <3>7. /\ Carried(Owner[top])'
               = Carried(Owner[top]) + ComputeBytesOnNRbs(Owner[top], blocksAdded)
          /\ ComputeBytesOnNRbs(Owner[top], blocksAdded) \in Nat
      BY <1>2, <3>1, <3>2, <3>3, <3>4, <3>5, <3>6, CarriedMore
    <3> QED BY <1>2, <1>3, <2>1, <3>7
  <2> QED BY <2>1, <2>2, <2>3
<1>12. TotalBooked' = TotalBooked
  BY <1>6 DEF TotalBooked
<1>13. BookedSpent'
  BY <1>1, <1>6, <1>12 DEF BookedSpent
<1>14. GrantFits'
  <2>1. PduBytes(top, g.items)' = PduBytes(top, g.items)
    BY <1>1, <1>6 DEF PduBytes
  <2>2. ASSUME top \notin rejected, Owner[top] \notin spread, g.items > 0
        PROVE  PduBytes(top, g.items) <= Carried(Owner[top])'
    <3>1. PduBytes(top, g.items) <= Carried(Owner[top]) + g.allocated
      BY <1>1, <2>2 DEF GrantFits
    <3>2. PduBytes(top, g.items) \in Nat
      BY <1>1, <2>2, PduBytesNat
    <3> QED BY <1>3, <1>11, <3>1, <3>2
  <2>3. Carried(Owner[top])' + 0 = Carried(Owner[top])'
    BY <1>11
  <2> QED BY <1>1, <1>6, <1>12, <2>1, <2>2, <2>3 DEF GrantFits
<1>15. OnlyRejectedThrows'
  BY <1>6 DEF OnlyRejectedThrows
<1> QED BY <1>9, <1>10, <1>13, <1>14, <1>15 DEF Safe

LEMMA EndGrantSafe ==
  ASSUME Inv, EndGrant
  PROVE  Safe'
<1>1. /\ pc = "end" /\ pc' = "rank" /\ InGrant /\ g \in Grant /\ top \in Cid
      /\ Owner[top] \in Ue /\ Owner[top] \notin cws /\ scheduleList[top] = 0
      /\ scheduleList \in [Cid -> Nat]
      /\ GrantFits /\ BlocksNoted /\ ScheduledOnce /\ ScheduledFits /\ ItemsHaveBytes
      /\ UNCHANGED <<mbuf, rejected, alloc, spread>>
  <2>1. pc = "end" /\ pc' = "rank" /\ InGrant
    BY DEF EndGrant, InGrant
  <2> QED BY <2>1, GrantFacts DEF EndGrant, buffers, Inv, BufferInv
<1>2. g.items \in Nat /\ g.cwBytes \in Nat
  BY <1>1, GrantFields
<1>3. \/ /\ g.cwBytes > 0 /\ cws' = cws \cup {Owner[top]}
         /\ scheduleList' = [scheduleList EXCEPT ![top] = @ + g.items]
      \/ g.cwBytes = 0 /\ UNCHANGED <<cws, scheduleList>>
  BY <1>2 DEF EndGrant
<1>4. /\ cws \subseteq cws'
      /\ \A c \in Cid \ {top} : scheduleList'[c] = scheduleList[c]
      /\ scheduleList'[top] = g.items
      /\ g.items > 0 => Owner[top] \in cws'
  <2>1. g.items > 0 => g.cwBytes > 0
    BY <1>1 DEF ItemsHaveBytes
  <2>2. CASE g.cwBytes > 0
    BY <1>1, <1>2, <1>3, <2>2
  <2>3. CASE g.cwBytes = 0
    BY <1>1, <1>2, <1>3, <2>1, <2>3
  <2> QED BY <1>3, <2>2, <2>3
<1>5. BookedSpent' /\ GrantFits' /\ OnlyRejectedThrows' /\ ~InGrant'
  BY <1>1, NoGrant
<1>6. BlocksNoted'
  <2>1. ASSUME NEW u \in Ue, NEW b \in Band, u \notin cws'
        PROVE  alloc.blocks[u][b] = 0
    <3>1. CASE u = Owner[top]
      <4>1. g.cwBytes = 0
        BY <1>3, <2>1, <3>1
      <4> QED BY <1>1, <3>1, <4>1 DEF BlocksNoted
    <3>2. CASE u # Owner[top]
      <4>1. u \notin cws
        BY <1>4, <2>1
      <4> QED BY <1>1, <3>2, <4>1 DEF BlocksNoted
    <3> QED BY <3>1, <3>2
  <2>2. \A u \in Ue, b \in Band :
          alloc.blocks[u][b] <= alloc.taken[b] /\ alloc.blocks[u][b] <= BlocksPerBand
    BY <1>1 DEF BlocksNoted
  <2> QED BY <1>1, <1>5, <2>1, <2>2 DEF BlocksNoted
<1>7. ScheduledOnce'
  <2>1. ASSUME NEW c \in Cid, scheduleList'[c] > 0 PROVE Owner[c] \in cws'
    <3>1. CASE c = top
      BY <1>4, <2>1, <3>1
    <3>2. CASE c # top
      BY <1>1, <1>4, <2>1, <3>2 DEF ScheduledOnce
    <3> QED BY <3>1, <3>2
  <2> QED BY <1>1, <1>5, <2>1 DEF ScheduledOnce
<1>8. ScheduledFits'
  <2> SUFFICES ASSUME NEW c \in Cid, c \notin rejected, scheduleList'[c] > 0,
                      Owner[c] \notin spread
               PROVE  PduBytes(c, scheduleList'[c]) <= Carried(Owner[c])
    <3>1. \A c \in Cid : /\ PduBytes(c, scheduleList[c])' = PduBytes(c, scheduleList'[c])
                         /\ Carried(Owner[c])' = Carried(Owner[c])
      BY <1>1 DEF PduBytes, Carried
    <3> QED BY <1>1, <3>1 DEF ScheduledFits
  <2>1. CASE c = top
    <3>1. g.items > 0
      BY <1>4, <2>1
    <3>2. PduBytes(top, g.items) <= Carried(Owner[top]) + 0
      BY <1>1, <2>1, <3>1 DEF GrantFits
    <3>3. Carried(Owner[top]) \in Nat
      BY <1>1, GrantFacts, CarriedNat
    <3>4. PduBytes(top, g.items) \in Nat
      BY <1>1, <2>1, PduBytesNat
    <3> QED BY <1>4, <2>1, <3>2, <3>3, <3>4
  <2>2. CASE c # top
    BY <1>1, <1>4, <2>2 DEF ScheduledFits
  <2> QED BY <2>1, <2>2
<1> QED BY <1>5, <1>6, <1>7, <1>8 DEF Safe

\* macPduMake() finds the scheduled packets, unless the queue of the connection
\* refused its first one.
LEMMA MacPduMakeSafe ==
  ASSUME Inv, MacPduMake
  PROVE  Safe'
<1>1. /\ pc = "make" /\ pc' \in {"idle", "error"} /\ rejected' = rejected
      /\ scheduleList' = [c \in Cid |-> 0]
      /\ alloc' = Allocated([b \in Band |-> 0])
      /\ pc' = "error" => \E c \in Cid : Len(mbuf[c]) < scheduleList[c]
  BY DEF MacPduMake
<1>2. TypeOK /\ QueuesInStep /\ ItemsHaveBytes /\ rejected \subseteq Cid
  BY DEF Inv, BufferInv, TypeOK
<1>3. ASSUME pc' = "error", rejected = {} PROVE FALSE
  <2>1. PICK c \in Cid : Len(mbuf[c]) < scheduleList[c]
    BY <1>1, <1>3
  <2>2. scheduleList[c] \in Nat /\ vbuf[c] \in Seq(SduSize) /\ g.items = 0
    BY <1>1, <1>2 DEF TypeOK, ItemsHaveBytes
  <2>3. Len(mbuf[c]) = scheduleList[c] + Len(vbuf[c])
    <3>1. Consumed(c) = scheduleList[c]
      BY <2>2 DEF Consumed
    <3> QED BY <1>1, <1>2, <1>3, <3>1 DEF QueuesInStep
  <2>4. Len(vbuf[c]) \in Nat
    BY <2>2
  <2> QED BY <2>1, <2>2, <2>3, <2>4
<1>4. OnlyRejectedThrows'
  BY <1>1, <1>3 DEF OnlyRejectedThrows
<1>5. ~InGrant' /\ BookedSpent' /\ GrantFits'
  BY <1>1 DEF InGrant, BookedSpent, GrantFits
<1>6. BlocksNoted'
  <2>1. \A u \in Ue, b \in Band : alloc'.blocks[u][b] = 0 /\ alloc'.taken[b] = 0
    BY <1>1 DEF Allocated
  <2> QED BY <1>5, <2>1, BlocksPerBandNat DEF BlocksNoted
<1>7. ScheduledOnce' /\ ScheduledFits'
  BY <1>1, <1>5 DEF ScheduledOnce, ScheduledFits
<1> QED BY <1>4, <1>5, <1>6, <1>7 DEF Safe

----------------------------------------------------------------------------
(* What the steps of a grant leave alone, and what codewords are given for. *)

\* What a step of the loops of scheduleGrant() does to the variables of the grant,
\* and that it does not throw.
LEMMA GrantLoopStep ==
  ASSUME Inv, GrantLoop
  PROVE  /\ InGrant /\ InGrant'
         /\ UNCHANGED <<mbuf, created, rejected, top, cws, scheduleList>>
         /\ vbuf' = vbuf \/ (vbuf[top] # <<>> /\ vbuf' = [vbuf EXCEPT ![top] = Tail(@)])
         /\ g'.cwBytes \in Nat /\ g.cwBytes <= g'.cwBytes
         /\ \/ spread' = spread
            \/ spread' = spread \cup {Owner[top]} /\ g'.cwBytes > 0
         /\ CodewordHasPacket'
<1>1. InGrant /\ pc \in {"band", "serve", "booked", "close"}
  BY DEF GrantLoop, InGrant, NextBand, AllServed, BookBand, StartSdu, UseBooked,
         ServeSdu, CloseBand
<1>2. /\ g \in Grant /\ top \in Cid /\ CodewordHasPacket /\ TypeOK /\ ActiveFollows
      /\ BandFits
  BY <1>1, GrantFacts DEF Inv, BufferInv
<1>3. /\ g.cwBytes \in Nat /\ g.allocated \in Nat /\ g.items \in Nat /\ g.used \in Nat
      /\ g.toServe \in Nat /\ g.bytes \in Nat
  BY <1>2, GrantFields
<1>4. CASE NextBand
  <2>1. /\ pc = "band" /\ UNCHANGED <<buffers, top, cws, spread, scheduleList>>
        /\ pc' \in {"end", "band", "serve"}
        /\ \/ g' = g /\ pc' = "end"
           \/ g' = [g EXCEPT !.band = @ + 1] /\ pc' = "band"
           \/ \E bytes, blocks :
                g' = [g EXCEPT !.bytes = bytes, !.blocks = blocks, !.allocated = 0]
    BY <1>4 DEF NextBand
  <2>2. /\ g'.cwBytes = g.cwBytes /\ g'.items = g.items
        /\ pc' = "serve" => g'.allocated = 0
    BY <1>2, <2>1 DEF Grant
  <2>3. CodewordHasPacket'
    BY <1>2, <1>3, <2>1, <2>2 DEF CodewordHasPacket
  <2>4. /\ InGrant' /\ vbuf' = vbuf /\ spread' = spread
        /\ UNCHANGED <<mbuf, created, rejected, top, cws, scheduleList>>
    BY <2>1 DEF InGrant, buffers
  <2> QED BY <1>1, <1>3, <2>2, <2>3, <2>4
<1>5. CASE AllServed
  <2>1. /\ pc = "serve" /\ pc' = "close"
        /\ UNCHANGED <<buffers, top, cws, spread, scheduleList>>
        /\ g' = [g EXCEPT !.active = FALSE, !.stop = TRUE]
    BY <1>5 DEF AllServed
  <2>2. g'.cwBytes = g.cwBytes /\ g'.items = g.items /\ g'.allocated = g.allocated
    BY <1>2, <2>1 DEF Grant
  <2>3. CodewordHasPacket'
    BY <1>2, <2>1, <2>2 DEF CodewordHasPacket
  <2> QED BY <1>1, <1>3, <2>1, <2>2, <2>3 DEF InGrant, buffers
<1>6. CASE BookBand
  <2>1. pc = "serve" /\ UNCHANGED <<buffers, top, cws, spread, scheduleList>>
    BY <1>6 DEF BookBand
  <2>2. ~(ComputeReqRbs(Owner[top], g.allocated) > g.blocks)
    BY <1>2, <2>1, BandHolds, GrantFields
  <2>3. /\ pc' = "close"
        /\ \E r : g' = [g EXCEPT !.firstSdu = FALSE, !.booked = Append(@, r)]
    BY <1>6, <2>2 DEF BookBand, NextBandBooked
  <2>4. g'.cwBytes = g.cwBytes /\ g'.items = g.items /\ g'.allocated = g.allocated
    BY <1>2, <2>3 DEF Grant
  <2>5. CodewordHasPacket'
    BY <1>2, <2>1, <2>3, <2>4 DEF CodewordHasPacket
  <2> QED BY <1>1, <1>3, <2>1, <2>3, <2>4, <2>5 DEF InGrant, buffers
<1>7. CASE StartSdu
  <2>1. /\ pc = "serve" /\ pc' = "booked"
        /\ UNCHANGED <<buffers, top, cws, spread, scheduleList>>
        /\ \E li : g' = [g EXCEPT !.firstSdu = FALSE, !.toServe = ToServe, !.used = 0,
                                  !.li = li]
    BY <1>7 DEF StartSdu
  <2>2. /\ g'.cwBytes = g.cwBytes /\ g'.items = g.items /\ g'.allocated = g.allocated
        /\ g'.used = 0
    BY <1>2, <2>1 DEF Grant
  <2>3. CodewordHasPacket'
    BY <1>2, <1>3, <2>1, <2>2 DEF CodewordHasPacket
  <2> QED BY <1>1, <1>3, <2>1, <2>2, <2>3 DEF InGrant, buffers
<1>8. CASE UseBooked
  <2> DEFINE uBytes == BytesUsed(g.booked[g.li])
  <2>1. /\ pc = "booked" /\ pc' = "booked" /\ MoreBooked
        /\ UNCHANGED <<buffers, top, cws, scheduleList>>
        /\ spread' = IF uBytes > 0 THEN spread \cup {Owner[top]} ELSE spread
        /\ \E booked, li : g' = [g EXCEPT !.used = @ + uBytes, !.cwBytes = @ + uBytes,
                                          !.booked = booked, !.li = li]
    BY <1>8 DEF UseBooked
  <2>2. uBytes \in Nat
    <3>1. g.li \in DOMAIN g.booked
      BY <1>2, <2>1, GrantFields DEF MoreBooked
    <3> QED BY <1>2, <1>3, <3>1, BookedFields DEF BytesUsed
  <2> HIDE DEF uBytes
  <2>3. /\ g'.cwBytes = g.cwBytes + uBytes /\ g'.items = g.items
        /\ g'.allocated = g.allocated /\ g'.used = g.used + uBytes
    BY <1>2, <2>1 DEF Grant
  <2>4. CodewordHasPacket'
    BY <1>2, <1>3, <2>1, <2>2, <2>3 DEF CodewordHasPacket
  <2>5. /\ g'.cwBytes \in Nat /\ g.cwBytes <= g'.cwBytes
        /\ uBytes > 0 => g'.cwBytes > 0
    BY <1>3, <2>2, <2>3
  <2>6. \/ spread' = spread
        \/ spread' = spread \cup {Owner[top]} /\ g'.cwBytes > 0
    BY <2>1, <2>5
  <2>7. /\ InGrant' /\ vbuf' = vbuf
        /\ UNCHANGED <<mbuf, created, rejected, top, cws, scheduleList>>
    BY <2>1 DEF InGrant, buffers
  <2> QED BY <1>1, <2>4, <2>5, <2>6, <2>7
<1>9. CASE ServeSdu
  <2> DEFINE own == g.toServe - g.used
  <2>1. /\ pc = "booked" /\ ~MoreBooked /\ vbuf[top] # <<>>
        /\ UNCHANGED <<mbuf, created, rejected, top, cws, spread, scheduleList>>
    BY <1>2, <1>9 DEF ServeSdu, ActiveFollows
  <2>2. ~(g.used > g.toServe \/ own > g.bytes)
    BY <1>3, <2>1, LoopLeavesRest
  <2>3. /\ pc' = "serve" /\ vbuf' = [vbuf EXCEPT ![top] = Tail(@)]
        /\ g' = [g EXCEPT !.bytes = @ - own, !.allocated = @ + own, !.items = @ + 1]
    BY <1>9, <2>2 DEF ServeSdu
  <2> HIDE DEF own
  <2>4. g'.cwBytes = g.cwBytes /\ g'.items = g.items + 1
    BY <1>2, <2>3 DEF Grant
  <2>5. CodewordHasPacket'
    BY <1>3, <2>3, <2>4 DEF CodewordHasPacket
  <2> QED BY <1>1, <1>3, <2>1, <2>3, <2>4, <2>5 DEF InGrant
<1>10. CASE CloseBand
  <2> DEFINE n == ComputeReqRbs(Owner[top], g.allocated)
  <2>1. pc = "close" /\ UNCHANGED <<buffers, top, cws, spread, scheduleList>>
    BY <1>10 DEF CloseBand
  <2>2. /\ n \in Nat /\ n <= g.blocks /\ g.blocks <= AvailableBlocks(alloc, g.band)
        /\ AvailableBlocks(alloc, g.band) \in Nat /\ g.blocks \in Nat
    BY <1>2, <2>1, BandHolds, GrantFields
  <2> HIDE DEF n
  <2>3. ~(g.allocated > 0 /\ (n > g.blocks \/ AddBlocksFails(alloc, g.band, n, g.allocated)))
    BY <1>3, <2>2 DEF AddBlocksFails
  <2>4. /\ g' = [g EXCEPT !.cwBytes = @ + g.allocated, !.band = @ + 1]
        /\ pc' \in {"end", "band"}
    BY <1>10, <2>3 DEF CloseBand, n
  <2>5. g'.cwBytes = g.cwBytes + g.allocated /\ g'.items = g.items
    BY <1>2, <2>4 DEF Grant
  <2>6. CodewordHasPacket'
    BY <1>2, <1>3, <2>1, <2>4, <2>5 DEF CodewordHasPacket
  <2> QED BY <1>1, <1>3, <2>1, <2>4, <2>5, <2>6 DEF InGrant, buffers
<1> QED BY <1>4, <1>5, <1>6, <1>7, <1>8, <1>9, <1>10 DEF GrantLoop

LEMMA NextForgotten ==
  ASSUME Inv, [Next]_vars
  PROVE  CodewordHasPacket' /\ TtiForgotten'
<1>1. TypeOK /\ CodewordHasPacket /\ TtiForgotten
  BY DEF Inv, BufferInv
<1>2. CASE GrantLoop
  <2>1. /\ InGrant /\ InGrant' /\ CodewordHasPacket'
        /\ UNCHANGED <<created, top, cws>> /\ pc' # "idle"
        /\ g.cwBytes \in Nat /\ g'.cwBytes \in Nat /\ g.cwBytes <= g'.cwBytes
        /\ \/ spread' = spread
           \/ spread' = spread \cup {Owner[top]} /\ g'.cwBytes > 0
        /\ vbuf' = vbuf \/ (vbuf[top] # <<>> /\ vbuf' = [vbuf EXCEPT ![top] = Tail(@)])
    BY <1>1, <1>2, GrantLoopStep, GrantFields DEF InGrant, TypeOK
  <2>2. \A c \in Cid : vbuf'[c] # <<>> => c \in created'
    BY <1>1, <2>1 DEF TtiForgotten, TypeOK
  <2> QED BY <1>1, <2>1, <2>2 DEF TtiForgotten
<1>3. CASE UNCHANGED <<pc, g, cws, spread, vbuf, top, created>>
  BY <1>1, <1>3 DEF CodewordHasPacket, TtiForgotten, InGrant
<1>4. ASSUME NEW c \in Cid, NEW size \in SduSize, BufferizePacket(c, size)
      PROVE  CodewordHasPacket' /\ TtiForgotten'
  <2>1. /\ pc = "idle" /\ pc' = "idle" /\ created' = created \cup {c}
        /\ vbuf' = vbuf \/ vbuf' = [vbuf EXCEPT ![c] = Append(@, size)]
        /\ UNCHANGED <<top, cws, g, spread>>
    BY <1>4 DEF BufferizePacket
  <2>2. \A d \in Cid : vbuf'[d] # <<>> => d \in created'
    BY <1>1, <2>1 DEF TtiForgotten, TypeOK
  <2> QED BY <1>1, <2>1, <2>2 DEF CodewordHasPacket, TtiForgotten, InGrant
<1>5. CASE StartTti
  <2>1. /\ pc = "idle" /\ pc' \in {"make", "rank"}
        /\ UNCHANGED <<vbuf, created, g, spread>>
    BY <1>5 DEF StartTti, buffers
  <2> QED BY <1>1, <2>1 DEF CodewordHasPacket, TtiForgotten
<1>6. CASE RequestGrant
  <2>1. /\ pc = "rank" /\ UNCHANGED <<vbuf, created, top, cws, spread>>
        /\ pc' = "make" \/ (pc' = "band" /\ g' = NewGrant)
    BY <1>6 DEF RequestGrant, buffers
  <2>2. spread \subseteq cws
    BY <1>1, <2>1 DEF TtiForgotten, InGrant
  <2>3. pc' = "band" => g'.cwBytes = 0
    BY <2>1 DEF NewGrant
  <2> QED BY <1>1, <2>1, <2>2, <2>3 DEF CodewordHasPacket, TtiForgotten
<1>7. CASE EndGrant
  <2>1. /\ pc = "end" /\ pc' = "rank" /\ UNCHANGED <<vbuf, created, spread>>
        /\ cws' = IF g.cwBytes > 0 THEN cws \cup {Owner[top]} ELSE cws
    BY <1>7 DEF EndGrant, buffers
  <2> QED BY <1>1, <2>1 DEF CodewordHasPacket, TtiForgotten, InGrant
<1>8. CASE MacPduMake
  <2>1. /\ pc' \in {"idle", "error"} /\ UNCHANGED <<vbuf, created>>
        /\ cws' = {} /\ spread' = {}
    BY <1>8 DEF MacPduMake
  <2> QED BY <1>1, <2>1 DEF CodewordHasPacket, TtiForgotten
<1> QED BY <1>2, <1>3, <1>4, <1>5, <1>6, <1>7, <1>8
        DEF Next, TtiStep, GrantLoop, Failed, vars, buffers

LEMMA NextInv ==
  ASSUME Inv, [Next]_vars
  PROVE  Inv'
<1>1. BufferInv' /\ BlocksGivenOnce' /\ CodewordHasPacket' /\ TtiForgotten'
  BY NextBufferInv, NextGivenOnce, NextForgotten DEF Inv
<1>2. CASE UNCHANGED vars
  <2>1. Safe
    BY InvParts
  <2>2. UNCHANGED <<mbuf, vbuf, rejected, pc, top, cws, alloc, g, spread,
                    scheduleList>>
    BY <1>2 DEF vars, buffers
  <2>3. BookedSpent'
    BY <2>1, <2>2 DEF Safe, BookedSpent, TotalBooked
  <2>4. BlocksNoted'
    BY <2>1, <2>2 DEF Safe, BlocksNoted, InGrant
  <2>5. ScheduledOnce' /\ OnlyRejectedThrows'
    BY <2>1, <2>2 DEF Safe, ScheduledOnce, OnlyRejectedThrows, InGrant
  <2>6. ScheduledFits'
    BY <2>1, <2>2 DEF Safe, ScheduledFits, PduBytes, Carried
  <2>7. GrantFits'
    BY <2>1, <2>2 DEF Safe, GrantFits, InGrant, PduBytes, Carried, TotalBooked
  <2> QED BY <1>1, <2>3, <2>4, <2>5, <2>6, <2>7 DEF Inv
<1>3. ASSUME NEW c \in Cid, NEW size \in SduSize, BufferizePacket(c, size)
      PROVE  Safe'
  BY <1>3, BufferizePacketSafe
<1>4. CASE TtiStep
  <2>1. Safe'
    BY <1>4, StartTtiSafe, RequestGrantSafe, NextBandSafe, AllServedSafe,
       BookBandSafe, StartSduSafe, UseBookedSafe, ServeSduSafe, CloseBandSafe,
       EndGrantSafe, MacPduMakeSafe DEF TtiStep
  <2> QED BY <1>1, <2>1 DEF Inv, Safe
<1>5. CASE Failed
  BY <1>2, <1>5 DEF Failed
<1>6. ASSUME NEW c \in Cid, NEW size \in SduSize, BufferizePacket(c, size)
      PROVE  Inv'
  BY <1>1, <1>3, <1>6 DEF Inv, Safe
<1> QED BY <1>2, <1>4, <1>5, <1>6 DEF Next

----------------------------------------------------------------------------
(* The theorems.                                                           *)

\* The inductive invariant holds in every state.
THEOREM InvInvariant == Spec => []Inv
BY InitInv, NextInv, PTL DEF Spec

\* The types of the buffers, the grant and the allocation.
THEOREM TypeInvariant == Spec => []TypeOK
<1>1. Inv => TypeOK
  BY DEF Inv, BufferInv
<1> QED BY InvInvariant, <1>1, PTL

\* The allocator gives each block of a band to one UE at most, and none that a
\* retransmission took.
THEOREM NoBlockIsGivenTwice == Spec => []BlocksGivenOnce
<1>1. Inv => BlocksGivenOnce
  BY DEF Inv
<1> QED BY InvInvariant, <1>1, PTL

\* The virtual buffer that bufferizePacket() and scheduleGrant() keep is what
\* the scheduled packets leave of the real queue that macPduMake() empties.
THEOREM QueuesStayInStep == Spec => []QueuesInStep
<1>1. Inv => QueuesInStep
  BY DEF Inv, BufferInv
<1> QED BY InvInvariant, <1>1, PTL

\* Between two TTIs the active set of Max C/I is the backlogged connections.
THEOREM BacklogStaysActive == Spec => []BacklogIsActive
<1>1. Inv => BacklogIsActive
  BY DEF Inv, BufferInv, ActiveFollows, BacklogIsActive
<1> QED BY InvInvariant, <1>1, PTL

\* The overflow checks of scheduleGrant() at the end of a band never find
\* anything: what was allocated on it needs at most the blocks it had.
BandNeverOverflows ==
  pc \in {"serve", "close"} =>
    /\ ComputeReqRbs(Owner[top], g.allocated) <= g.blocks
    /\ g.allocated > 0 =>
         ~AddBlocksFails(alloc, g.band,
                         ComputeReqRbs(Owner[top], g.allocated), g.allocated)

THEOREM GrantsFitTheirBands == Spec => []BandNeverOverflows
<1>1. ASSUME Inv, pc \in {"serve", "close"} PROVE BandNeverOverflows
  <2>1. /\ ComputeReqRbs(Owner[top], g.allocated) \in Nat
        /\ ComputeReqRbs(Owner[top], g.allocated) <= g.blocks
        /\ g.blocks <= AvailableBlocks(alloc, g.band)
        /\ AvailableBlocks(alloc, g.band) \in Nat
    BY <1>1, BandHolds DEF Inv, BufferInv
  <2>2. g.blocks \in Nat /\ g.allocated \in Nat
    BY <1>1, GrantFields DEF Inv, BufferInv, TypeOK
  <2> QED BY <2>1, <2>2 DEF BandNeverOverflows, AddBlocksFails
<1>2. Inv => BandNeverOverflows
  BY <1>1 DEF BandNeverOverflows
<1> QED BY InvInvariant, <1>2, PTL

\* When the loop over the booked requests ends, the bytes it used are not more
\* than the packet has, and what is missing is not more than the band holds: the
\* unsigned difference that scheduleGrant() takes from the band never wraps.
BookedNeverUnderflows ==
  pc = "booked" /\ ~MoreBooked =>
    g.used <= g.toServe /\ g.toServe - g.used <= g.bytes

THEOREM BookedBytesFit == Spec => []BookedNeverUnderflows
<1>1. ASSUME Inv, pc = "booked", ~MoreBooked
      PROVE  g.used <= g.toServe /\ g.toServe - g.used <= g.bytes
  BY <1>1, LoopLeavesRest
<1>2. Inv => BookedNeverUnderflows
  BY <1>1 DEF BookedNeverUnderflows
<1> QED BY InvInvariant, <1>2, PTL

\* The run-time errors of scheduleGrant() and macPduMake() need a connection
\* whose first packet its queue refused, and which the virtual buffer counts.
THEOREM OnlyRejectedConnectionsThrow == Spec => []OnlyRejectedThrows
<1>1. Inv => OnlyRejectedThrows
  BY DEF Inv
<1> QED BY InvInvariant, <1>1, PTL

\* The PDU that macPduMake() builds fits the blocks noted for its UE, header
\* included, unless some of its bytes were booked on an earlier band.
THEOREM PdusFitTheirBlocks == Spec => []PduFitsItsBlocks
<1>1. ASSUME Inv PROVE PduFitsItsBlocks
  <2> SUFFICES ASSUME pc = "make", NEW c \in Cid \ rejected,
                      scheduleList[c] > 0, Owner[c] \notin spread
               PROVE  MacHeader + Bytes(Scheduled(c)) <=
                        SumFunction([b \in Band |->
                          ComputeBytesOnNRbs(Owner[c], alloc.blocks[Owner[c]][b])])
    BY DEF PduFitsItsBlocks
  <2>1. PduBytes(c, scheduleList[c]) <= Carried(Owner[c])
    BY <1>1 DEF Inv, ScheduledFits
  <2> QED BY <2>1 DEF PduBytes, Carried, Scheduled
<1> QED BY InvInvariant, <1>1, PTL

----------------------------------------------------------------------------
(* The implementation of one grant at a time.                              *)

\* Sequences of the same length and elements, and what is left of one.
IsRest(t, s, n) == Len(s) = n + Len(t) /\ \A i \in DOMAIN t : t[i] = s[n + i]

LEMMA SeqRest ==
  ASSUME NEW S, NEW s \in Seq(S), NEW t \in Seq(S), NEW n \in Nat, IsRest(t, s, n)
  PROVE  /\ t = SubSeq(s, n + 1, Len(s)) /\ n \in 0 .. Len(s)
         /\ n = 0 => t = s
<1>1. /\ Len(s) \in Nat /\ Len(t) \in Nat /\ DOMAIN t = 1 .. Len(t)
      /\ DOMAIN s = 1 .. Len(s)
      /\ Len(s) = n + Len(t) /\ \A i \in 1 .. Len(t) : t[i] = s[n + i]
  BY DEF IsRest
<1>2. n \in 0 .. Len(s)
  BY <1>1
<1>3. /\ t = [i \in 1 .. Len(t) |-> t[i]]
      /\ s = [i \in 1 .. Len(s) |-> s[i]]
  BY <1>1
<1>4. SubSeq(s, n + 1, Len(s)) = [i \in 1 .. Len(t) |-> s[n + i]]
  <2>1. Len(s) - (n + 1) + 1 = Len(t)
    BY <1>1
  <2>2. SubSeq(s, n + 1, Len(s)) = [i \in 1 .. Len(t) |-> s[i + (n + 1) - 1]]
    BY <1>1, <2>1
  <2>3. \A i \in 1 .. Len(t) : i + (n + 1) - 1 = n + i
    BY <1>1
  <2> QED BY <2>2, <2>3
<1>5. [i \in 1 .. Len(t) |-> t[i]] = [i \in 1 .. Len(t) |-> s[n + i]]
  BY <1>1
<1>6. n = 0 => t = s
  <2> SUFFICES ASSUME n = 0 PROVE t = s
    OBVIOUS
  <2>1. \A i \in 1 .. Len(t) : t[i] = s[i]
    BY <1>1
  <2> QED BY <1>1, <1>3, <2>1
<1> QED BY <1>2, <1>3, <1>4, <1>5, <1>6

LEMMA NoneOf ==
  ASSUME NEW S, NEW s \in Seq(S)
  PROVE  SubSeq(s, 1, 0) = <<>>
OBVIOUS

\* addBlocks() takes what it notes.
LEMMA AddBlocksTakes ==
  ASSUME NEW a \in Allocation, NEW u \in Ue, NEW b \in Band,
         NEW n \in Nat, NEW bytes \in Nat
  PROVE  LET s == AddBlocks(a, u, b, n, bytes)
         IN  /\ \A d \in Band : s.taken[d] - s.blocks[u][d] = a.taken[d] - a.blocks[u][d]
             /\ \A v \in Ue \ {u}, d \in Band : s.blocks[v][d] = a.blocks[v][d]
<1> DEFINE s == AddBlocks(a, u, b, n, bytes)
<1>1. CASE AddBlocksFails(a, b, n, bytes)
  BY <1>1 DEF AddBlocks
<1>2. CASE ~AddBlocksFails(a, b, n, bytes)
  <2>1. /\ s.taken = [a.taken EXCEPT ![b] = @ + n]
        /\ s.blocks = [a.blocks EXCEPT ![u][b] = @ + n]
    BY <1>2 DEF AddBlocks, Allocation
  <2>2. a.taken \in [Band -> Nat] /\ a.blocks \in [Ue -> [Band -> Nat]]
    BY DEF Allocation
  <2> HIDE DEF s
  <2>3. \A d \in Band : s.taken[d] - s.blocks[u][d] = a.taken[d] - a.blocks[u][d]
    <3>1. /\ s.taken[b] = a.taken[b] + n /\ s.blocks[u][b] = a.blocks[u][b] + n
          /\ a.taken[b] \in Nat /\ a.blocks[u][b] \in Nat
      BY <2>1, <2>2
    <3>2. s.taken[b] - s.blocks[u][b] = a.taken[b] - a.blocks[u][b]
      BY <3>1
    <3>3. \A d \in Band \ {b} :
            s.taken[d] = a.taken[d] /\ s.blocks[u][d] = a.blocks[u][d]
      BY <2>1, <2>2
    <3> QED BY <3>2, <3>3
  <2>4. \A v \in Ue \ {u}, d \in Band : s.blocks[v][d] = a.blocks[v][d]
    BY <2>1, <2>2
  <2> QED BY <2>3, <2>4 DEF s
<1> QED BY <1>1, <1>2

ServiceStep == [Service!Next]_(Service!vars)

\* A grant under way is not seen.
LEMMA GrantLoopUnseen ==
  ASSUME Inv, GrantLoop
  PROVE  ServiceStep
<1>1. /\ InGrant /\ InGrant'
      /\ UNCHANGED <<mbuf, created, rejected, top, cws, scheduleList>>
      /\ vbuf' = vbuf \/ (vbuf[top] # <<>> /\ vbuf' = [vbuf EXCEPT ![top] = Tail(@)])
      /\ spread' = spread \/ spread' = spread \cup {Owner[top]}
  BY GrantLoopStep
<1>2. /\ alloc \in Allocation /\ top \in Cid /\ Owner[top] \in Ue
      /\ vbuf \in [Cid -> Seq(SduSize)]
  BY <1>1, GrantFacts
<1>3. QueueSeen' = QueueSeen
  <2>1. \A c \in Cid \ {top} : vbuf'[c] = vbuf[c]
    BY <1>1, <1>2
  <2> QED BY <1>1, <2>1 DEF QueueSeen
<1>4. PduSeen' = PduSeen
  BY <1>1 DEF PduSeen, Scheduled
<1>5. /\ \A d \in Band : alloc'.taken[d] - alloc'.blocks[Owner[top]][d]
                            = alloc.taken[d] - alloc.blocks[Owner[top]][d]
      /\ \A v \in Ue \ {Owner[top]}, d \in Band : alloc'.blocks[v][d] = alloc.blocks[v][d]
  <2>1. CASE alloc' = alloc
    BY <2>1
  <2>2. ASSUME NEW b \in Band, NEW n \in Nat, NEW bytes \in Nat,
               alloc' = AddBlocks(alloc, Owner[top], b, n, bytes)
        PROVE  /\ \A d \in Band : alloc'.taken[d] - alloc'.blocks[Owner[top]][d]
                                     = alloc.taken[d] - alloc.blocks[Owner[top]][d]
               /\ \A v \in Ue \ {Owner[top]}, d \in Band :
                    alloc'.blocks[v][d] = alloc.blocks[v][d]
    BY <1>2, <2>2, AddBlocksTakes
  <2> QED BY <2>1, <2>2, GrantLoopAllocates
<1>6. TakenSeen' = TakenSeen
  BY <1>1, <1>5 DEF TakenSeen
<1>7. GivenSeen' = GivenSeen
  BY <1>1, <1>5 DEF GivenSeen, Granting
<1>8. SpreadSeen' = SpreadSeen
  BY <1>1 DEF SpreadSeen, Granting
<1>9. PhaseSeen' = PhaseSeen
  BY <1>1 DEF PhaseSeen, InGrant
<1> QED BY <1>1, <1>3, <1>4, <1>6, <1>7, <1>8, <1>9 DEF ServiceStep, Service!vars

\* Outside a grant everything is seen.
LEMMA SeenBetween ==
  ASSUME ~InGrant
  PROVE  /\ QueueSeen = [c \in Cid |-> IF c \in rejected THEN <<>> ELSE vbuf[c]]
         /\ GivenSeen = [u \in Ue |-> [b \in Band |-> alloc.blocks[u][b]]]
         /\ TakenSeen = [b \in Band |-> alloc.taken[b] - 0]
         /\ SpreadSeen = spread
BY DEF QueueSeen, GivenSeen, TakenSeen, SpreadSeen, Granting

LEMMA BufferizePacketImplements ==
  ASSUME Inv, NEW c \in Cid, NEW size \in SduSize, BufferizePacket(c, size)
  PROVE  ServiceStep
<1> DEFINE fits == QueueSize = 0 \/ Bytes(mbuf[c]) + size <= QueueSize
<1>1. /\ pc = "idle" /\ pc' = "idle" /\ ~InGrant /\ ~InGrant'
      /\ UNCHANGED <<top, cws, alloc, spread, scheduleList>>
      /\ rejected' = IF fits \/ c \in created THEN rejected ELSE rejected \cup {c}
      /\ mbuf' = IF fits THEN [mbuf EXCEPT ![c] = Append(@, size)] ELSE mbuf
      /\ vbuf' = IF fits \/ c \notin created
                 THEN [vbuf EXCEPT ![c] = Append(@, size)] ELSE vbuf
  BY DEF BufferizePacket, InGrant, IsCounted
<1>2. /\ mbuf \in [Cid -> Seq(SduSize)] /\ vbuf \in [Cid -> Seq(SduSize)]
      /\ rejected \subseteq created /\ TtiForgotten
      /\ scheduleList = [d \in Cid |-> 0]
  BY <1>1 DEF Inv, BufferInv, TypeOK, ScheduledOnce
<1> HIDE DEF fits
<1>3. mbuf' \in [Cid -> Seq(SduSize)]
  BY <1>1, <1>2
<1>4. PduSeen' = PduSeen
  <2>1. \A d \in Cid : Scheduled(d) = <<>> /\ Scheduled(d)' = <<>>
    BY <1>1, <1>2, <1>3, NoneOf DEF Scheduled
  <2> QED BY <2>1 DEF PduSeen
<1>5. /\ GivenSeen' = GivenSeen /\ TakenSeen' = TakenSeen /\ SpreadSeen' = SpreadSeen
      /\ PhaseSeen = "idle" /\ PhaseSeen' = "idle"
  BY <1>1 DEF GivenSeen, TakenSeen, SpreadSeen, Granting, PhaseSeen
<1>6. /\ QueueSeen = [d \in Cid |-> IF d \in rejected THEN <<>> ELSE vbuf[d]]
      /\ QueueSeen' = [d \in Cid |-> IF d \in rejected' THEN <<>> ELSE vbuf'[d]]
  BY <1>1 DEF QueueSeen
<1>7. CASE fits /\ c \notin rejected
  <2>1. rejected' = rejected /\ vbuf' = [vbuf EXCEPT ![c] = Append(@, size)]
    BY <1>1, <1>7
  <2>2. QueueSeen' = [QueueSeen EXCEPT ![c] = Append(@, size)]
    BY <1>2, <1>6, <1>7, <2>1
  <2>3. Service!Arrive(c, size)
    BY <1>1, <1>4, <1>5, <1>7, <2>1, <2>2 DEF Service!Arrive
  <2> QED BY <2>3 DEF ServiceStep, Service!Next
<1>8. CASE fits /\ c \in rejected
  <2>1. rejected' = rejected /\ \A d \in Cid \ {c} : vbuf'[d] = vbuf[d]
    BY <1>1, <1>2, <1>8
  <2>2. QueueSeen' = QueueSeen
    BY <1>6, <1>8, <2>1
  <2> QED BY <1>1, <1>4, <1>5, <2>1, <2>2 DEF ServiceStep, Service!vars
<1>9. CASE ~fits /\ c \in created
  <2>1. rejected' = rejected /\ vbuf' = vbuf
    BY <1>1, <1>9
  <2>2. QueueSeen' = QueueSeen
    BY <1>6, <2>1
  <2> QED BY <1>1, <1>4, <1>5, <2>1, <2>2 DEF ServiceStep, Service!vars
<1>10. CASE ~fits /\ c \notin created
  <2>1. /\ rejected' = rejected \cup {c} /\ c \notin rejected
        /\ \A d \in Cid \ {c} : vbuf'[d] = vbuf[d]
    BY <1>1, <1>2, <1>10
  <2>2. QueueSeen[c] = <<>>
    BY <1>2, <1>6, <1>10, <2>1 DEF TtiForgotten
  <2>3. QueueSeen' = QueueSeen
    BY <1>6, <2>1, <2>2
  <2>4. Service!Break(c)
    BY <1>1, <1>4, <1>5, <2>1, <2>2, <2>3 DEF Service!Break
  <2> QED BY <2>4 DEF ServiceStep, Service!Next
<1> QED BY <1>7, <1>8, <1>9, <1>10

LEMMA StartTtiImplements ==
  ASSUME Inv, StartTti
  PROVE  ServiceStep
<1>1. PICK taken \in RtxBlocks, busy \in SUBSET Ue :
        /\ (busy = {}) <=> (\A b \in Band : taken[b] = 0)
        /\ alloc' = Allocated(taken) /\ cws' = busy
  BY DEF StartTti
<1>2. /\ pc = "idle" /\ pc' \in {"make", "rank"} /\ ~InGrant /\ ~InGrant'
      /\ UNCHANGED <<mbuf, vbuf, rejected, spread, scheduleList>>
  BY DEF StartTti, InGrant, buffers
<1>3. taken \in [Band -> Nat]
  BY DownlinkAssumption
<1>4. cws = {} /\ BlocksNoted
  BY <1>2 DEF Inv, TtiForgotten
<1>5. /\ QueueSeen' = QueueSeen /\ PduSeen' = PduSeen /\ SpreadSeen' = SpreadSeen
      /\ PhaseSeen = "idle" /\ PhaseSeen' = "open"
  BY <1>2 DEF QueueSeen, PduSeen, Scheduled, SpreadSeen, Granting, PhaseSeen
<1>6. GivenSeen' = GivenSeen
  <2>1. \A u \in Ue, b \in Band : alloc.blocks[u][b] = 0 /\ alloc'.blocks[u][b] = 0
    BY <1>1, <1>2, <1>4 DEF BlocksNoted, Allocated
  <2> QED BY <1>2, <2>1 DEF GivenSeen, Granting
<1>7. TakenSeen' = taken
  <2>1. \A b \in Band : alloc'.taken[b] = taken[b] /\ taken[b] - 0 = taken[b]
    BY <1>1, <1>3 DEF Allocated
  <2>2. TakenSeen' = [b \in Band |-> alloc'.taken[b] - 0]
    BY <1>2 DEF TakenSeen
  <2> QED BY <1>3, <2>1, <2>2
<1>8. (cws' = {}) <=> (taken = Service!NoBlocks)
  <2>1. (taken = Service!NoBlocks) <=> (\A b \in Band : taken[b] = 0)
    BY <1>3 DEF Service!NoBlocks
  <2> QED BY <1>1, <2>1
<1>9. Service!Start
  BY <1>1, <1>2, <1>3, <1>5, <1>6, <1>7, <1>8 DEF Service!Start
<1> QED BY <1>9 DEF ServiceStep, Service!Next

\* Before its first packet a connection with a grant has its whole queue.
LEMMA NothingTaken ==
  ASSUME Inv, pc # "error", NEW c \in Cid, c \notin rejected, Consumed(c) = 0
  PROVE  vbuf[c] = mbuf[c]
<1>1. /\ vbuf[c] \in Seq(SduSize) /\ mbuf[c] \in Seq(SduSize)
      /\ IsRest(vbuf[c], mbuf[c], 0)
  BY DEF Inv, BufferInv, TypeOK, QueuesInStep, IsRest
<1> QED BY <1>1, SeqRest

LEMMA RequestGrantImplements ==
  ASSUME Inv, RequestGrant
  PROVE  ServiceStep
<1>1. /\ pc = "rank" /\ ~InGrant
      /\ UNCHANGED <<mbuf, vbuf, rejected, top, cws, alloc, spread, scheduleList>>
  BY DEF RequestGrant, InGrant, buffers
<1>2. CASE pc' = "make"
  BY <1>1, <1>2 DEF ServiceStep, Service!vars, QueueSeen, PduSeen, Scheduled, GivenSeen,
                    TakenSeen, SpreadSeen, Granting, PhaseSeen, InGrant
<1>3. CASE pc' = "band" /\ top # NoCid /\ Owner[top] \notin cws
  <2>1. /\ TypeOK /\ BlocksNoted /\ ScheduledOnce /\ TtiForgotten /\ ItemsHaveBytes
    BY DEF Inv, BufferInv
  <2>2. top \in Cid /\ Owner[top] \in Ue
    BY <1>3, <2>1, GrantTop
  <2>3. Consumed(top) = 0
    <3>1. scheduleList[top] \in Nat /\ ~(scheduleList[top] > 0)
      BY <1>3, <2>1, <2>2 DEF ScheduledOnce, TypeOK
    <3>2. g.items = 0
      BY <1>1, <2>1 DEF ItemsHaveBytes
    <3> QED BY <3>1, <3>2 DEF Consumed
  <2>4. top \notin rejected => vbuf[top] = mbuf[top]
    BY <1>1, <2>2, <2>3, NothingTaken
  <2>5. InGrant'
    BY <1>3 DEF InGrant
  <2>6. QueueSeen' = QueueSeen
    BY <1>1, <2>4, <2>5 DEF QueueSeen
  <2>7. \A b \in Band : alloc.blocks[Owner[top]][b] = 0
    BY <1>1, <1>3, <2>1, <2>2 DEF BlocksNoted
  <2>8. GivenSeen' = GivenSeen
    BY <1>1, <2>5, <2>7 DEF GivenSeen, Granting
  <2>9. TakenSeen' = TakenSeen
    BY <1>1, <2>5, <2>7 DEF TakenSeen
  <2>10. Owner[top] \notin spread
    BY <1>1, <1>3, <2>1 DEF TtiForgotten
  <2>11. SpreadSeen' = SpreadSeen
    BY <1>1, <2>5, <2>10 DEF SpreadSeen, Granting
  <2>12. PduSeen' = PduSeen /\ PhaseSeen' = PhaseSeen
    BY <1>1, <1>3 DEF PduSeen, Scheduled, PhaseSeen
  <2> QED BY <1>1, <2>6, <2>8, <2>9, <2>11, <2>12 DEF ServiceStep, Service!vars
<1> QED BY <1>2, <1>3 DEF RequestGrant

\* A UE has no more blocks of a band than all UEs together.
LEMMA GivenAtLeast ==
  ASSUME NEW u \in Ue, NEW b \in Band, alloc \in Allocation
  PROVE  Given(b) \in Nat /\ alloc.blocks[u][b] <= Given(b)
<1> DEFINE f == [v \in Ue |-> alloc.blocks[v][b]]
<1>1. Given(b) = SumFunctionOnSet(f, Ue)
  BY DEF Given, SumFunction
<1>2. \A v \in Ue : f[v] \in Nat
  BY DEF Allocation
<1>3. f[u] = alloc.blocks[u][b]
  OBVIOUS
<1> HIDE DEF f
<1>4. IsFiniteSet(Ue \ {u}) /\ \A v \in Ue \ {u} : f[v] \in Nat
  BY <1>2, UeAssumption, FS_Subset
<1>5. SumFunctionOnSet(f, Ue \ {u}) \in Nat
  BY <1>4, SumNat
<1>6. SumFunctionOnSet(f, Ue) = f[u] + SumFunctionOnSet(f, Ue \ {u})
  BY <1>2, UeAssumption, SumTake
<1> QED BY <1>1, <1>2, <1>3, <1>5, <1>6

\* A grant that ends without bytes is not seen at all.
LEMMA EmptyGrantUnseen ==
  ASSUME Inv, EndGrant, g.cwBytes = 0
  PROVE  ServiceStep
<1>1. /\ pc = "end" /\ pc' = "rank" /\ InGrant /\ ~InGrant'
      /\ UNCHANGED <<mbuf, vbuf, rejected, cws, alloc, spread, scheduleList>>
  BY DEF EndGrant, InGrant, buffers
<1>2. /\ g \in Grant /\ top \in Cid /\ Owner[top] \in Ue /\ Owner[top] \notin cws
      /\ scheduleList[top] = 0 /\ BlocksNoted /\ TtiForgotten /\ ItemsHaveBytes
  BY <1>1, GrantFacts DEF Inv, BufferInv
<1>3. Consumed(top) = 0
  <2>1. g.items \in Nat /\ ~(g.items > 0)
    BY <1>1, <1>2, GrantFields DEF ItemsHaveBytes
  <2> QED BY <1>2, <2>1 DEF Consumed
<1>4. top \notin rejected => vbuf[top] = mbuf[top]
  BY <1>1, <1>2, <1>3, NothingTaken
<1>5. QueueSeen' = QueueSeen
  BY <1>1, <1>4 DEF QueueSeen
<1>6. \A b \in Band : alloc.blocks[Owner[top]][b] = 0
  BY <1>1, <1>2 DEF BlocksNoted
<1>7. GivenSeen' = GivenSeen /\ TakenSeen' = TakenSeen
  BY <1>1, <1>6 DEF GivenSeen, TakenSeen, Granting
<1>8. Owner[top] \notin spread
  BY <1>2 DEF TtiForgotten
<1>9. SpreadSeen' = SpreadSeen
  BY <1>1, <1>8 DEF SpreadSeen, Granting
<1>10. PduSeen' = PduSeen /\ PhaseSeen' = PhaseSeen
  BY <1>1 DEF PduSeen, Scheduled, PhaseSeen
<1> QED BY <1>1, <1>5, <1>7, <1>9, <1>10 DEF ServiceStep, Service!vars

\* The packets of a grant are the first ones of the queue that is seen.
LEMMA GrantTakesFirst ==
  ASSUME Inv, pc = "end", top \notin rejected
  PROVE  /\ g.items \in 0 .. Len(mbuf[top])
         /\ vbuf[top] = SubSeq(mbuf[top], g.items + 1, Len(mbuf[top]))
<1>1. InGrant
  BY DEF InGrant
<1>2. /\ g \in Grant /\ top \in Cid /\ scheduleList[top] = 0 /\ QueuesInStep
      /\ vbuf[top] \in Seq(SduSize) /\ mbuf[top] \in Seq(SduSize)
  BY <1>1, GrantFacts DEF Inv, BufferInv
<1>3. g.items \in Nat /\ Consumed(top) = g.items
  BY <1>2, GrantFields DEF Consumed
<1>4. /\ Len(mbuf[top]) = g.items + Len(vbuf[top])
      /\ \A i \in DOMAIN vbuf[top] : vbuf[top][i] = mbuf[top][g.items + i]
  BY <1>2, <1>3 DEF QueuesInStep
<1>5. IsRest(vbuf[top], mbuf[top], g.items)
  BY <1>4 DEF IsRest
<1>6. /\ vbuf[top] \in Seq(SduSize) /\ mbuf[top] \in Seq(SduSize)
      /\ g.items \in Nat
  BY <1>2, <1>3
<1> QED BY <1>5, <1>6, SeqRest

LEMMA GrantImplements ==
  ASSUME Inv, EndGrant, g.cwBytes > 0
  PROVE  ServiceStep
<1> DEFINE u == Owner[top]
           n == IF top \in rejected THEN 0 ELSE g.items
           use == [b \in Band |-> alloc.blocks[u][b]]
<1>1. /\ pc = "end" /\ pc' = "rank" /\ InGrant /\ ~InGrant'
      /\ UNCHANGED <<mbuf, vbuf, rejected, alloc, spread>>
      /\ cws' = cws \cup {u}
      /\ scheduleList' = [scheduleList EXCEPT ![top] = @ + g.items]
  BY DEF EndGrant, InGrant, buffers
<1>2. /\ g \in Grant /\ alloc \in Allocation /\ top \in Cid /\ u \in Ue /\ u \notin cws
      /\ scheduleList[top] = 0 /\ scheduleList \in [Cid -> Nat]
      /\ mbuf \in [Cid -> Seq(SduSize)]
      /\ BlocksNoted /\ BlocksGivenOnce /\ CodewordHasPacket /\ GrantFits
  BY <1>1, GrantFacts DEF Inv
<1>3. g.items \in Nat /\ g.items > 0
  BY <1>1, <1>2, GrantFields DEF CodewordHasPacket
<1>4. QueueSeen[top] = IF top \in rejected THEN <<>> ELSE mbuf[top]
  BY <1>1, <1>2 DEF QueueSeen
<1>5. n \in 0 .. Len(QueueSeen[top]) /\ (top \notin rejected => n > 0)
  BY <1>1, <1>3, <1>4, GrantTakesFirst
<1>6. QueueSeen' = [QueueSeen EXCEPT ![top] = SubSeq(@, n + 1, Len(@))]
  <2>1. QueueSeen' = [c \in Cid |-> IF c \in rejected THEN <<>> ELSE vbuf[c]]
    BY <1>1 DEF QueueSeen
  <2>2. \A c \in Cid \ {top} :
          QueueSeen[c] = IF c \in rejected THEN <<>> ELSE vbuf[c]
    BY DEF QueueSeen
  <2>3. top \notin rejected =>
          vbuf[top] = SubSeq(QueueSeen[top], n + 1, Len(QueueSeen[top]))
    BY <1>1, <1>4, GrantTakesFirst
  <2>4. top \in rejected => SubSeq(QueueSeen[top], n + 1, Len(QueueSeen[top])) = <<>>
    BY <1>4
  <2>5. QueueSeen'[top] = SubSeq(QueueSeen[top], n + 1, Len(QueueSeen[top]))
    BY <1>2, <2>1, <2>3, <2>4
  <2>6. QueueSeen = [c \in Cid |-> QueueSeen[c]]
    BY DEF QueueSeen
  <2> HIDE DEF n
  <2> QED BY <2>1, <2>2, <2>5, <2>6
<1>7. PduSeen' = [PduSeen EXCEPT ![top] = SubSeq(QueueSeen[top], 1, n)]
  <2>1. PduSeen' = [c \in Cid |-> IF c \in rejected THEN <<>>
                                  ELSE SubSeq(mbuf[c], 1, scheduleList'[c])]
    BY <1>1 DEF PduSeen, Scheduled
  <2>2. PduSeen = [c \in Cid |-> IF c \in rejected THEN <<>>
                                 ELSE SubSeq(mbuf[c], 1, scheduleList[c])]
    BY DEF PduSeen, Scheduled
  <2>3. /\ scheduleList'[top] = g.items
        /\ \A c \in Cid \ {top} : scheduleList'[c] = scheduleList[c]
    BY <1>1, <1>2, <1>3
  <2>4. top \in rejected => SubSeq(QueueSeen[top], 1, n) = <<>>
    BY <1>4
  <2>5. PduSeen'[top] = SubSeq(QueueSeen[top], 1, n)
    BY <1>2, <1>4, <2>1, <2>3, <2>4
  <2> HIDE DEF n
  <2> QED BY <2>1, <2>2, <2>3, <2>5
<1>8. use \in [Band -> 0 .. BlocksPerBand]
  <2>1. \A b \in Band : alloc.blocks[u][b] \in Nat /\ alloc.blocks[u][b] <= BlocksPerBand
    BY <1>2 DEF Allocation, BlocksNoted
  <2> QED BY <2>1, BlocksPerBandNat
<1>9. /\ TakenSeen' = [b \in Band |-> TakenSeen[b] + use[b]]
      /\ \A b \in Band : use[b] > 0 => TakenSeen[b] + use[b] <= BlocksPerBand
  <2>1. \A b \in Band : alloc.taken[b] \in Nat /\ use[b] \in Nat
    BY <1>2, <1>8, BlocksPerBandNat DEF Allocation
  <2>2. \A b \in Band : TakenSeen[b] + use[b] = alloc.taken[b]
    <3>1. TakenSeen = [b \in Band |-> alloc.taken[b] - use[b]]
      BY <1>1 DEF TakenSeen
    <3> QED BY <2>1, <3>1
  <2>3. TakenSeen' = [b \in Band |-> alloc.taken[b]]
    <3>1. TakenSeen' = [b \in Band |-> alloc.taken[b] - 0]
      BY <1>1 DEF TakenSeen
    <3>2. \A b \in Band : alloc.taken[b] - 0 = alloc.taken[b]
      BY <2>1
    <3> QED BY <3>1, <3>2
  <2>4. ASSUME NEW b \in Band, use[b] > 0 PROVE alloc.taken[b] <= BlocksPerBand
    <3>1. Given(b) \in Nat /\ use[b] <= Given(b)
      BY <1>2, GivenAtLeast
    <3>2. Given(b) > 0
      BY <2>1, <2>4, <3>1
    <3> QED BY <1>2, <3>2 DEF BlocksGivenOnce
  <2> HIDE DEF use
  <2> QED BY <2>2, <2>3, <2>4
<1>10. GivenSeen' = [GivenSeen EXCEPT ![u] = use]
  <2>1. GivenSeen' = [v \in Ue |-> [b \in Band |-> alloc.blocks[v][b]]]
    BY <1>1 DEF GivenSeen, Granting
  <2>2. GivenSeen = [v \in Ue |-> [b \in Band |->
                       IF v = u THEN 0 ELSE alloc.blocks[v][b]]]
    BY <1>1 DEF GivenSeen, Granting
  <2>3. \A v \in Ue \ {u} : GivenSeen'[v] = GivenSeen[v]
    BY <2>1, <2>2
  <2>4. GivenSeen'[u] = use
    BY <1>2, <2>1
  <2> HIDE DEF u, use
  <2> QED BY <1>2, <2>1, <2>2, <2>3, <2>4
<1>11. /\ SpreadSeen' = spread
       /\ SpreadSeen' \in {SpreadSeen, SpreadSeen \cup {u}}
  <2>1. SpreadSeen' = spread /\ SpreadSeen = {v \in spread : v # u}
    BY <1>1 DEF SpreadSeen, Granting
  <2> QED BY <2>1
<1>12. ASSUME top \notin rejected, u \notin SpreadSeen'
       PROVE  PduOf(PduSeen'[top]) <= CarriedBy(u, use)
  <2>1. PduBytes(top, g.items) <= Carried(u) + 0
    BY <1>1, <1>2, <1>3, <1>11, <1>12 DEF GrantFits
  <2>2. PduOf(PduSeen'[top]) = PduBytes(top, g.items)
    <3>1. PduSeen'[top] = SubSeq(mbuf[top], 1, g.items)
      BY <1>2, <1>4, <1>7, <1>12 DEF PduSeen
    <3> QED BY <3>1 DEF PduOf, PduBytes
  <2>3. CarriedBy(u, use) = Carried(u)
    <3>1. [b \in Band |-> ComputeBytesOnNRbs(u, use[b])]
            = [b \in Band |-> ComputeBytesOnNRbs(u, alloc.blocks[u][b])]
      OBVIOUS
    <3> QED BY <3>1 DEF CarriedBy, Carried
  <2>4. Carried(u) \in Nat
    BY <1>2, CarriedNat
  <2> QED BY <2>1, <2>2, <2>3, <2>4
<1>13. PhaseSeen = "open" /\ PhaseSeen' = "open"
  BY <1>1 DEF PhaseSeen
<1>14. Service!Grant(top, n)
  <2> HIDE DEF n, use
  <2> QED BY <1>1, <1>2, <1>5, <1>6, <1>7, <1>8, <1>9, <1>10, <1>11, <1>12, <1>13
          DEF Service!Grant
<1> QED BY <1>2, <1>5, <1>14 DEF ServiceStep, Service!Next

LEMMA MacPduMakeImplements ==
  ASSUME Inv, Inv', MacPduMake
  PROVE  ServiceStep
<1>1. /\ pc = "make" /\ pc' \in {"idle", "error"} /\ ~InGrant /\ ~InGrant'
      /\ UNCHANGED <<vbuf, rejected>> /\ cws' = {} /\ spread' = {}
      /\ alloc' = Allocated([b \in Band |-> 0])
      /\ scheduleList' = [c \in Cid |-> 0]
  BY DEF MacPduMake, InGrant
<1>2. mbuf' \in [Cid -> Seq(SduSize)] /\ (pc' = "error" => rejected # {})
  BY <1>1 DEF Inv, BufferInv, TypeOK, OnlyRejectedThrows
<1>3. QueueSeen' = QueueSeen /\ SpreadSeen' = {}
  BY <1>1 DEF QueueSeen, SpreadSeen
<1>4. PduSeen' = Service!NoPdu
  <2>1. \A c \in Cid : Scheduled(c)' = <<>>
    BY <1>1, <1>2, NoneOf DEF Scheduled
  <2> QED BY <2>1 DEF PduSeen, Service!NoPdu
<1>5. GivenSeen' = [u \in Ue |-> Service!NoBlocks] /\ TakenSeen' = Service!NoBlocks
  BY <1>1 DEF GivenSeen, TakenSeen, Granting, Allocated, Service!NoBlocks
<1>6. PhaseSeen = "open" /\ PhaseSeen' \in {"idle", "stopped"}
      /\ (PhaseSeen' = "stopped" => rejected # {})
  BY <1>1, <1>2 DEF PhaseSeen
<1>7. Service!End
  BY <1>1, <1>3, <1>4, <1>5, <1>6 DEF Service!End
<1> QED BY <1>7 DEF ServiceStep, Service!Next

LEMMA InitImplements == Init => Service!Init
<1> SUFFICES ASSUME Init PROVE Service!Init
  OBVIOUS
<1>1. /\ pc = "idle" /\ ~InGrant /\ rejected = {} /\ cws = {} /\ spread = {}
      /\ mbuf = [c \in Cid |-> <<>>] /\ vbuf = [c \in Cid |-> <<>>]
      /\ scheduleList = [c \in Cid |-> 0]
      /\ alloc = Allocated([b \in Band |-> 0])
  BY DEF Init, InGrant
<1>2. QueueSeen = Service!NoPdu /\ PhaseSeen = "idle" /\ SpreadSeen = {}
  BY <1>1 DEF QueueSeen, PhaseSeen, SpreadSeen, Service!NoPdu
<1>3. PduSeen = Service!NoPdu
  <2>1. \A c \in Cid : Scheduled(c) = <<>>
    BY <1>1 DEF Scheduled
  <2> QED BY <2>1 DEF PduSeen, Service!NoPdu
<1>4. GivenSeen = [u \in Ue |-> Service!NoBlocks] /\ TakenSeen = Service!NoBlocks
  BY <1>1 DEF GivenSeen, TakenSeen, Granting, Allocated, Service!NoBlocks
<1> QED BY <1>1, <1>2, <1>3, <1>4 DEF Service!Init

\* Every step of a TTI is one of the service, or is not seen.
LEMMA StepImplements ==
  ASSUME Inv, Inv', [Next]_vars
  PROVE  ServiceStep
<1>1. CASE UNCHANGED vars
  BY <1>1 DEF vars, buffers, ServiceStep, Service!vars, QueueSeen, PduSeen, Scheduled,
              GivenSeen, TakenSeen, SpreadSeen, Granting, PhaseSeen, InGrant
<1>2. ASSUME NEW c \in Cid, NEW size \in SduSize, BufferizePacket(c, size)
      PROVE  ServiceStep
  BY <1>2, BufferizePacketImplements
<1>3. CASE EndGrant
  <2>1. g.cwBytes \in Nat
    BY GrantFields DEF Inv, BufferInv, TypeOK
  <2> QED BY <1>3, <2>1, GrantImplements, EmptyGrantUnseen
<1>4. CASE GrantLoop
  BY <1>4, GrantLoopUnseen
<1>5. CASE StartTti \/ RequestGrant \/ MacPduMake
  BY <1>5, StartTtiImplements, RequestGrantImplements, MacPduMakeImplements
<1> QED BY <1>1, <1>2, <1>3, <1>4, <1>5 DEF Next, TtiStep, GrantLoop, Failed

\* The loops of scheduleGrant(), its bookings and the steps of the discipline
\* around it implement one grant at a time: of the packets at the head of one
\* connection of a UE without a codeword, on blocks that nobody has and that carry
\* the PDU.
THEOREM Implementation == Spec => ImplementsGrants
<1>1. Inv /\ Inv' /\ [Next]_vars => [Service!Next]_(Service!vars)
  BY StepImplements DEF ServiceStep
<1> QED BY InitImplements, InvInvariant, <1>1, PTL DEF Spec, ImplementsGrants, Service!Spec
=============================================================================
