---------------------------- MODULE GoSwitchProofs ----------------------------
(***************************************************************************)
(* Proofs about GoSwitch, for any number of frames and any ring sizes.     *)
(***************************************************************************)
EXTENDS GoSwitch, SequenceTheorems, FiniteSetTheorems, TLAPS

-----------------------------------------------------------------------------
(* The free frames in ascending order.  What holds of every finite set is  *)
(* proved by way of a smallest set for which it fails.                     *)

\* Among some finite sets of numbers there is one without a proper subset
\* among them.
LEMMA SmallestSet ==
  ASSUME NEW Sets, Sets \subseteq FiniteSubsetsOf(Nat), Sets # {}
  PROVE  \E T \in Sets : \A U \in Sets : U \subseteq T => U = T
<1>1. PICK T \in Sets : \A U \in Sets : <<U, T>> \notin StrictSubsetOrdering(Nat)
  BY FS_StrictSubsetOrderingWellFounded, WFMin
<1> QED
  BY <1>1, Zenon DEF StrictSubsetOrdering, FiniteSubsetsOf

\* A finite set of numbers that is not empty has a greatest one.
LEMMA Greatest ==
  ASSUME NEW S \in SUBSET Nat, IsFiniteSet(S), S # {}
  PROVE  \E x \in S : \A y \in S : y <= x
<1> DEFINE HasMax(T) == \E x \in T : \A y \in T : y <= x
           Bad == {T \in FiniteSubsetsOf(Nat) : T # {} /\ ~HasMax(T)}
<1> SUFFICES ASSUME ~HasMax(S) PROVE FALSE
  OBVIOUS
<1> HIDE DEF HasMax
<1>0. Bad \subseteq FiniteSubsetsOf(Nat) /\ Bad # {}
  BY Zenon DEF FiniteSubsetsOf
<1>1. PICK T \in Bad : \A U \in Bad : U \subseteq T => U = T
  <2> HIDE DEF Bad
  <2> QED
    BY <1>0, SmallestSet
<1>2. T \subseteq Nat /\ IsFiniteSet(T) /\ T # {} /\ ~HasMax(T)
  BY <1>1 DEF FiniteSubsetsOf
<1>3. PICK x \in T : TRUE
  BY <1>2, Zenon
<1>4. T \ {x} \in FiniteSubsetsOf(Nat)
  BY <1>2, FS_RemoveElement DEF FiniteSubsetsOf
<1>5. CASE T \ {x} = {}
  <2>1. \A y \in T : y <= x
    BY <1>2, <1>3, <1>5
  <2> QED
    BY <2>1, <1>2, <1>3 DEF HasMax
<1>6. CASE T \ {x} # {}
  <2>1. T \ {x} \notin Bad
    BY <1>1, <1>3
  <2>2. PICK m \in T \ {x} : \A y \in T \ {x} : y <= m
    BY <2>1, <1>4, <1>6 DEF HasMax
  <2>3. CASE x <= m
    BY <2>2, <2>3, <1>2 DEF HasMax
  <2>4. CASE ~(x <= m)
    <3>1. \A y \in T : y <= x
      BY <2>2, <2>4, <1>2, <1>3
    <3> QED
      BY <3>1, <1>2, <1>3 DEF HasMax
  <2> QED
    BY <2>3, <2>4
<1> QED
  BY <1>5, <1>6

Lower(S, f) == {g \in S : g < f}

\* A finite set of numbers has, for every i up to its size, a member with
\* i - 1 lower members.
LEMMA HasRank ==
  ASSUME NEW S \in SUBSET Nat, IsFiniteSet(S), NEW i \in 1 .. Cardinality(S)
  PROVE  \E f \in S : Cardinality(Lower(S, f)) = i - 1
<1> DEFINE Ranked(T) == \A k \in 1 .. Cardinality(T) :
                           \E f \in T : Cardinality(Lower(T, f)) = k - 1
           Bad == {T \in FiniteSubsetsOf(Nat) : ~Ranked(T)}
<1> SUFFICES ASSUME ~Ranked(S) PROVE FALSE
  OBVIOUS
<1> HIDE DEF Ranked
<1>0. Bad \subseteq FiniteSubsetsOf(Nat) /\ Bad # {}
  BY Zenon DEF FiniteSubsetsOf
<1>1. PICK T \in Bad : \A U \in Bad : U \subseteq T => U = T
  <2> HIDE DEF Bad
  <2> QED
    BY <1>0, SmallestSet
<1>2. T \subseteq Nat /\ IsFiniteSet(T) /\ ~Ranked(T)
  BY <1>1 DEF FiniteSubsetsOf
<1>3. T # {}
  <2>1. Ranked({})
    BY FS_EmptySet DEF Ranked
  <2> QED
    BY <2>1, <1>2
<1>4. PICK x \in T : \A y \in T : y <= x
  BY <1>2, <1>3, Greatest
<1> DEFINE U == T \ {x}
<1>5. /\ IsFiniteSet(U) /\ Cardinality(U) \in Nat /\ Cardinality(T) = Cardinality(U) + 1
  <2>1. IsFiniteSet(U) /\ Cardinality(U) = Cardinality(T) - 1
    BY <1>2, <1>4, FS_RemoveElement, Zenon
  <2>2. Cardinality(U) \in Nat /\ Cardinality(T) \in Nat
    BY <2>1, <1>2, FS_CardinalityType
  <2> QED
    BY <2>1, <2>2
<1>6. Ranked(U)
  <2>1. U \in FiniteSubsetsOf(Nat)
    BY <1>2, <1>5 DEF FiniteSubsetsOf
  <2>2. U \notin Bad
    BY <1>1, <1>4
  <2> QED
    BY <2>1, <2>2
<1>7. Lower(T, x) = U
  <2>1. \A y \in T : y < x <=> y # x
    BY <1>2, <1>4
  <2> QED
    BY <2>1 DEF Lower
<1>8. ASSUME NEW f \in U PROVE Lower(T, f) = Lower(U, f)
  BY <1>2, <1>4 DEF Lower
<1>9. ASSUME NEW k \in 1 .. Cardinality(T)
      PROVE  \E f \in T : Cardinality(Lower(T, f)) = k - 1
  <2>1. CASE k = Cardinality(T)
    <3>1. Cardinality(Lower(T, x)) = k - 1
      BY <2>1, <1>5, <1>7
    <3> QED
      BY <3>1
  <2>2. CASE k # Cardinality(T)
    <3>1. k \in 1 .. Cardinality(U)
      BY <2>2, <1>5
    <3>2. PICK f \in U : Cardinality(Lower(U, f)) = k - 1
      BY <3>1, <1>6, Zenon DEF Ranked
    <3> QED
      BY <3>2, <1>8
  <2> QED
    BY <2>1, <2>2
<1> QED
  BY <1>9, <1>2 DEF Ranked

\* The sequence holds members of the set, each once.
LEMMA AscendingType ==
  ASSUME NEW S \in SUBSET Nat, IsFiniteSet(S)
  PROVE  /\ Ascending(S) \in Seq(S) /\ Len(Ascending(S)) = Cardinality(S)
         /\ IsInjective(Ascending(S))
<1> DEFINE n == Cardinality(S)
           a == Ascending(S)
           Rank(f) == Cardinality(Lower(S, f))
           Nth(i) == CHOOSE f \in S : Rank(f) = i - 1
<1>1. n \in Nat
  BY FS_CardinalityType
<1>2. a = [i \in 1 .. n |-> Nth(i)]
  BY DEF Ascending, Lower
<1>3. ASSUME NEW i \in 1 .. n PROVE Nth(i) \in S /\ Rank(Nth(i)) = i - 1
  <2>1. \E f \in S : Rank(f) = i - 1
    BY HasRank
  <2> HIDE DEF Rank
  <2> QED
    BY <2>1
<1> HIDE DEF a, Rank, Nth
<1>4. a \in [1 .. n -> S]
  BY <1>2, <1>3
<1>5. a \in Seq(S) /\ Len(a) = n
  BY <1>1, <1>4
<1>6. IsInjective(a)
  BY <1>1, <1>2, <1>3 DEF IsInjective
<1> QED
  BY <1>5, <1>6 DEF a

-----------------------------------------------------------------------------
(* Sequences of frames *)

\* The first n elements of a sequence, or all of it.
LEMMA FirstType ==
  ASSUME NEW S, NEW s \in Seq(S), NEW n \in Nat
  PROVE  /\ First(s, n) \in Seq(S)
         /\ Len(First(s, n)) <= n /\ Len(First(s, n)) <= Len(s)
         /\ \A i \in 1 .. Len(First(s, n)) : First(s, n)[i] = s[i]
         /\ Range(First(s, n)) \subseteq Range(s)
         /\ IsInjective(s) => IsInjective(First(s, n))
<1> DEFINE k == Capped(n, Len(s))
           t == SubSeq(s, 1, k)
<1>1. Len(s) \in Nat /\ DOMAIN s = 1 .. Len(s) /\ \A i \in 1 .. Len(s) : s[i] \in S
  BY LenProperties
<1>2. k \in 0 .. Len(s) /\ k <= n
  BY <1>1 DEF Capped
<1> HIDE DEF k
<1>3. \A i \in 1 .. k : s[i] \in S
  BY <1>1, <1>2
<1>4. t \in Seq(S) /\ Len(t) = k /\ \A i \in 1 .. k : t[i] = s[i]
  <2>1. /\ t \in Seq(S) /\ Len(t) = IF 1 <= k THEN k - 1 + 1 ELSE 0
        /\ \A i \in 1 .. k - 1 + 1 : t[i] = s[1 + i - 1]
    BY <1>2, <1>3, SubSeqProperties
  <2> QED
    BY <2>1, <1>2
<1> HIDE DEF t
<1>5. DOMAIN t = 1 .. k
  BY <1>4, LenProperties
<1>6. Range(t) \subseteq Range(s)
  BY <1>1, <1>2, <1>4, <1>5 DEF Range
<1>7. IsInjective(s) => IsInjective(t)
  BY <1>1, <1>2, <1>4, <1>5 DEF IsInjective
<1>8. First(s, n) = t
  BY DEF First, k, t
<1> QED
  BY <1>1, <1>2, <1>4, <1>6, <1>7, <1>8

\* The empty ring.
LEMMA EmptyType ==
  Range(<<>>) = {} /\ IsInjective(<<>>) /\ Len(<<>>) = 0 /\ \A S : <<>> \in Seq(S)
BY DEF Range, IsInjective

\* Frames added to a ring at its end.
LEMMA ConcatType ==
  ASSUME NEW S, NEW s \in Seq(S), NEW t \in Seq(S)
  PROVE  /\ s \o t \in Seq(S) /\ Len(s \o t) = Len(s) + Len(t)
         /\ Range(s \o t) = Range(s) \cup Range(t)
         /\ IsInjective(s) /\ IsInjective(t) /\ Range(s) \cap Range(t) = {}
              => IsInjective(s \o t)
<1> DEFINE u == s \o t
<1>1. /\ Len(s) \in Nat /\ Len(t) \in Nat /\ u \in Seq(S) /\ Len(u) = Len(s) + Len(t)
      /\ \A i \in 1 .. Len(s) + Len(t) : u[i] = IF i <= Len(s) THEN s[i] ELSE t[i - Len(s)]
  BY ConcatProperties, LenProperties
<1>2. Range(u) = Range(s) \cup Range(t)
  BY RangeConcatenation
<1> HIDE DEF u
<1>3. DOMAIN u = 1 .. Len(s) + Len(t) /\ DOMAIN s = 1 .. Len(s) /\ DOMAIN t = 1 .. Len(t)
  BY <1>1, LenProperties
<1>4. ASSUME IsInjective(s), IsInjective(t), Range(s) \cap Range(t) = {},
             NEW i \in DOMAIN u, NEW j \in DOMAIN u, u[i] = u[j]
      PROVE  i = j
  <2>1. CASE i <= Len(s) /\ j <= Len(s)
    BY <1>1, <1>3, <1>4, <2>1 DEF IsInjective
  <2>2. CASE ~(i <= Len(s)) /\ ~(j <= Len(s))
    <3>1. i - Len(s) \in DOMAIN t /\ j - Len(s) \in DOMAIN t
      BY <1>1, <1>3, <2>2
    <3>2. t[i - Len(s)] = t[j - Len(s)]
      BY <1>1, <1>3, <1>4, <2>2, Zenon
    <3>3. i - Len(s) = j - Len(s)
      BY <3>1, <3>2, <1>4 DEF IsInjective
    <3> QED
      BY <3>3, <1>1, <1>3
  <2>3. CASE i <= Len(s) /\ ~(j <= Len(s))
    <3>1. i \in DOMAIN s /\ j - Len(s) \in DOMAIN t /\ s[i] = t[j - Len(s)]
      BY <1>1, <1>3, <1>4, <2>3
    <3> QED
      BY <3>1, <1>4 DEF Range
  <2>4. CASE ~(i <= Len(s)) /\ j <= Len(s)
    <3>1. j \in DOMAIN s /\ i - Len(s) \in DOMAIN t /\ s[j] = t[i - Len(s)]
      BY <1>1, <1>3, <1>4, <2>4
    <3> QED
      BY <3>1, <1>4, Zenon DEF Range
  <2> QED
    BY <2>1, <2>2, <2>3, <2>4, Zenon
<1> QED
  BY <1>1, <1>2, <1>4, Zenon DEF IsInjective, u

\* One frame added to a ring.
LEMMA AppendType ==
  ASSUME NEW S, NEW s \in Seq(S), NEW e \in S
  PROVE  /\ Append(s, e) \in Seq(S) /\ Len(Append(s, e)) = Len(s) + 1
         /\ Range(Append(s, e)) = Range(s) \cup {e}
         /\ IsInjective(s) /\ e \notin Range(s) => IsInjective(Append(s, e))
<1> DEFINE u == Append(s, e)
<1>1. /\ Len(s) \in Nat /\ u \in Seq(S) /\ Len(u) = Len(s) + 1
      /\ \A i \in 1 .. Len(s) : u[i] = s[i]
      /\ u[Len(s) + 1] = e
  BY AppendProperties, LenProperties
<1> HIDE DEF u
<1>2. DOMAIN u = 1 .. Len(s) + 1 /\ DOMAIN s = 1 .. Len(s)
  BY <1>1, LenProperties, Zenon
<1>3. \A i : i \in DOMAIN u <=> i \in DOMAIN s \/ i = Len(s) + 1
  BY <1>1, <1>2
<1>4. Range(u) = Range(s) \cup {e}
  BY <1>1, <1>2, <1>3, Zenon DEF Range
<1>5. IsInjective(s) /\ e \notin Range(s) => IsInjective(u)
  BY <1>1, <1>2, <1>3, Zenon DEF Range, IsInjective
<1> QED
  BY <1>1, <1>4, <1>5 DEF u

\* The first frame taken from a ring.
LEMMA TailType ==
  ASSUME NEW S, NEW s \in Seq(S), s # <<>>
  PROVE  /\ Tail(s) \in Seq(S) /\ Len(Tail(s)) = Len(s) - 1 /\ Head(s) \in S
         /\ Range(s) = Range(Tail(s)) \cup {Head(s)}
         /\ IsInjective(s) => IsInjective(Tail(s)) /\ Head(s) \notin Range(Tail(s))
<1> DEFINE t == Tail(s)
<1>1. /\ Len(s) \in Nat \ {0} /\ t \in Seq(S) /\ Len(t) = Len(s) - 1 /\ Head(s) \in S
      /\ \A i \in 1 .. Len(t) : t[i] = s[i + 1]
      /\ Head(s) = s[1]
  BY HeadTailProperties, LenProperties, EmptySeq
<1> HIDE DEF t
<1>2. DOMAIN t = 1 .. Len(s) - 1 /\ DOMAIN s = 1 .. Len(s)
  BY <1>1, LenProperties, Zenon
<1>3. ASSUME NEW i \in DOMAIN s PROVE i = 1 \/ (i - 1 \in DOMAIN t /\ t[i - 1] = s[i])
  BY <1>1, <1>2
<1>4. ASSUME NEW i \in DOMAIN t PROVE i + 1 \in DOMAIN s /\ i + 1 # 1 /\ t[i] = s[i + 1]
  BY <1>1, <1>2
<1>5. Range(s) = Range(t) \cup {Head(s)}
  <2>1. Range(s) \subseteq Range(t) \cup {Head(s)}
    BY <1>1, <1>3 DEF Range
  <2>2. Range(t) \subseteq Range(s)
    BY <1>4 DEF Range
  <2>3. Head(s) \in Range(s)
    BY <1>1, <1>2 DEF Range
  <2> QED
    BY <2>1, <2>2, <2>3
<1>6. IsInjective(s) => IsInjective(t)
  BY <1>1, <1>2, <1>4 DEF IsInjective
<1>7. IsInjective(s) => Head(s) \notin Range(t)
  BY <1>1, <1>2, <1>4 DEF Range, IsInjective
<1> QED
  BY <1>1, <1>5, <1>6, <1>7, Zenon DEF t

\* A socket takes all that is in a ring: everything, and nothing is left.
LEMMA TakeAll ==
  ASSUME NEW S, NEW s \in Seq(S)
  PROVE  /\ First(s, Len(s)) = s
         /\ SubSeq(s, Len(s) + 1, Len(s)) = <<>>
<1>1. Len(s) \in Nat
  BY LenProperties
<1>2. First(s, Len(s)) = SubSeq(s, 1, Len(s))
  BY <1>1 DEF First, Capped
<1> QED
  BY <1>1, <1>2, SubSeqFull, SubSeqEmpty

\* Two and three sequences are distinct when none repeats an element and no
\* two have one in common.
LEMMA DistinctTwo ==
  ASSUME NEW a, NEW b
  PROVE  DistinctSeqs(<<a, b>>)
           <=> IsInjective(a) /\ IsInjective(b) /\ Range(a) \cap Range(b) = {}
<1>1. DOMAIN <<a, b>> = {1, 2} /\ <<a, b>>[1] = a /\ <<a, b>>[2] = b
  OBVIOUS
<1> QED
  BY <1>1 DEF DistinctSeqs, IsInjective, Range

\* Three rings of pairwise different frames form one without repetition.
LEMMA DistinctThree ==
  ASSUME NEW a, NEW b, NEW c
  PROVE  DistinctSeqs(<<a, b, c>>)
           <=> /\ IsInjective(a) /\ IsInjective(b) /\ IsInjective(c)
               /\ Range(a) \cap Range(b) = {} /\ Range(a) \cap Range(c) = {}
               /\ Range(b) \cap Range(c) = {}
<1>1. /\ DOMAIN <<a, b, c>> = {1, 2, 3}
      /\ <<a, b, c>>[1] = a /\ <<a, b, c>>[2] = b /\ <<a, b, c>>[3] = c
  OBVIOUS
<1> QED
  BY <1>1 DEF DistinctSeqs, IsInjective, Range

-----------------------------------------------------------------------------
(* The shape of the state: types, ring sizes, and the slots that frames    *)
(* being sent will need in the completion ring                             *)

RxShape ==
  /\ fillRing \in [Ports -> Seq(RxFrames)] /\ rxRing \in [Ports -> Seq(RxFrames)]
  /\ nic \in [Ports -> Seq(RxFrames)]
  /\ freeRXDescs \in [Ports -> SUBSET AllFrames] /\ numFilled \in [Ports -> Int]

TxShape ==
  /\ txRing \in [Ports -> Seq(TxFrames)] /\ completionRing \in [Ports -> Seq(TxFrames)]
  /\ sending \in [Ports -> SUBSET TxFrames]
  /\ freeTXDescs \in [Ports -> SUBSET AllFrames] /\ numTransmitted \in [Ports -> Int]

DataShape ==
  /\ umem \in [Ports -> [AllFrames -> Nat]]
  /\ arrived \in [Ports -> Nat] /\ sent \in [Ports -> Seq(Nat)]
  /\ \A p \in Ports : arrived[p] <= MaxPackets[p]

LoopShape ==
  /\ pc \in {"fill", "poll", "receive", "forward", "complete"} /\ cur \in Ports
  /\ revents \in [Ports -> SUBSET {"POLLIN", "POLLOUT"}]
  /\ inDescs \in Seq(RxFrames)

RxSizes ==
  \A p \in Ports :
    Len(fillRing[p]) <= FillRingNumDescs /\ Len(rxRing[p]) <= RxRingNumDescs

TxSizes ==
  \A p \in Ports :
    /\ Len(txRing[p]) <= TxRingNumDescs
    /\ Cardinality(sending[p]) + Len(completionRing[p]) <= CompletionRingNumDescs

Shape == RxShape /\ TxShape /\ DataShape /\ LoopShape /\ RxSizes /\ TxSizes

\* The two halves of the UMEM.
LEMMA Halves ==
  /\ FillRingNumDescs \in Nat /\ NumFrames \in Nat /\ RxRingNumDescs \in Nat
  /\ TxRingNumDescs \in Nat /\ CompletionRingNumDescs \in Nat
  /\ AllFrames \subseteq Nat /\ IsFiniteSet(AllFrames)
  /\ RxFrames \cup TxFrames = AllFrames /\ RxFrames \cap TxFrames = {}
  /\ in # out /\ \A p \in Ports : Other(p) \in Ports /\ Other(p) # p /\ MaxPackets[p] \in Nat
<1>1. /\ FillRingNumDescs \in Nat /\ NumFrames \in Nat /\ RxRingNumDescs \in Nat
      /\ TxRingNumDescs \in Nat /\ CompletionRingNumDescs \in Nat
      /\ FillRingNumDescs < NumFrames
  BY OptionsAssumption
<1>2. /\ AllFrames \subseteq Nat
      /\ RxFrames \cup TxFrames = AllFrames /\ RxFrames \cap TxFrames = {}
  BY <1>1 DEF AllFrames, RxFrames, TxFrames
<1>3. IsFiniteSet(AllFrames)
  BY <1>1, FS_Interval DEF AllFrames
<1>4. in # out /\ \A p \in Ports : Other(p) \in Ports /\ Other(p) # p /\ MaxPackets[p] \in Nat
  BY OptionsAssumption DEF Ports, Other
<1> QED
  BY <1>1, <1>2, <1>3, <1>4, Zenon

\* GetDescs: frames of one half that are marked free, each once, as many as
\* were asked for at most.
LEMMA GetDescsType ==
  ASSUME Shape, NEW p \in Ports, NEW n \in Nat
  PROVE  /\ GetDescs(p, n, TRUE) \in Seq(RxFrames) /\ IsInjective(GetDescs(p, n, TRUE))
         /\ Range(GetDescs(p, n, TRUE)) \subseteq freeRXDescs[p]
         /\ GetDescs(p, n, FALSE) \in Seq(TxFrames) /\ IsInjective(GetDescs(p, n, FALSE))
         /\ Range(GetDescs(p, n, FALSE)) \subseteq freeTXDescs[p]
<1>1. ASSUME NEW S \in SUBSET AllFrames, NEW m \in Nat
      PROVE  /\ First(Ascending(S), m) \in Seq(S) /\ IsInjective(First(Ascending(S), m))
             /\ Range(First(Ascending(S), m)) \subseteq S
  <2>1. S \in SUBSET Nat /\ IsFiniteSet(S)
    BY Halves, FS_Subset, Zenon
  <2>2. Ascending(S) \in Seq(S) /\ IsInjective(Ascending(S))
    BY <2>1, AscendingType
  <2>3. First(Ascending(S), m) \in Seq(S) /\ IsInjective(First(Ascending(S), m))
    BY <2>2, FirstType
  <2> QED
    BY <2>3, RangeOfSeq
<1> DEFINE r == freeRXDescs[p] \cap RxFrames
           t == freeTXDescs[p] \cap TxFrames
           k == Capped(n, FillRingNumDescs)
           l == Capped(n, Capped(FillRingNumDescs, CompletionRingNumDescs))
<1>2. /\ r \in SUBSET AllFrames /\ t \in SUBSET AllFrames
      /\ r \subseteq RxFrames /\ r \subseteq freeRXDescs[p]
      /\ t \subseteq TxFrames /\ t \subseteq freeTXDescs[p]
  BY Halves DEF Shape, RxShape, TxShape
<1>3. k \in Nat /\ l \in Nat
  BY Halves, Zenon DEF Capped
<1>4. GetDescs(p, n, TRUE) = First(Ascending(r), k)
  BY DEF GetDescs
<1>5. GetDescs(p, n, FALSE) = First(Ascending(t), l)
  BY DEF GetDescs
<1> HIDE DEF r, t, k, l
<1>6. /\ First(Ascending(r), k) \in Seq(RxFrames) /\ IsInjective(First(Ascending(r), k))
      /\ Range(First(Ascending(r), k)) \subseteq freeRXDescs[p]
  <2>1. /\ First(Ascending(r), k) \in Seq(r) /\ IsInjective(First(Ascending(r), k))
        /\ Range(First(Ascending(r), k)) \subseteq r
    BY <1>1, <1>2, <1>3, Zenon
  <2>2. First(Ascending(r), k) \in Seq(RxFrames)
    BY <2>1, <1>2, SeqMonotonic, Zenon
  <2> QED
    BY <2>1, <2>2, <1>2, Zenon
<1>7. /\ First(Ascending(t), l) \in Seq(TxFrames) /\ IsInjective(First(Ascending(t), l))
      /\ Range(First(Ascending(t), l)) \subseteq freeTXDescs[p]
  <2>1. /\ First(Ascending(t), l) \in Seq(t) /\ IsInjective(First(Ascending(t), l))
        /\ Range(First(Ascending(t), l)) \subseteq t
    BY <1>1, <1>2, <1>3, Zenon
  <2>2. First(Ascending(t), l) \in Seq(TxFrames)
    BY <2>1, <1>2, SeqMonotonic, Zenon
  <2> QED
    BY <2>1, <2>2, <1>2, Zenon
<1> QED
  BY <1>4, <1>5, <1>6, <1>7, Zenon

-----------------------------------------------------------------------------
(* What the steps of the loop do, in terms of the frames d they move *)

\* What the fill step does to the rings and marks.
LEMMA FillEffect ==
  ASSUME Shape, FillPort
  PROVE  \E d \in Seq(RxFrames) :
           /\ IsInjective(d) /\ Range(d) \subseteq freeRXDescs[cur]
           /\ Len(d) <= FillRingNumDescs - Len(fillRing[cur])
           /\ fillRing' = [fillRing EXCEPT ![cur] = fillRing[cur] \o d]
           /\ freeRXDescs' = [freeRXDescs EXCEPT ![cur] = freeRXDescs[cur] \ Range(d)]
           /\ numFilled' = [numFilled EXCEPT ![cur] = numFilled[cur] + Len(d)]
<1> DEFINE n == NumFreeFillSlots(cur)
           g == GetDescs(cur, n, TRUE)
           d == First(g, n)
<1>1. cur \in Ports /\ n \in Nat /\ n = FillRingNumDescs - Len(fillRing[cur])
  <2>1. cur \in Ports /\ Len(fillRing[cur]) \in Nat
    BY LenProperties DEF Shape, RxShape, LoopShape
  <2> QED
    BY <2>1, Halves DEF Shape, RxSizes, NumFreeFillSlots
<1>2. Fill(cur, g)
  BY DEF FillPort
<1>3. g \in Seq(RxFrames) /\ IsInjective(g) /\ Range(g) \subseteq freeRXDescs[cur]
  BY <1>1, GetDescsType, Zenon
<1>4. /\ fillRing' = [fillRing EXCEPT ![cur] = fillRing[cur] \o d]
      /\ freeRXDescs' = [freeRXDescs EXCEPT ![cur] = freeRXDescs[cur] \ Range(d)]
      /\ numFilled' = [numFilled EXCEPT ![cur] = numFilled[cur] + Len(d)]
  BY <1>2 DEF Fill
<1> HIDE DEF n, g
<1>5. d \in Seq(RxFrames) /\ Len(d) <= n /\ Range(d) \subseteq Range(g) /\ IsInjective(d)
  BY <1>1, <1>3, FirstType
<1> HIDE DEF d
<1> QED
  BY <1>1, <1>3, <1>4, <1>5, Zenon

\* What receiving does to them.
LEMMA ReceiveEffect ==
  ASSUME Shape, ReceivePort, "POLLIN" \in revents[cur]
  PROVE  /\ inDescs' = rxRing[cur] /\ pc' = "forward"
         /\ rxRing' = [rxRing EXCEPT ![cur] = <<>>]
         /\ freeRXDescs' = [freeRXDescs EXCEPT ![cur] = freeRXDescs[cur] \cup Range(rxRing[cur])]
         /\ numFilled' = [numFilled EXCEPT ![cur] = numFilled[cur] - Len(rxRing[cur])]
<1> DEFINE d == Descs(cur, NumReceived(cur))
<1>1. cur \in Ports /\ rxRing[cur] \in Seq(RxFrames)
  BY DEF Shape, RxShape, LoopShape
<1>2. d = rxRing[cur] /\ SubSeq(rxRing[cur], Len(d) + 1, Len(rxRing[cur])) = <<>>
  BY <1>1, TakeAll, Zenon DEF Descs, NumReceived
<1>3. /\ inDescs' = d /\ pc' = "forward"
      /\ rxRing' = [rxRing EXCEPT ![cur] = SubSeq(rxRing[cur], Len(d) + 1, Len(rxRing[cur]))]
      /\ freeRXDescs' = [freeRXDescs EXCEPT ![cur] = freeRXDescs[cur] \cup Range(d)]
      /\ numFilled' = [numFilled EXCEPT ![cur] = numFilled[cur] - Len(d)]
  BY DEF ReceivePort, Receive
<1> HIDE DEF d
<1> QED
  BY <1>2, <1>3, Zenon

\* What forwarding does to them.
LEMMA ForwardEffect ==
  ASSUME Shape, ForwardPort
  PROVE  LET o == Other(cur)
         IN  \E d \in Seq(TxFrames) :
               /\ IsInjective(d) /\ Range(d) \subseteq freeTXDescs[o]
               /\ Len(d) <= TxRingNumDescs - Len(txRing[o]) /\ Len(d) <= Len(inDescs)
               /\ txRing' = [txRing EXCEPT ![o] = txRing[o] \o d]
               /\ freeTXDescs' = [freeTXDescs EXCEPT ![o] = freeTXDescs[o] \ Range(d)]
               /\ numTransmitted' = [numTransmitted EXCEPT ![o] = numTransmitted[o] + Len(d)]
               /\ umem' \in [Ports -> [AllFrames -> Nat]]
               /\ umem'[cur] = umem[cur]
               /\ \A f \in AllFrames \ Range(d) : umem'[o][f] = umem[o][f]
               /\ \A i \in 1 .. Len(d) : umem'[o][d[i]] = umem[cur][inDescs[i]]
<1> DEFINE o == Other(cur)
           n == NumFreeTxSlots(o)
           g == GetDescs(o, n, FALSE)
           e == First(g, Len(inDescs))
           d == First(e, n)
           Source(f) == umem[cur][inDescs[CHOOSE i \in DOMAIN e : e[i] = f]]
           New(f) == IF f \in Range(e) THEN Source(f) ELSE umem[o][f]
<1>1. cur \in Ports /\ o \in Ports /\ o # cur
  BY Halves DEF Shape, LoopShape
<1>2. n \in Nat /\ n = TxRingNumDescs - Len(txRing[o]) /\ Len(inDescs) \in Nat
  <2>1. Len(txRing[o]) \in Nat /\ Len(inDescs) \in Nat
    BY <1>1, LenProperties DEF Shape, TxShape, LoopShape
  <2> QED
    BY <2>1, <1>1, Halves DEF Shape, TxSizes, NumFreeTxSlots
<1>3. g \in Seq(TxFrames) /\ IsInjective(g) /\ Range(g) \subseteq freeTXDescs[o]
  BY <1>1, <1>2, GetDescsType, Zenon
<1>4. /\ txRing' = [txRing EXCEPT ![o] = txRing[o] \o d]
      /\ freeTXDescs' = [freeTXDescs EXCEPT ![o] = freeTXDescs[o] \ Range(d)]
      /\ numTransmitted' = [numTransmitted EXCEPT ![o] = numTransmitted[o] + Len(e)]
  BY DEF ForwardPort, PushTx
<1>5. umem' = [umem EXCEPT ![o] = [f \in AllFrames |-> New(f)]]
  BY DEF ForwardPort
<1>6. Len(g) <= n
  <2> HIDE DEF n, o
  <2> DEFINE t == freeTXDescs[o] \cap TxFrames
             l == Capped(n, Capped(FillRingNumDescs, CompletionRingNumDescs))
  <2>1. g = First(Ascending(t), l)
    BY DEF GetDescs
  <2>2. t \in SUBSET Nat /\ IsFiniteSet(t)
    <3>1. t \in SUBSET AllFrames
      BY <1>1 DEF Shape, TxShape
    <3> QED
      BY <3>1, Halves, FS_Subset, Zenon
  <2>3. l \in Nat /\ l <= n
    <3>1. n \in Nat /\ FillRingNumDescs \in Nat /\ CompletionRingNumDescs \in Nat
      BY <1>2, Halves
    <3> QED
      BY <3>1 DEF Capped
  <2> HIDE DEF t, l, g
  <2>4. Ascending(t) \in Seq(t)
    BY <2>2, AscendingType
  <2>5. First(Ascending(t), l) \in Seq(t) /\ Len(First(Ascending(t), l)) <= l
    BY <2>3, <2>4, FirstType
  <2>6. Len(g) \in Nat
    BY <2>1, <2>5, LenProperties, Zenon
  <2> QED
    BY <2>1, <2>3, <2>5, <2>6, <1>2
<1> HIDE DEF n, g
<1>7. /\ e \in Seq(TxFrames) /\ IsInjective(e) /\ Range(e) \subseteq Range(g)
      /\ Len(e) <= Len(inDescs) /\ Len(e) <= Len(g)
  BY <1>2, <1>3, FirstType, Zenon
<1> HIDE DEF e
<1>8. Len(e) \in Nat /\ Len(g) \in Nat /\ Len(e) <= n /\ DOMAIN e = 1 .. Len(e)
  BY <1>2, <1>3, <1>6, <1>7, LenProperties
<1>9. d = e
  <2>1. First(e, n) = First(e, Len(e))
    BY <1>2, <1>8 DEF First, Capped
  <2> QED
    BY <2>1, <1>7, TakeAll, Zenon
<1>10. ASSUME NEW i \in 1 .. Len(e) PROVE e[i] \in AllFrames /\ New(e[i]) = umem[cur][inDescs[i]]
  <2>1. (CHOOSE j \in DOMAIN e : e[j] = e[i]) = i
    BY <1>7, <1>8 DEF IsInjective
  <2>2. e[i] \in Range(e) /\ e[i] \in AllFrames
    BY <1>7, <1>8, Halves, ElementOfSeq DEF Range
  <2> QED
    BY <2>1, <2>2, Zenon
<1>11. ASSUME NEW f \in AllFrames PROVE New(f) \in Nat
  <2>1. CASE f \in Range(e)
    <3>1. PICK i \in 1 .. Len(e) : e[i] = f
      BY <2>1, <1>8, Zenon DEF Range
    <3>2. New(f) = umem[cur][inDescs[i]]
      BY <3>1, <1>10, Zenon
    <3>3. inDescs[i] \in AllFrames
      <4>1. i \in 1 .. Len(inDescs) /\ inDescs \in Seq(RxFrames)
        BY <1>2, <1>7, <1>8 DEF Shape, LoopShape
      <4>2. inDescs[i] \in RxFrames
        BY <4>1, ElementOfSeq
      <4> QED
        BY <4>2, Halves
    <3> QED
      BY <3>2, <3>3, <1>1, Zenon DEF Shape, DataShape
  <2>2. CASE f \notin Range(e)
    BY <2>2, <1>1 DEF Shape, DataShape
  <2> QED
    BY <2>1, <2>2
<1>12. \A f \in AllFrames \ Range(e) : New(f) = umem[o][f]
  OBVIOUS
<1> HIDE DEF New
<1>13. /\ umem' \in [Ports -> [AllFrames -> Nat]] /\ umem'[cur] = umem[cur]
       /\ \A f \in AllFrames : umem'[o][f] = New(f)
  BY <1>1, <1>5, <1>11, Zenon DEF Shape, DataShape
<1> HIDE DEF d
<1>14. Len(e) <= TxRingNumDescs - Len(txRing[o]) /\ Range(e) \subseteq freeTXDescs[o]
  BY <1>2, <1>3, <1>7, <1>8
<1>15. /\ txRing' = [txRing EXCEPT ![o] = txRing[o] \o e]
       /\ freeTXDescs' = [freeTXDescs EXCEPT ![o] = freeTXDescs[o] \ Range(e)]
       /\ numTransmitted' = [numTransmitted EXCEPT ![o] = numTransmitted[o] + Len(e)]
  BY <1>4, <1>9, Zenon
<1>16. \A i \in 1 .. Len(e) : umem'[o][e[i]] = umem[cur][inDescs[i]]
  BY <1>10, <1>13, Zenon
<1>17. \A f \in AllFrames \ Range(e) : umem'[o][f] = umem[o][f]
  BY <1>12, <1>13, Zenon
<1> HIDE DEF o
<1> QED
  BY <1>7, <1>13, <1>14, <1>15, <1>16, <1>17, Zenon DEF o

\* What completing does to them.
LEMMA CompleteEffect ==
  ASSUME Shape, CompletePort, "POLLOUT" \in revents[cur]
  PROVE  /\ completionRing' = [completionRing EXCEPT ![cur] = <<>>]
         /\ freeTXDescs' = [freeTXDescs EXCEPT
                              ![cur] = freeTXDescs[cur] \cup Range(completionRing[cur])]
         /\ numTransmitted' = [numTransmitted EXCEPT
                                 ![cur] = numTransmitted[cur] - Len(completionRing[cur])]
<1>1. completionRing[cur] \in Seq(TxFrames)
  BY DEF Shape, TxShape, LoopShape
<1>2. /\ First(completionRing[cur], NumCompleted(cur)) = completionRing[cur]
      /\ SubSeq(completionRing[cur], NumCompleted(cur) + 1, Len(completionRing[cur])) = <<>>
  BY <1>1, TakeAll DEF NumCompleted
<1> QED
  BY <1>2, Zenon DEF CompletePort, PopCompleted, NumCompleted

-----------------------------------------------------------------------------
(* Every step keeps the shape of the state *)

\* The types at the start.
LEMMA ShapeInit == Init => Shape
<1> SUFFICES ASSUME Init PROVE Shape
  OBVIOUS
<1>1. RxShape /\ TxShape
  BY EmptyType DEF Init, SocketInit, RxShape, TxShape
<1>2. DataShape /\ LoopShape
  BY EmptyType, Halves DEF Init, SocketInit, DataShape, LoopShape, Ports
<1>3. RxSizes /\ TxSizes
  BY EmptyType, FS_EmptySet, Halves DEF Init, SocketInit, RxSizes, TxSizes
<1> QED
  BY <1>1, <1>2, <1>3 DEF Shape

\* The frames being sent are finitely many.
LEMMA SendingFinite ==
  ASSUME Shape, NEW p \in Ports
  PROVE  IsFiniteSet(sending[p]) /\ Cardinality(sending[p]) \in Nat
<1>1. sending[p] \in SUBSET AllFrames
  BY Halves, Zenon DEF Shape, TxShape
<1> QED
  BY <1>1, Halves, FS_Subset, FS_CardinalityType, Zenon

\* The length of every ring is a number.
LEMMA Lengths ==
  ASSUME Shape, NEW p \in Ports
  PROVE  /\ Len(fillRing[p]) \in Nat /\ Len(rxRing[p]) \in Nat /\ Len(nic[p]) \in Nat
         /\ Len(txRing[p]) \in Nat /\ Len(completionRing[p]) \in Nat
BY LenProperties DEF Shape, RxShape, TxShape

\* The loop's steps.
LEMMA ShapeLoop == Shape /\ (LoopNext \/ PollInterrupted) => Shape'
<1> SUFFICES ASSUME Shape, LoopNext \/ PollInterrupted PROVE Shape'
  OBVIOUS
<1>c. cur \in Ports /\ Other(cur) \in Ports
  BY Halves DEF Shape, LoopShape
<1>l. \A p \in Ports : /\ Len(fillRing[p]) \in Nat /\ Len(rxRing[p]) \in Nat
                       /\ Len(txRing[p]) \in Nat /\ Len(completionRing[p]) \in Nat
                       /\ Cardinality(sending[p]) \in Nat
  BY Lengths, SendingFinite
<1>1. CASE FillPort
  <2>1. PICK d \in Seq(RxFrames) :
          /\ Len(d) <= FillRingNumDescs - Len(fillRing[cur])
          /\ fillRing' = [fillRing EXCEPT ![cur] = fillRing[cur] \o d]
          /\ freeRXDescs' = [freeRXDescs EXCEPT ![cur] = freeRXDescs[cur] \ Range(d)]
          /\ numFilled' = [numFilled EXCEPT ![cur] = numFilled[cur] + Len(d)]
    BY <1>1, FillEffect, Zenon
  <2>2. /\ fillRing[cur] \o d \in Seq(RxFrames)
        /\ Len(fillRing[cur] \o d) = Len(fillRing[cur]) + Len(d) /\ Len(d) \in Nat
    BY <1>c, ConcatType, LenProperties DEF Shape, RxShape
  <2>3. RxShape'
    BY <1>1, <1>c, <2>1, <2>2 DEF FillPort, Shape, RxShape, kernelVars
  <2>4. RxSizes'
    BY <1>1, <1>c, <1>l, <2>1, <2>2, Halves DEF FillPort, Shape, RxShape, RxSizes
  <2>5. TxShape' /\ TxSizes' /\ DataShape'
    BY <1>1, Zenon DEF FillPort, Shape, TxShape, TxSizes, DataShape, kernelVars
  <2>6. LoopShape'
    BY <1>1, <1>c, Zenon DEF FillPort, Shape, LoopShape
  <2> QED
    BY <2>3, <2>4, <2>5, <2>6, Zenon DEF Shape
<1>2. CASE Poll
  <2>1. \A p \in Ports : Ready(p) \in SUBSET {"POLLIN", "POLLOUT"}
    BY DEF Ready
  <2>2. /\ UNCHANGED <<socketVars, cur, inDescs>> /\ pc' = "receive"
        /\ revents' = [p \in Ports |-> Ready(p)]
    BY <1>2 DEF Poll
  <2>3. LoopShape'
    BY <2>1, <2>2, Zenon DEF Shape, LoopShape
  <2>4. RxShape' /\ RxSizes' /\ TxShape' /\ TxSizes' /\ DataShape'
    BY <2>2, Zenon DEF Shape, RxShape, RxSizes, TxShape, TxSizes, DataShape, socketVars, rings,
                kernelVars
  <2> QED
    BY <2>3, <2>4, Zenon DEF Shape
<1>3. CASE PollInterrupted
  <2>1. LoopShape'
    BY <1>3, Zenon DEF PollInterrupted, Shape, LoopShape
  <2>2. RxShape' /\ RxSizes' /\ TxShape' /\ TxSizes' /\ DataShape'
    BY <1>3, Zenon DEF PollInterrupted, Shape, RxShape, RxSizes, TxShape, TxSizes, DataShape,
                socketVars, rings, kernelVars
  <2> QED
    BY <2>1, <2>2 DEF Shape
<1>4. CASE ReceivePort
  <2>1. TxShape' /\ TxSizes' /\ DataShape'
    BY <1>4, Zenon DEF ReceivePort, Shape, TxShape, TxSizes, DataShape, kernelVars
  <2>2. CASE "POLLIN" \in revents[cur]
    <3>1. /\ inDescs' = rxRing[cur] /\ pc' = "forward" /\ UNCHANGED <<fillRing, nic, cur, revents>>
          /\ rxRing' = [rxRing EXCEPT ![cur] = <<>>]
          /\ freeRXDescs' = [freeRXDescs EXCEPT ![cur] = freeRXDescs[cur] \cup Range(rxRing[cur])]
          /\ numFilled' = [numFilled EXCEPT ![cur] = numFilled[cur] - Len(rxRing[cur])]
      BY <1>4, <2>2, ReceiveEffect, Zenon DEF ReceivePort, kernelVars
    <3>2. Range(rxRing[cur]) \subseteq AllFrames
      BY <1>c, RangeOfSeq, Halves, Zenon DEF Shape, RxShape
    <3>3. RxShape'
      BY <3>1, <3>2, <1>c, <1>l, EmptyType DEF Shape, RxShape
    <3>4. RxSizes'
      BY <3>1, <1>c, EmptyType, Halves DEF Shape, RxShape, RxSizes
    <3>5. LoopShape'
      BY <3>1, <1>c, Zenon DEF Shape, RxShape, LoopShape
    <3> QED
      BY <2>1, <3>3, <3>4, <3>5, Zenon DEF Shape
  <2>3. CASE "POLLIN" \notin revents[cur]
    <3>1. RxShape' /\ RxSizes'
      BY <1>4, <2>3, Zenon DEF ReceivePort, Shape, RxShape, RxSizes, kernelVars
    <3>2. LoopShape'
      BY <1>4, <2>3, Zenon DEF ReceivePort, Shape, LoopShape
    <3> QED
      BY <2>1, <3>1, <3>2, Zenon DEF Shape
  <2> QED
    BY <2>2, <2>3, Zenon
<1>5. CASE ForwardPort
  <2> DEFINE o == Other(cur)
  <2>1. PICK d \in Seq(TxFrames) :
          /\ Len(d) <= TxRingNumDescs - Len(txRing[o])
          /\ txRing' = [txRing EXCEPT ![o] = txRing[o] \o d]
          /\ freeTXDescs' = [freeTXDescs EXCEPT ![o] = freeTXDescs[o] \ Range(d)]
          /\ numTransmitted' = [numTransmitted EXCEPT ![o] = numTransmitted[o] + Len(d)]
          /\ umem' \in [Ports -> [AllFrames -> Nat]]
    BY <1>5, ForwardEffect, Zenon
  <2>2. o \in Ports
    BY <1>c
  <2> HIDE DEF o
  <2>3. /\ txRing[o] \o d \in Seq(TxFrames)
        /\ Len(txRing[o] \o d) = Len(txRing[o]) + Len(d) /\ Len(d) \in Nat
    BY <2>2, ConcatType, LenProperties DEF Shape, TxShape
  <2>4. /\ inDescs' = <<>> /\ pc' = "complete"
        /\ UNCHANGED <<fillRing, rxRing, completionRing, freeRXDescs, numFilled, kernelVars,
                       cur, revents>>
    BY <1>5 DEF ForwardPort
  <2>5. TxShape'
    BY <2>1, <2>2, <2>3, <2>4 DEF Shape, TxShape, kernelVars
  <2>6. TxSizes'
    BY <1>l, <2>1, <2>2, <2>3, <2>4, Halves DEF Shape, TxShape, TxSizes, kernelVars
  <2>7. RxShape' /\ RxSizes' /\ DataShape'
    BY <2>1, <2>4, Zenon DEF Shape, RxShape, RxSizes, DataShape, kernelVars
  <2>8. LoopShape'
    BY <2>4, EmptyType, Zenon DEF Shape, LoopShape
  <2> QED
    BY <2>5, <2>6, <2>7, <2>8, Zenon DEF Shape
<1>6. CASE CompletePort
  <2>1. RxShape' /\ RxSizes' /\ DataShape'
    BY <1>6, Zenon DEF CompletePort, Shape, RxShape, RxSizes, DataShape, kernelVars
  <2>2. LoopShape'
    BY <1>6, <1>c, Zenon DEF CompletePort, Shape, LoopShape
  <2>3. CASE "POLLOUT" \in revents[cur]
    <3>1. /\ completionRing' = [completionRing EXCEPT ![cur] = <<>>]
          /\ freeTXDescs' = [freeTXDescs EXCEPT
                               ![cur] = freeTXDescs[cur] \cup Range(completionRing[cur])]
          /\ numTransmitted' = [numTransmitted EXCEPT
                                  ![cur] = numTransmitted[cur] - Len(completionRing[cur])]
          /\ UNCHANGED <<txRing, sending>>
      BY <1>6, <2>3, CompleteEffect, Zenon DEF CompletePort, kernelVars
    <3>2. Range(completionRing[cur]) \subseteq AllFrames
      BY <1>c, RangeOfSeq, Halves, Zenon DEF Shape, TxShape
    <3>3. TxShape'
      BY <3>1, <3>2, <1>c, <1>l, EmptyType DEF Shape, TxShape
    <3>4. TxSizes'
      BY <3>1, <1>c, <1>l, EmptyType, Halves DEF Shape, TxShape, TxSizes
    <3> QED
      BY <2>1, <2>2, <3>3, <3>4, Zenon DEF Shape
  <2>4. CASE "POLLOUT" \notin revents[cur]
    <3>1. TxShape' /\ TxSizes'
      BY <1>6, <2>4, Zenon DEF CompletePort, Shape, TxShape, TxSizes, kernelVars
    <3> QED
      BY <2>1, <2>2, <3>1, Zenon DEF Shape
  <2> QED
    BY <2>3, <2>4, Zenon
<1> QED
  BY <1>1, <1>2, <1>3, <1>4, <1>5, <1>6, Zenon DEF LoopNext

\* The kernel's steps.
LEMMA ShapeKernel == Shape /\ KernelNext /\ UNCHANGED <<pc, cur, revents, inDescs>> => Shape'
<1> SUFFICES ASSUME Shape, KernelNext, UNCHANGED <<pc, cur, revents, inDescs>> PROVE Shape'
  OBVIOUS
<1>1. LoopShape'
  BY DEF Shape, LoopShape
<1>l. \A p \in Ports : /\ Len(fillRing[p]) \in Nat /\ Len(rxRing[p]) \in Nat
                       /\ Len(txRing[p]) \in Nat /\ Len(completionRing[p]) \in Nat
                       /\ IsFiniteSet(sending[p]) /\ Cardinality(sending[p]) \in Nat
  BY Lengths, SendingFinite, Zenon
<1>2. ASSUME NEW p \in Ports, KernelTakeFill(p) PROVE Shape'
  <2>1. /\ Tail(fillRing[p]) \in Seq(RxFrames) /\ Len(Tail(fillRing[p])) = Len(fillRing[p]) - 1
        /\ Head(fillRing[p]) \in RxFrames
    BY <1>2, TailType, Zenon DEF KernelTakeFill, Shape, RxShape
  <2>2. Append(nic[p], Head(fillRing[p])) \in Seq(RxFrames)
    BY <2>1, AppendType, Zenon DEF Shape, RxShape
  <2>3. RxShape'
    BY <1>2, <2>1, <2>2, Zenon DEF KernelTakeFill, Shape, RxShape
  <2>4. RxSizes'
    BY <1>2, <1>l, <2>1, Halves DEF KernelTakeFill, Shape, RxShape, RxSizes
  <2>5. TxShape' /\ TxSizes' /\ DataShape'
    BY <1>2, Zenon DEF KernelTakeFill, Shape, TxShape, TxSizes, DataShape
  <2> QED
    BY <1>1, <2>3, <2>4, <2>5, Zenon DEF Shape
<1>3. ASSUME NEW p \in Ports, KernelDeliver(p) PROVE Shape'
  <2> DEFINE f == Head(nic[p])
  <2>1. Tail(nic[p]) \in Seq(RxFrames) /\ f \in RxFrames
    BY <1>3, TailType, Zenon DEF KernelDeliver, Shape, RxShape
  <2>2. /\ Append(rxRing[p], f) \in Seq(RxFrames)
        /\ Len(Append(rxRing[p], f)) = Len(rxRing[p]) + 1
    BY <2>1, AppendType, Zenon DEF Shape, RxShape
  <2>3. /\ arrived' = [arrived EXCEPT ![p] = arrived[p] + 1] /\ arrived[p] < MaxPackets[p]
        /\ umem' = [umem EXCEPT ![p] = [umem[p] EXCEPT ![f] = arrived'[p]]]
        /\ rxRing' = [rxRing EXCEPT ![p] = Append(rxRing[p], f)]
        /\ nic' = [nic EXCEPT ![p] = Tail(nic[p])]
        /\ Len(rxRing[p]) < RxRingNumDescs
        /\ UNCHANGED <<fillRing, txRing, completionRing, freeRXDescs, freeTXDescs, numFilled,
                       numTransmitted, sending, sent>>
    BY <1>3, Zenon DEF KernelDeliver
  <2> HIDE DEF f
  <2>4. RxShape'
    BY <2>1, <2>2, <2>3, Zenon DEF Shape, RxShape
  <2>5. RxSizes'
    BY <1>l, <2>2, <2>3, Halves DEF Shape, RxShape, RxSizes
  <2>6. TxShape' /\ TxSizes'
    BY <2>3, Zenon DEF Shape, TxShape, TxSizes
  <2>7. DataShape'
    <3>1. arrived' \in [Ports -> Nat] /\ arrived'[p] \in Nat
      BY <2>3 DEF Shape, DataShape
    <3>2. ASSUME NEW q \in Ports PROVE arrived'[q] <= MaxPackets[q]
      <4>1. arrived[q] \in Nat /\ MaxPackets[q] \in Nat /\ arrived[q] <= MaxPackets[q]
        BY Halves, Zenon DEF Shape, DataShape
      <4>2. arrived'[q] = IF q = p THEN arrived[q] + 1 ELSE arrived[q]
        BY <2>3 DEF Shape, DataShape
      <4> QED
        BY <2>3, <4>1, <4>2
    <3>3. f \in AllFrames
      BY <2>1, Halves
    <3>4. umem' \in [Ports -> [AllFrames -> Nat]]
      BY <2>3, <3>1, <3>3, Zenon DEF Shape, DataShape
    <3> QED
      BY <2>3, <3>1, <3>2, <3>4, Zenon DEF Shape, DataShape
  <2> QED
    BY <1>1, <2>4, <2>5, <2>6, <2>7, Zenon DEF Shape
<1>4. ASSUME NEW p \in Ports, KernelSend(p) PROVE Shape'
  <2> DEFINE f == Head(txRing[p])
             S == sending[p] \cup {f}
  <2>1. /\ Tail(txRing[p]) \in Seq(TxFrames) /\ Len(Tail(txRing[p])) = Len(txRing[p]) - 1
        /\ f \in TxFrames
    BY <1>4, TailType, Zenon DEF KernelSend, Shape, TxShape
  <2>2. /\ txRing' = [txRing EXCEPT ![p] = Tail(txRing[p])]
        /\ sending' = [sending EXCEPT ![p] = S]
        /\ sent' = [sent EXCEPT ![p] = Append(sent[p], umem[p][f])]
        /\ Cardinality(sending[p]) + Len(completionRing[p]) < CompletionRingNumDescs
        /\ UNCHANGED <<fillRing, rxRing, completionRing, freeRXDescs, freeTXDescs, numFilled,
                       numTransmitted, umem, nic, arrived>>
    BY <1>4, Zenon DEF KernelSend
  <2> HIDE DEF f
  <2>3. Append(sent[p], umem[p][f]) \in Seq(Nat)
    <3>1. f \in AllFrames
      BY <2>1, Halves, Zenon
    <3>2. umem[p][f] \in Nat /\ sent[p] \in Seq(Nat)
      BY <3>1, Zenon DEF Shape, DataShape
    <3> QED
      BY <3>2, AppendType, Zenon
  <2>4. Cardinality(S) \in Nat /\ Cardinality(S) <= Cardinality(sending[p]) + 1
    <3>1. /\ IsFiniteSet(S)
          /\ Cardinality(S) = IF f \in sending[p] THEN Cardinality(sending[p])
                              ELSE Cardinality(sending[p]) + 1
      BY <1>l, FS_AddElement, Zenon
    <3> HIDE DEF S
    <3> QED
      BY <3>1, <1>l
  <2>5. TxShape'
    BY <2>1, <2>2 DEF Shape, TxShape
  <2> HIDE DEF S
  <2>6. TxSizes'
    BY <1>l, <2>1, <2>2, <2>4, Halves, SMTT(30) DEF Shape, TxShape, TxSizes
  <2>7. RxShape' /\ RxSizes'
    BY <2>2 DEF Shape, RxShape, RxSizes
  <2>8. DataShape'
    BY <2>2, <2>3 DEF Shape, DataShape
  <2> QED
    BY <1>1, <2>5, <2>6, <2>7, <2>8, Zenon DEF Shape
<1>5. ASSUME NEW p \in Ports, NEW f \in AllFrames, KernelComplete(p, f) PROVE Shape'
  <2>1. f \in TxFrames /\ f \in sending[p]
    BY <1>5 DEF KernelComplete, Shape, TxShape
  <2>2. /\ Append(completionRing[p], f) \in Seq(TxFrames)
        /\ Len(Append(completionRing[p], f)) = Len(completionRing[p]) + 1
    BY <2>1, AppendType, Zenon DEF Shape, TxShape
  <2>3. Cardinality(sending[p] \ {f}) = Cardinality(sending[p]) - 1
    BY <2>1, <1>l, FS_RemoveElement, Zenon
  <2>4. TxShape'
    BY <1>5, <2>2 DEF KernelComplete, Shape, TxShape
  <2>5. TxSizes'
    BY <1>5, <1>l, <2>2, <2>3, Halves, SMTT(30) DEF KernelComplete, Shape, TxShape, TxSizes
  <2>6. RxShape' /\ RxSizes' /\ DataShape'
    BY <1>5, Zenon DEF KernelComplete, Shape, RxShape, RxSizes, DataShape
  <2> QED
    BY <1>1, <2>4, <2>5, <2>6 DEF Shape
<1> QED
  BY <1>2, <1>3, <1>4, <1>5, Zenon DEF KernelNext

\* Every step keeps the types.
LEMMA ShapeStep == Shape /\ [Next]_vars => Shape'
<1>1. Shape /\ UNCHANGED vars => Shape'
  BY Zenon DEF vars, socketVars, rings, kernelVars, Shape, RxShape, TxShape, DataShape, LoopShape,
         RxSizes, TxSizes
<1> QED
  BY <1>1, ShapeLoop, ShapeKernel, Zenon DEF Next

\* The type invariant, for any number of frames and any ring sizes: no ring of
\* a socket ever holds more frames than it has slots, and frames of the
\* receiving half never enter the rings of the sending half.
THEOREM GoSwitchTypes == Spec => []TypeOK
<1>1. Shape => TypeOK
  <2> SUFFICES ASSUME Shape PROVE TypeOK
    BY Zenon
  <2>1. ASSUME NEW p \in Ports PROVE Len(completionRing[p]) <= CompletionRingNumDescs
    BY Lengths, SendingFinite, Halves DEF Shape, TxSizes
  <2>2. ASSUME NEW p \in Ports PROVE arrived[p] \in 0 .. MaxPackets[p]
    BY Halves DEF Shape, DataShape
  <2>3. SocketTypeOK
    BY <2>1, <2>2, Zenon DEF Shape, RxShape, TxShape, DataShape, RxSizes, TxSizes, SocketTypeOK
  <2> QED
    BY <2>3 DEF Shape, LoopShape, TypeOK
<1> QED
  BY <1>1, ShapeInit, ShapeStep, PTL DEF Spec

-----------------------------------------------------------------------------
(* Ownership of the receiving half *)

RxOwned(p) ==
  /\ IsInjective(fillRing[p]) /\ IsInjective(nic[p]) /\ IsInjective(rxRing[p])
  /\ Range(fillRing[p]) \cap Range(nic[p]) = {} /\ Range(fillRing[p]) \cap Range(rxRing[p]) = {}
  /\ Range(nic[p]) \cap Range(rxRing[p]) = {}
  /\ freeRXDescs[p] \cap RxFrames
       = RxFrames \ (Range(fillRing[p]) \cup Range(nic[p]) \cup Range(rxRing[p]))

\* The property, port by port.
LEMMA RxOwnershipIs == RxOwnership <=> \A p \in Ports : RxOwned(p)
BY DistinctThree, Zenon DEF RxOwnership, RxOwned

\* The frames in the rings of the receiving half belong to it.
LEMMA RxRanges ==
  ASSUME Shape, NEW p \in Ports
  PROVE  /\ Range(fillRing[p]) \subseteq RxFrames /\ Range(nic[p]) \subseteq RxFrames
         /\ Range(rxRing[p]) \subseteq RxFrames
BY RangeOfSeq, Zenon DEF Shape, RxShape

\* The receive frames at the start.
LEMMA RxInit == Init => \A p \in Ports : RxOwned(p)
<1> SUFFICES ASSUME Init, NEW p \in Ports PROVE RxOwned(p)
  BY Zenon
<1>1. /\ fillRing[p] = <<>> /\ nic[p] = <<>> /\ rxRing[p] = <<>> /\ freeRXDescs[p] = AllFrames
  BY Zenon DEF Init, SocketInit
<1> QED
  BY <1>1, EmptyType, Halves, Zenon DEF RxOwned

\* A step moves a frame, or the frames d, of one port.
LEMMA RxStep ==
  ASSUME Shape, [Next]_vars, NEW q \in Ports, RxOwned(q)
  PROVE  RxOwned(q)'
<1>u. ASSUME UNCHANGED <<fillRing[q], nic[q], rxRing[q], freeRXDescs[q]>> PROVE RxOwned(q)'
  BY <1>u, Zenon DEF RxOwned
<1>r. /\ fillRing[q] \in Seq(RxFrames) /\ nic[q] \in Seq(RxFrames) /\ rxRing[q] \in Seq(RxFrames)
      /\ Range(fillRing[q]) \subseteq RxFrames /\ Range(nic[q]) \subseteq RxFrames
      /\ Range(rxRing[q]) \subseteq RxFrames
  BY RxRanges, Zenon DEF Shape, RxShape
<1>1. CASE FillPort
  <2>1. PICK d \in Seq(RxFrames) :
          /\ IsInjective(d) /\ Range(d) \subseteq freeRXDescs[cur]
          /\ fillRing' = [fillRing EXCEPT ![cur] = fillRing[cur] \o d]
          /\ freeRXDescs' = [freeRXDescs EXCEPT ![cur] = freeRXDescs[cur] \ Range(d)]
    BY <1>1, FillEffect, Zenon
  <2>2. UNCHANGED <<rxRing, nic>>
    BY <1>1 DEF FillPort, kernelVars
  <2>3. CASE q = cur
    <3>1. /\ fillRing'[q] = fillRing[q] \o d /\ freeRXDescs'[q] = freeRXDescs[q] \ Range(d)
      BY <2>1, <2>3, Zenon DEF Shape, RxShape
    <3>2. Range(d) \subseteq RxFrames
      BY RangeOfSeq, Zenon
    <3>3. Range(d) \cap (Range(fillRing[q]) \cup Range(nic[q]) \cup Range(rxRing[q])) = {}
      BY <2>1, <2>3, <3>2, Zenon DEF RxOwned
    <3>4. Range(fillRing[q] \o d) = Range(fillRing[q]) \cup Range(d)
      BY <1>r, ConcatType
    <3>5. IsInjective(fillRing[q] \o d)
      BY <1>r, <2>1, <3>3, ConcatType, Zenon DEF RxOwned
    <3> QED
      BY <2>2, <3>1, <3>2, <3>3, <3>4, <3>5, Zenon DEF RxOwned
  <2>4. CASE q # cur
    BY <1>u, <2>1, <2>2, <2>4, Zenon DEF Shape, RxShape
  <2> QED
    BY <2>3, <2>4, Zenon
<1>2. CASE ReceivePort
  <2>1. UNCHANGED <<fillRing, nic>>
    BY <1>2, Zenon DEF ReceivePort, kernelVars
  <2>2. CASE "POLLIN" \in revents[cur] /\ q = cur
    <3>1. rxRing'[q] = <<>> /\ freeRXDescs'[q] = freeRXDescs[q] \cup Range(rxRing[q])
      BY <1>2, <2>2, ReceiveEffect, Zenon DEF Shape, RxShape
    <3> QED
      BY <1>r, <2>1, <3>1, EmptyType, Zenon DEF RxOwned
  <2>3. CASE "POLLIN" \in revents[cur] /\ q # cur
    BY <1>u, <1>2, <2>1, <2>3, ReceiveEffect, Zenon DEF Shape, RxShape
  <2>4. CASE "POLLIN" \notin revents[cur]
    BY <1>u, <1>2, <2>1, <2>4, Zenon DEF ReceivePort
  <2> QED
    BY <2>2, <2>3, <2>4, Zenon
<1>3. ASSUME NEW p \in Ports, KernelTakeFill(p) PROVE RxOwned(q)'
  <2>1. CASE p = q
    <3> DEFINE f == Head(fillRing[q])
    <3>1. /\ fillRing'[q] = Tail(fillRing[q]) /\ nic'[q] = Append(nic[q], f)
          /\ UNCHANGED <<rxRing, freeRXDescs>> /\ fillRing[q] # <<>>
      BY <1>3, <2>1, Zenon DEF KernelTakeFill, Shape, RxShape
    <3>2. /\ f \in RxFrames /\ Range(fillRing[q]) = Range(Tail(fillRing[q])) \cup {f}
          /\ IsInjective(Tail(fillRing[q])) /\ f \notin Range(Tail(fillRing[q]))
      BY <1>r, <3>1, TailType, Zenon DEF RxOwned
    <3> HIDE DEF f
    <3>3. f \notin Range(nic[q])
      BY <3>2, Zenon DEF RxOwned
    <3>4. Range(Append(nic[q], f)) = Range(nic[q]) \cup {f} /\ IsInjective(Append(nic[q], f))
      BY <1>r, <3>2, <3>3, AppendType, SMTT(30) DEF RxOwned
    <3> QED
      BY <3>1, <3>2, <3>4, Zenon DEF RxOwned
  <2>2. CASE p # q
    BY <1>u, <1>3, <2>2 DEF KernelTakeFill, Shape, RxShape
  <2> QED
    BY <2>1, <2>2, Zenon
<1>4. ASSUME NEW p \in Ports, KernelDeliver(p) PROVE RxOwned(q)'
  <2>1. CASE p = q
    <3> DEFINE f == Head(nic[q])
    <3>1. /\ nic'[q] = Tail(nic[q]) /\ rxRing'[q] = Append(rxRing[q], f)
          /\ UNCHANGED <<fillRing, freeRXDescs>> /\ nic[q] # <<>>
      BY <1>4, <2>1, Zenon DEF KernelDeliver, Shape, RxShape
    <3>2. /\ f \in RxFrames /\ Range(nic[q]) = Range(Tail(nic[q])) \cup {f}
          /\ IsInjective(Tail(nic[q])) /\ f \notin Range(Tail(nic[q]))
      BY <1>r, <3>1, TailType, Zenon DEF RxOwned
    <3> HIDE DEF f
    <3>3. f \notin Range(rxRing[q])
      BY <3>2, Zenon DEF RxOwned
    <3>4. Range(Append(rxRing[q], f)) = Range(rxRing[q]) \cup {f} /\ IsInjective(Append(rxRing[q], f))
      BY <1>r, <3>2, <3>3, AppendType DEF RxOwned
    <3> QED
      BY <3>1, <3>2, <3>4, Zenon DEF RxOwned
  <2>2. CASE p # q
    BY <1>u, <1>4, <2>2 DEF KernelDeliver, Shape, RxShape
  <2> QED
    BY <2>1, <2>2
<1>5. ASSUME NEW p \in Ports,
             KernelSend(p) \/ \E f \in AllFrames : KernelComplete(p, f)
      PROVE  RxOwned(q)'
  BY <1>u, <1>5, Zenon DEF KernelSend, KernelComplete
<1>6. CASE Poll \/ PollInterrupted \/ ForwardPort \/ CompletePort \/ UNCHANGED vars
  BY <1>u, <1>6, Zenon DEF Poll, PollInterrupted, ForwardPort, CompletePort, vars, socketVars, rings,
                    kernelVars
<1> QED
  BY <1>1, <1>2, <1>3, <1>4, <1>5, <1>6, Zenon DEF Next, LoopNext, KernelNext

-----------------------------------------------------------------------------
(* Ownership of the sending half *)

TxOwned(p) ==
  /\ IsInjective(txRing[p]) /\ IsInjective(completionRing[p])
  /\ Range(txRing[p]) \cap Range(completionRing[p]) = {}
  /\ sending[p] \cap (Range(txRing[p]) \cup Range(completionRing[p])) = {}
  /\ freeTXDescs[p] \cap TxFrames
       = TxFrames \ (Range(txRing[p]) \cup sending[p] \cup Range(completionRing[p]))

\* The property, port by port.
LEMMA TxOwnershipIs == TxOwnership <=> \A p \in Ports : TxOwned(p)
BY DistinctTwo, Zenon DEF TxOwnership, TxOwned

\* The transmit frames at the start.
LEMMA TxInit == Init => \A p \in Ports : TxOwned(p)
<1> SUFFICES ASSUME Init, NEW p \in Ports PROVE TxOwned(p)
  OBVIOUS
<1>1. /\ txRing[p] = <<>> /\ completionRing[p] = <<>> /\ sending[p] = {}
      /\ freeTXDescs[p] = AllFrames
  BY Zenon DEF Init, SocketInit
<1> QED
  BY <1>1, EmptyType, Halves, Zenon DEF TxOwned

\* Every step keeps the transmit frames in one place each.
LEMMA TxStep ==
  ASSUME Shape, [Next]_vars, NEW q \in Ports, TxOwned(q)
  PROVE  TxOwned(q)'
<1>u. ASSUME UNCHANGED <<txRing[q], sending[q], completionRing[q], freeTXDescs[q]>>
      PROVE  TxOwned(q)'
  BY <1>u, Zenon DEF TxOwned
<1>r. /\ txRing[q] \in Seq(TxFrames) /\ completionRing[q] \in Seq(TxFrames)
      /\ Range(txRing[q]) \subseteq TxFrames /\ Range(completionRing[q]) \subseteq TxFrames
      /\ sending[q] \subseteq TxFrames
  BY RangeOfSeq, Zenon DEF Shape, TxShape
<1>1. CASE ForwardPort
  <2> DEFINE o == Other(cur)
  <2>1. PICK d \in Seq(TxFrames) :
          /\ IsInjective(d) /\ Range(d) \subseteq freeTXDescs[o]
          /\ txRing' = [txRing EXCEPT ![o] = txRing[o] \o d]
          /\ freeTXDescs' = [freeTXDescs EXCEPT ![o] = freeTXDescs[o] \ Range(d)]
    BY <1>1, ForwardEffect, Zenon
  <2>2. UNCHANGED <<sending, completionRing>>
    BY <1>1, Zenon DEF ForwardPort, kernelVars
  <2> HIDE DEF o
  <2>3. CASE q = o
    <3>1. txRing'[q] = txRing[q] \o d /\ freeTXDescs'[q] = freeTXDescs[q] \ Range(d)
      BY <2>1, <2>3, Zenon DEF Shape, TxShape
    <3>2. Range(d) \subseteq TxFrames
      BY RangeOfSeq
    <3>3. Range(d) \cap (Range(txRing[q]) \cup sending[q] \cup Range(completionRing[q])) = {}
      BY <2>1, <2>3, <3>2, Zenon DEF TxOwned
    <3>4. Range(txRing[q] \o d) = Range(txRing[q]) \cup Range(d)
      BY <1>r, ConcatType
    <3>5. IsInjective(txRing[q] \o d)
      BY <1>r, <2>1, <3>3, ConcatType, Zenon DEF TxOwned
    <3> QED
      BY <2>2, <3>1, <3>2, <3>3, <3>4, <3>5, Zenon DEF TxOwned
  <2>4. CASE q # o
    BY <1>u, <2>1, <2>2, <2>4, Zenon DEF Shape, TxShape
  <2> QED
    BY <2>3, <2>4, Zenon
<1>2. CASE CompletePort
  <2>1. UNCHANGED <<txRing, sending>>
    BY <1>2, Zenon DEF CompletePort, kernelVars
  <2>2. CASE "POLLOUT" \in revents[cur] /\ q = cur
    <3>1. completionRing'[q] = <<>> /\ freeTXDescs'[q] = freeTXDescs[q] \cup Range(completionRing[q])
      BY <1>2, <2>2, CompleteEffect, Zenon DEF Shape, TxShape
    <3> QED
      BY <1>r, <2>1, <3>1, EmptyType, Zenon DEF TxOwned
  <2>3. CASE "POLLOUT" \in revents[cur] /\ q # cur
    BY <1>u, <1>2, <2>1, <2>3, CompleteEffect, Zenon DEF Shape, TxShape
  <2>4. CASE "POLLOUT" \notin revents[cur]
    BY <1>u, <1>2, <2>1, <2>4, Zenon DEF CompletePort
  <2> QED
    BY <2>2, <2>3, <2>4, Zenon
<1>3. ASSUME NEW p \in Ports, KernelSend(p) PROVE TxOwned(q)'
  <2>1. CASE p = q
    <3> DEFINE f == Head(txRing[q])
    <3>1. /\ txRing'[q] = Tail(txRing[q]) /\ sending'[q] = sending[q] \cup {f}
          /\ UNCHANGED <<completionRing, freeTXDescs>> /\ txRing[q] # <<>>
      BY <1>3, <2>1, Zenon DEF KernelSend, Shape, TxShape
    <3>2. /\ f \in TxFrames /\ Range(txRing[q]) = Range(Tail(txRing[q])) \cup {f}
          /\ IsInjective(Tail(txRing[q])) /\ f \notin Range(Tail(txRing[q]))
      BY <1>r, <3>1, TailType, Zenon DEF TxOwned
    <3> HIDE DEF f
    <3> QED
      BY <3>1, <3>2, Zenon DEF TxOwned
  <2>2. CASE p # q
    BY <1>u, <1>3, <2>2, Zenon DEF KernelSend, Shape, TxShape
  <2> QED
    BY <2>1, <2>2
<1>4. ASSUME NEW p \in Ports, NEW f \in AllFrames, KernelComplete(p, f) PROVE TxOwned(q)'
  <2>1. CASE p = q
    <3>1. /\ sending'[q] = sending[q] \ {f} /\ completionRing'[q] = Append(completionRing[q], f)
          /\ UNCHANGED <<txRing, freeTXDescs>> /\ f \in sending[q] /\ f \in TxFrames
      BY <1>4, <2>1 DEF KernelComplete, Shape, TxShape
    <3>2. f \notin Range(completionRing[q])
      BY <3>1, Zenon DEF TxOwned
    <3>3. /\ Range(Append(completionRing[q], f)) = Range(completionRing[q]) \cup {f}
          /\ IsInjective(Append(completionRing[q], f))
      BY <1>r, <3>1, <3>2, AppendType DEF TxOwned
    <3> QED
      BY <3>1, <3>3 DEF TxOwned
  <2>2. CASE p # q
    BY <1>u, <1>4, <2>2, Zenon DEF KernelComplete, Shape, TxShape
  <2> QED
    BY <2>1, <2>2, Zenon
<1>5. ASSUME NEW p \in Ports, KernelTakeFill(p) \/ KernelDeliver(p) PROVE TxOwned(q)'
  BY <1>u, <1>5, Zenon DEF KernelTakeFill, KernelDeliver
<1>6. CASE FillPort \/ Poll \/ PollInterrupted \/ ReceivePort \/ UNCHANGED vars
  BY <1>u, <1>6, Zenon DEF FillPort, Poll, PollInterrupted, ReceivePort, vars, socketVars, rings,
                    kernelVars
<1> QED
  BY <1>1, <1>2, <1>3, <1>4, <1>5, <1>6, Zenon DEF Next, LoopNext, KernelNext

\* For any number of frames and any ring sizes, Fill hands no frame to the
\* kernel that the kernel or the rx ring still has, and forwardFrames writes
\* into no frame that is still to be sent.
THEOREM GoSwitchOwnership == Spec => []FramesOwned
<1> DEFINE Owned == \A p \in Ports : RxOwned(p) /\ TxOwned(p)
<1>1. Init => Owned
  BY RxInit, TxInit, Zenon
<1>2. Shape /\ Owned /\ [Next]_vars => Owned'
  BY RxStep, TxStep, Zenon
<1>3. Owned => FramesOwned
  BY RxOwnershipIs, TxOwnershipIs, Zenon DEF FramesOwned
<1> HIDE DEF Owned
<1> QED
  BY <1>1, <1>2, <1>3, ShapeInit, ShapeStep, PTL DEF Spec

-----------------------------------------------------------------------------
(* The counters *)

Counted(p) ==
  /\ numFilled[p] = Len(fillRing[p]) + Len(nic[p]) + Len(rxRing[p])
  /\ numTransmitted[p] = Len(txRing[p]) + Cardinality(sending[p]) + Len(completionRing[p])

\* The counters at the start.
LEMMA CountersInit == Init => \A p \in Ports : Counted(p)
BY EmptyType, FS_EmptySet DEF Init, SocketInit, Counted

\* One more in a place is one less in another.
LEMMA ShiftFirst ==
  ASSUME NEW a \in Nat, NEW b \in Nat, NEW c \in Nat PROVE a + b + c = (a - 1) + (b + 1) + c
OBVIOUS

\* A frame that moves from the second summand to the third.
LEMMA ShiftSecond ==
  ASSUME NEW a \in Nat, NEW b \in Nat, NEW c \in Nat PROVE a + b + c = a + (b - 1) + (c + 1)
OBVIOUS

\* A frame the kernel moves from one ring to another is counted in both; that
\* the frame it takes to send is not already being sent is TxOwned.
LEMMA CountersStep ==
  ASSUME Shape, [Next]_vars, NEW q \in Ports, TxOwned(q), Counted(q)
  PROVE  Counted(q)'
<1>u. ASSUME UNCHANGED <<fillRing[q], nic[q], rxRing[q], numFilled[q], txRing[q], sending[q],
                         completionRing[q], numTransmitted[q]>>
      PROVE  Counted(q)'
  BY <1>u, Zenon DEF Counted
<1>l. /\ Len(fillRing[q]) \in Nat /\ Len(rxRing[q]) \in Nat /\ Len(nic[q]) \in Nat
      /\ Len(txRing[q]) \in Nat /\ Len(completionRing[q]) \in Nat
      /\ IsFiniteSet(sending[q]) /\ Cardinality(sending[q]) \in Nat
  BY Lengths, SendingFinite, Zenon
<1>m. Len(fillRing[q]) \in Nat /\ Len(nic[q]) \in Nat /\ Len(rxRing[q]) \in Nat
  BY <1>l, Zenon
<1>n. /\ Len(txRing[q]) \in Nat /\ Cardinality(sending[q]) \in Nat
      /\ Len(completionRing[q]) \in Nat
  BY <1>l, Zenon
<1>s. /\ fillRing[q] \in Seq(RxFrames) /\ nic[q] \in Seq(RxFrames) /\ rxRing[q] \in Seq(RxFrames)
      /\ txRing[q] \in Seq(TxFrames) /\ completionRing[q] \in Seq(TxFrames)
      /\ numFilled[q] \in Int /\ numTransmitted[q] \in Int
  BY DEF Shape, RxShape, TxShape
<1>1. CASE FillPort
  <2>1. PICK d \in Seq(RxFrames) :
          /\ fillRing' = [fillRing EXCEPT ![cur] = fillRing[cur] \o d]
          /\ numFilled' = [numFilled EXCEPT ![cur] = numFilled[cur] + Len(d)]
    BY <1>1, FillEffect, Zenon
  <2>2. UNCHANGED <<rxRing, nic, txRing, sending, completionRing, numTransmitted>>
    BY <1>1 DEF FillPort, kernelVars
  <2>3. CASE q = cur
    <3>1. /\ fillRing'[q] = fillRing[q] \o d /\ numFilled'[q] = numFilled[q] + Len(d)
      BY <2>1, <2>3, Zenon DEF Shape, RxShape
    <3>2. Len(fillRing[q] \o d) = Len(fillRing[q]) + Len(d)
      BY <1>s, ConcatType, Zenon
    <3>3. Len(fillRing'[q]) = Len(fillRing[q]) + Len(d)
      BY <3>1, <3>2, Zenon
    <3>4. Len(d) \in Nat
      BY LenProperties, Zenon
    <3>5. numFilled'[q] = Len(fillRing[q]) + Len(nic[q]) + Len(rxRing[q]) + Len(d)
      BY <3>1, Zenon DEF Counted
    <3>6. PICK a \in Nat, b \in Nat, c \in Nat, l \in Nat :
            a = Len(fillRing[q]) /\ b = Len(nic[q]) /\ c = Len(rxRing[q]) /\ l = Len(d)
      BY <1>m, <3>4, Zenon
    <3>7. numFilled'[q] = (a + l) + b + c
      <4>1. numFilled'[q] = a + b + c + l
        BY <3>5, <3>6, Zenon
      <4>2. a + b + c + l = (a + l) + b + c
        OBVIOUS
      <4> QED
        BY <4>1, <4>2, Zenon
    <3>8. numFilled'[q] = Len(fillRing'[q]) + Len(nic'[q]) + Len(rxRing'[q])
      BY <2>2, <3>3, <3>6, <3>7, Zenon
    <3>9. numTransmitted'[q]
            = Len(txRing'[q]) + Cardinality(sending'[q]) + Len(completionRing'[q])
      BY <1>l, <2>2, Zenon DEF Counted
    <3> QED
      BY <3>8, <3>9, Zenon DEF Counted
  <2>4. CASE q # cur
    BY <1>u, <2>1, <2>2, <2>4, Zenon DEF Shape, RxShape
  <2> QED
    BY <2>3, <2>4, Zenon
<1>2. CASE ReceivePort
  <2>1. UNCHANGED <<fillRing, nic, txRing, sending, completionRing, numTransmitted>>
    BY <1>2, Zenon DEF ReceivePort, kernelVars
  <2>2. CASE "POLLIN" \in revents[cur] /\ q = cur
    <3>1. rxRing'[q] = <<>> /\ numFilled'[q] = numFilled[q] - Len(rxRing[q])
      BY <1>2, <2>2, ReceiveEffect, Zenon DEF Shape, RxShape
    <3>8. numFilled'[q] = Len(fillRing'[q]) + Len(nic'[q]) + Len(rxRing'[q])
      BY <1>l, <2>1, <3>1, EmptyType DEF Counted
    <3>9. numTransmitted'[q]
            = Len(txRing'[q]) + Cardinality(sending'[q]) + Len(completionRing'[q])
      BY <1>l, <2>1, <3>1, EmptyType, Zenon DEF Counted
    <3> QED
      BY <3>8, <3>9, Zenon DEF Counted
  <2>3. CASE "POLLIN" \in revents[cur] /\ q # cur
    BY <1>u, <1>2, <2>1, <2>3, ReceiveEffect, Zenon DEF Shape, RxShape
  <2>4. CASE "POLLIN" \notin revents[cur]
    BY <1>u, <1>2, <2>1, <2>4, Zenon DEF ReceivePort
  <2> QED
    BY <2>2, <2>3, <2>4, Zenon
<1>3. CASE ForwardPort
  <2> DEFINE o == Other(cur)
  <2>1. PICK d \in Seq(TxFrames) :
          /\ txRing' = [txRing EXCEPT ![o] = txRing[o] \o d]
          /\ numTransmitted' = [numTransmitted EXCEPT ![o] = numTransmitted[o] + Len(d)]
    BY <1>3, ForwardEffect, Zenon
  <2>2. UNCHANGED <<fillRing, rxRing, nic, numFilled, sending, completionRing>>
    BY <1>3, Zenon DEF ForwardPort, kernelVars
  <2> HIDE DEF o
  <2>3. CASE q = o
    <3>1. txRing'[q] = txRing[q] \o d /\ numTransmitted'[q] = numTransmitted[q] + Len(d)
      BY <2>1, <2>3, Zenon DEF Shape, TxShape
    <3>2. Len(txRing[q] \o d) = Len(txRing[q]) + Len(d) /\ Len(d) \in Nat
      BY <1>s, ConcatType, LenProperties, Zenon
    <3>3. Len(txRing'[q]) = Len(txRing[q]) + Len(d)
      BY <3>1, <3>2, Zenon
    <3>4. numTransmitted'[q] = numTransmitted[q] + Len(d)
      BY <3>1, Zenon
    <3>8. numFilled'[q] = Len(fillRing'[q]) + Len(nic'[q]) + Len(rxRing'[q])
      BY <1>l, <2>2, <3>2, <3>3, <3>4, Zenon DEF Counted
    <3>9. numTransmitted'[q]
            = Len(txRing'[q]) + Cardinality(sending'[q]) + Len(completionRing'[q])
      BY <1>l, <2>2, <3>2, <3>3, <3>4 DEF Counted
    <3> QED
      BY <3>8, <3>9, Zenon DEF Counted
  <2>4. CASE q # o
    BY <1>u, <2>1, <2>2, <2>4, Zenon DEF Shape, TxShape
  <2> QED
    BY <2>3, <2>4, Zenon
<1>4. CASE CompletePort
  <2>1. UNCHANGED <<fillRing, rxRing, nic, numFilled, txRing, sending>>
    BY <1>4, Zenon DEF CompletePort, kernelVars
  <2>2. CASE "POLLOUT" \in revents[cur] /\ q = cur
    <3>1. /\ completionRing'[q] = <<>>
          /\ numTransmitted'[q] = numTransmitted[q] - Len(completionRing[q])
      BY <1>4, <2>2, CompleteEffect, Zenon DEF Shape, TxShape
    <3>8. numFilled'[q] = Len(fillRing'[q]) + Len(nic'[q]) + Len(rxRing'[q])
      BY <1>l, <2>1, <3>1, EmptyType, Zenon DEF Counted
    <3>9. numTransmitted'[q]
            = Len(txRing'[q]) + Cardinality(sending'[q]) + Len(completionRing'[q])
      BY <1>l, <2>1, <3>1, EmptyType DEF Counted
    <3> QED
      BY <3>8, <3>9 DEF Counted
  <2>3. CASE "POLLOUT" \in revents[cur] /\ q # cur
    BY <1>u, <1>4, <2>1, <2>3, CompleteEffect, Zenon DEF Shape, TxShape
  <2>4. CASE "POLLOUT" \notin revents[cur]
    BY <1>u, <1>4, <2>1, <2>4, Zenon DEF CompletePort
  <2> QED
    BY <2>2, <2>3, <2>4, Zenon
<1>5. ASSUME NEW p \in Ports, KernelTakeFill(p) PROVE Counted(q)'
  <2>1. CASE p = q
    <3> DEFINE f == Head(fillRing[q])
    <3>1. /\ fillRing'[q] = Tail(fillRing[q]) /\ nic'[q] = Append(nic[q], f)
          /\ UNCHANGED <<rxRing, numFilled, txRing, sending, completionRing, numTransmitted>>
          /\ fillRing[q] # <<>>
      BY <1>5, <2>1, Zenon DEF KernelTakeFill, Shape, RxShape
    <3>2. f \in RxFrames /\ Len(Tail(fillRing[q])) = Len(fillRing[q]) - 1
      BY <1>s, <3>1, TailType, Zenon
    <3>3. Len(Append(nic[q], f)) = Len(nic[q]) + 1
      BY <1>s, <3>2, AppendType, Zenon
    <3>4. /\ Len(fillRing'[q]) = Len(fillRing[q]) - 1 /\ Len(nic'[q]) = Len(nic[q]) + 1
          /\ UNCHANGED <<rxRing, numFilled, txRing, sending, completionRing, numTransmitted>>
      BY <3>1, <3>2, <3>3, Zenon
    <3>5. numFilled'[q] = Len(fillRing[q]) + Len(nic[q]) + Len(rxRing[q])
      BY <3>4, Zenon DEF Counted
    <3>6. Len(fillRing[q]) + Len(nic[q]) + Len(rxRing[q])
            = (Len(fillRing[q]) - 1) + (Len(nic[q]) + 1) + Len(rxRing[q])
      BY <1>m, ShiftFirst, Zenon
    <3>8. numFilled'[q] = Len(fillRing'[q]) + Len(nic'[q]) + Len(rxRing'[q])
      BY <3>4, <3>5, <3>6, Zenon
    <3>9. numTransmitted'[q]
            = Len(txRing'[q]) + Cardinality(sending'[q]) + Len(completionRing'[q])
      BY <1>l, <3>4 DEF Counted
    <3> QED
      BY <3>8, <3>9, Zenon DEF Counted
  <2>2. CASE p # q
    BY <1>u, <1>5, <2>2, Zenon DEF KernelTakeFill, Shape, RxShape
  <2> QED
    BY <2>1, <2>2, Zenon
<1>6. ASSUME NEW p \in Ports, KernelDeliver(p) PROVE Counted(q)'
  <2>1. CASE p = q
    <3> DEFINE f == Head(nic[q])
    <3>1. /\ nic'[q] = Tail(nic[q]) /\ rxRing'[q] = Append(rxRing[q], f)
          /\ UNCHANGED <<fillRing, numFilled, txRing, sending, completionRing, numTransmitted>>
          /\ nic[q] # <<>>
      BY <1>6, <2>1, Zenon DEF KernelDeliver, Shape, RxShape
    <3>2. f \in RxFrames /\ Len(Tail(nic[q])) = Len(nic[q]) - 1
      BY <1>s, <3>1, TailType, Zenon
    <3>3. Len(Append(rxRing[q], f)) = Len(rxRing[q]) + 1
      BY <1>s, <3>2, AppendType, Zenon
    <3>4. /\ Len(nic'[q]) = Len(nic[q]) - 1 /\ Len(rxRing'[q]) = Len(rxRing[q]) + 1
          /\ UNCHANGED <<fillRing, numFilled, txRing, sending, completionRing, numTransmitted>>
      BY <3>1, <3>2, <3>3
    <3>5. numFilled'[q] = Len(fillRing[q]) + Len(nic[q]) + Len(rxRing[q])
      BY <3>4, Zenon DEF Counted
    <3>6. Len(fillRing[q]) + Len(nic[q]) + Len(rxRing[q])
            = Len(fillRing[q]) + (Len(nic[q]) - 1) + (Len(rxRing[q]) + 1)
      BY <1>m, ShiftSecond, Zenon
    <3>8. numFilled'[q] = Len(fillRing'[q]) + Len(nic'[q]) + Len(rxRing'[q])
      BY <3>4, <3>5, <3>6, Zenon
    <3>9. numTransmitted'[q]
            = Len(txRing'[q]) + Cardinality(sending'[q]) + Len(completionRing'[q])
      BY <1>l, <3>4, SMTT(30) DEF Counted
    <3> QED
      BY <3>8, <3>9 DEF Counted
  <2>2. CASE p # q
    BY <1>u, <1>6, <2>2, SMTT(30) DEF KernelDeliver, Shape, RxShape
  <2> QED
    BY <2>1, <2>2, SMTT(30)
<1>7. ASSUME NEW p \in Ports, KernelSend(p) PROVE Counted(q)'
  <2>1. CASE p = q
    <3> DEFINE f == Head(txRing[q])
    <3>1. /\ txRing'[q] = Tail(txRing[q]) /\ sending'[q] = sending[q] \cup {f}
          /\ UNCHANGED <<fillRing, nic, rxRing, numFilled, completionRing, numTransmitted>>
          /\ txRing[q] # <<>>
      BY <1>7, <2>1, Zenon DEF KernelSend, Shape, TxShape
    <3>2. Len(Tail(txRing[q])) = Len(txRing[q]) - 1 /\ f \in Range(txRing[q])
      <4>1. /\ Len(Tail(txRing[q])) = Len(txRing[q]) - 1
            /\ Range(txRing[q]) = Range(Tail(txRing[q])) \cup {Head(txRing[q])}
        BY <1>s, <3>1, TailType, Zenon
      <4> QED
        BY <4>1
    <3>3. f \notin sending[q]
      BY <3>2, Zenon DEF TxOwned
    <3>4. Cardinality(sending[q] \cup {f}) = Cardinality(sending[q]) + 1
      BY <1>l, <3>3, FS_AddElement, Zenon
    <3>5. /\ Len(txRing'[q]) = Len(txRing[q]) - 1
          /\ Cardinality(sending'[q]) = Cardinality(sending[q]) + 1
          /\ UNCHANGED <<fillRing, nic, rxRing, numFilled, completionRing, numTransmitted>>
      BY <3>1, <3>2, <3>4
    <3>8. numFilled'[q] = Len(fillRing'[q]) + Len(nic'[q]) + Len(rxRing'[q])
      BY <1>l, <3>5, Zenon DEF Counted
    <3>9. numTransmitted'[q]
            = Len(txRing'[q]) + Cardinality(sending'[q]) + Len(completionRing'[q])
      BY <1>l, <3>5 DEF Counted
    <3> QED
      BY <3>8, <3>9 DEF Counted
  <2>2. CASE p # q
    BY <1>u, <1>7, <2>2, Zenon DEF KernelSend, Shape, TxShape
  <2> QED
    BY <2>1, <2>2
<1>8. ASSUME NEW p \in Ports, NEW f \in AllFrames, KernelComplete(p, f) PROVE Counted(q)'
  <2>1. CASE p = q
    <3>1. /\ sending'[q] = sending[q] \ {f} /\ completionRing'[q] = Append(completionRing[q], f)
          /\ UNCHANGED <<fillRing, nic, rxRing, numFilled, txRing, numTransmitted>>
          /\ f \in sending[q] /\ f \in TxFrames
      BY <1>8, <2>1, Zenon DEF KernelComplete, Shape, TxShape
    <3>2. Len(Append(completionRing[q], f)) = Len(completionRing[q]) + 1
      BY <1>s, <3>1, AppendType, Zenon
    <3>3. Cardinality(sending[q] \ {f}) = Cardinality(sending[q]) - 1
      BY <1>l, <3>1, FS_RemoveElement, Zenon
    <3>4. /\ Len(completionRing'[q]) = Len(completionRing[q]) + 1
          /\ Cardinality(sending'[q]) = Cardinality(sending[q]) - 1
          /\ UNCHANGED <<fillRing, nic, rxRing, numFilled, txRing, numTransmitted>>
      BY <3>1, <3>2, <3>3, Zenon
    <3>8. numFilled'[q] = Len(fillRing'[q]) + Len(nic'[q]) + Len(rxRing'[q])
      BY <1>l, <3>4, Zenon DEF Counted
    <3>5. numTransmitted'[q]
            = Len(txRing[q]) + Cardinality(sending[q]) + Len(completionRing[q])
      BY <3>4, Zenon DEF Counted
    <3>6. Len(txRing[q]) + Cardinality(sending[q]) + Len(completionRing[q])
            = Len(txRing[q]) + (Cardinality(sending[q]) - 1) + (Len(completionRing[q]) + 1)
      BY <1>n, ShiftSecond, Zenon
    <3>9. numTransmitted'[q]
            = Len(txRing'[q]) + Cardinality(sending'[q]) + Len(completionRing'[q])
      BY <3>4, <3>5, <3>6, Zenon
    <3> QED
      BY <3>8, <3>9, Zenon DEF Counted
  <2>2. CASE p # q
    BY <1>u, <1>8, <2>2, Zenon DEF KernelComplete, Shape, TxShape
  <2> QED
    BY <2>1, <2>2, Zenon
<1>9. CASE Poll \/ PollInterrupted \/ UNCHANGED vars
  BY <1>u, <1>9, Zenon DEF Poll, PollInterrupted, vars, socketVars, rings, kernelVars
<1> QED
  BY <1>1, <1>2, <1>3, <1>4, <1>5, <1>6, <1>7, <1>8, <1>9, Zenon DEF Next, LoopNext, KernelNext

\* For any number of frames and any ring sizes, numFilled and numTransmitted
\* are the numbers of frames handed to the kernel that Receive and Complete
\* have not collected, consumed by the kernel or not, which is more than the
\* comments on NumFilled and NumTransmitted say: poll() is asked for POLLOUT as
\* long as a completion is outstanding.
THEOREM GoSwitchCounters == Spec => []CountersExact
<1> DEFINE Exact == \A p \in Ports : TxOwned(p) /\ Counted(p)
<1>1. Init => Exact
  BY TxInit, CountersInit
<1>2. Shape /\ Exact /\ [Next]_vars => Exact'
  BY TxStep, CountersStep, Zenon
<1>3. Exact => CountersExact
  BY Zenon DEF Counted, CountersExact
<1> HIDE DEF Exact
<1> QED
  BY <1>1, <1>2, <1>3, ShapeInit, ShapeStep, PTL DEF Spec

=============================================================================
