--------------------------- MODULE XskSwitchProofs ---------------------------
(***************************************************************************)
(* Proofs about XskSwitch for every UMEM, every ring size and every batch  *)
(* size.  Shape is the part of the inductive invariant about lengths and   *)
(* counters; on it rest the ownership of the frames, the exactness of      *)
(* outstanding_tx, the allocator's assertion, and what it takes for the    *)
(* switch to run out of frames to receive into.                            *)
(***************************************************************************)
EXTENDS XskUser, SequenceTheorems, FiniteSetTheorems, TLAPS

Shape ==
  TypeOK /\ NoOverrun /\ PeekedPresent /\ NeverRetry /\ Control /\ KernelBounds

-----------------------------------------------------------------------------
(* Sequences *)

\* Lengths and types of the sequences the actions build.
LEMMA AllocType ==
  ASSUME umem_frame_addr \in Seq(Frames), NEW n \in Nat
  PROVE  /\ AllocFrames(n) \in Seq(Frames \cup {INVALID_UMEM_FRAME})
         /\ Len(AllocFrames(n)) = n
         /\ StackAfterAlloc(n) \in Seq(Frames)
<1> DEFINE S == umem_frame_addr
           A == Frames \cup {INVALID_UMEM_FRAME}
<1>1. S \in Seq(Frames) /\ Len(S) \in Nat
  OBVIOUS
<1>2. \A i \in 1 .. Len(S) : S[i] \in Frames
  BY <1>1, ElementOfSeq, Zenon
<1>3. AllocFrames(n) \in [1 .. n -> A]
  BY <1>1, <1>2 DEF AllocFrames
<1>4. AllocFrames(n) \in Seq(A) /\ Len(AllocFrames(n)) = n
  BY <1>3
<1>5. StackAfterAlloc(n) \in Seq(Frames)
  BY <1>1, <1>2, SubSeqProperties DEF StackAfterAlloc, Least
<1> QED
  BY <1>4, <1>5, Zenon

\* What releasing the first n entries of a ring leaves.
LEMMA ReleaseType ==
  ASSUME NEW S, NEW s \in Seq(S), NEW n \in 0 .. Len(s)
  PROVE  /\ SubSeq(s, n + 1, Len(s)) \in Seq(S)
         /\ Len(SubSeq(s, n + 1, Len(s))) = Len(s) - n
         /\ \A i \in 1 .. Len(s) - n : SubSeq(s, n + 1, Len(s))[i] = s[n + i]
<1>1. Len(s) \in Nat /\ \A i \in 1 .. Len(s) : s[i] \in S
  BY ElementOfSeq
<1>2. \A i \in n + 1 .. Len(s) : s[i] \in S
  BY <1>1
<1> QED
  BY <1>1, <1>2, SubSeqProperties

-----------------------------------------------------------------------------
(* The frames of a sequence *)

\* Appending a frame adds it.
LEMMA AppendFrames ==
  ASSUME NEW S, NEW s \in Seq(S), NEW e \in S, e \in Frames, NEW k \in 0 .. Len(s)
  PROVE  /\ FramesFrom(Append(s, e), k) = FramesFrom(s, k) \cup {e}
         /\ DistinctFrom(s, k) /\ e \notin FramesFrom(s, k)
              => DistinctFrom(Append(s, e), k)
<1>1. /\ Len(s) \in Nat /\ Len(Append(s, e)) = Len(s) + 1
      /\ \A i \in 1 .. Len(s) : Append(s, e)[i] = s[i]
      /\ Append(s, e)[Len(s) + 1] = e
  BY AppendProperties
<1>2. \A i \in k + 1 .. Len(s) + 1 : i \in k + 1 .. Len(s) \/ i = Len(s) + 1
  BY <1>1
<1> QED
  BY <1>1, <1>2 DEF FramesFrom, DistinctFrom

\* Dealing with the next entry takes its frame out.
LEMMA AdvanceFrames ==
  ASSUME NEW S, NEW s \in Seq(S), NEW k \in Nat, k < Len(s)
  PROVE  /\ FramesFrom(s, k) = FramesFrom(s, k + 1) \cup ({s[k + 1]} \cap Frames)
         /\ DistinctFrom(s, k)
              => DistinctFrom(s, k + 1) /\ s[k + 1] \notin FramesFrom(s, k + 1)
<1>1. Len(s) \in Nat
  OBVIOUS
<1>2. \A i : i \in k + 1 .. Len(s) <=> i \in (k + 1) + 1 .. Len(s) \/ i = k + 1
  BY <1>1
<1>3. k + 1 \notin (k + 1) + 1 .. Len(s)
  BY <1>1
<1> QED
  BY <1>1, <1>2, <1>3, Zenon DEF FramesFrom, DistinctFrom

\* Releasing the first n entries leaves the frames past them.
LEMMA DropFrames ==
  ASSUME NEW S, NEW s \in Seq(S), NEW n \in 0 .. Len(s)
  PROVE  LET t == SubSeq(s, n + 1, Len(s))
         IN  /\ FramesFrom(t, 0) = FramesFrom(s, n)
             /\ DistinctFrom(s, n) => DistinctFrom(t, 0)
<1> DEFINE t == SubSeq(s, n + 1, Len(s))
<1>1. /\ Len(s) \in Nat /\ Len(t) = Len(s) - n
      /\ \A i \in 1 .. Len(s) - n : t[i] = s[n + i]
  BY ReleaseType
<1>2. \A i \in 1 .. Len(s) - n : n + i \in n + 1 .. Len(s)
  BY <1>1
<1>3. \A i \in n + 1 .. Len(s) : i - n \in 1 .. Len(s) - n /\ t[i - n] = s[i]
  BY <1>1
<1> HIDE DEF t
<1>4. FramesFrom(t, 0) = FramesFrom(s, n)
  BY <1>1, <1>2, <1>3, SMTT(60) DEF FramesFrom
<1>5. DistinctFrom(s, n) => DistinctFrom(t, 0)
  BY <1>1, <1>2, SMTT(60) DEF DistinctFrom
<1> QED
  BY <1>4, <1>5, Zenon DEF t

\* Taking the head takes its frame out.
LEMMA TailFrames ==
  ASSUME NEW S, NEW s \in Seq(S), s # <<>>
  PROVE  /\ FramesFrom(s, 0) = FramesFrom(Tail(s), 0) \cup ({Head(s)} \cap Frames)
         /\ DistinctFrom(s, 0)
              => DistinctFrom(Tail(s), 0) /\ Head(s) \notin FramesFrom(Tail(s), 0)
<1>1. Len(s) \in Nat /\ 0 < Len(s) /\ Head(s) = s[0 + 1]
  BY EmptySeq
<1>2. Tail(s) = SubSeq(s, 1 + 1, Len(s)) /\ 1 \in 0 .. Len(s)
  BY <1>1, TailIsSubSeq
<1>3. /\ FramesFrom(Tail(s), 0) = FramesFrom(s, 1)
      /\ DistinctFrom(s, 1) => DistinctFrom(Tail(s), 0)
  BY ONLY s \in Seq(S), <1>2, DropFrames, Zenon
<1>4. 0 + 1 = 1
  OBVIOUS
<1>5. /\ FramesFrom(s, 0) = FramesFrom(s, 1) \cup ({Head(s)} \cap Frames)
      /\ DistinctFrom(s, 0) => DistinctFrom(s, 1) /\ Head(s) \notin FramesFrom(s, 1)
  BY ONLY s \in Seq(S), 0 \in Nat, <1>1, <1>4, AdvanceFrames
<1> QED
  BY <1>3, <1>5

\* Joining two sequences joins their frames.
LEMMA ConcatFrames ==
  ASSUME NEW S, NEW s \in Seq(S), NEW t \in Seq(S)
  PROVE  /\ FramesFrom(s \o t, 0) = FramesFrom(s, 0) \cup FramesFrom(t, 0)
         /\ DistinctFrom(s, 0) /\ DistinctFrom(t, 0)
              /\ FramesFrom(s, 0) \cap FramesFrom(t, 0) = {}
              => DistinctFrom(s \o t, 0)
<1> DEFINE u == s \o t
<1>1. /\ Len(s) \in Nat /\ Len(t) \in Nat /\ Len(u) = Len(s) + Len(t)
      /\ \A i \in 1 .. Len(u) : u[i] = IF i <= Len(s) THEN s[i] ELSE t[i - Len(s)]
  BY ConcatProperties
<1> HIDE DEF u
<1>2. \A i \in 1 .. Len(s) : i \in 1 .. Len(u) /\ u[i] = s[i]
  BY <1>1
<1>3. \A i \in 1 .. Len(t) : Len(s) + i \in 1 .. Len(u) /\ u[Len(s) + i] = t[i]
  <2> SUFFICES ASSUME NEW i \in 1 .. Len(t)
               PROVE  Len(s) + i \in 1 .. Len(u) /\ u[Len(s) + i] = t[i]
    BY Zenon
  <2>1. /\ Len(s) + i \in 1 .. Len(u) /\ ~(Len(s) + i <= Len(s))
        /\ (Len(s) + i) - Len(s) = i
    BY <1>1
  <2> QED
    BY <1>1, <2>1, Zenon
<1>4. \A i \in 1 .. Len(u) : \/ i \in 1 .. Len(s) /\ u[i] = s[i]
                             \/ /\ i \notin 1 .. Len(s) /\ i - Len(s) \in 1 .. Len(t)
                                /\ u[i] = t[i - Len(s)]
  BY <1>1
<1>5. FramesFrom(u, 0) = FramesFrom(s, 0) \cup FramesFrom(t, 0)
  <2>1. FramesFrom(u, 0) \subseteq FramesFrom(s, 0) \cup FramesFrom(t, 0)
    BY <1>4, SMTT(60) DEF FramesFrom
  <2>2. FramesFrom(s, 0) \subseteq FramesFrom(u, 0)
    BY <1>2, Zenon DEF FramesFrom
  <2>3. FramesFrom(t, 0) \subseteq FramesFrom(u, 0)
    BY <1>3, Zenon DEF FramesFrom
  <2> QED
    BY <2>1, <2>2, <2>3, Zenon
<1>6. ASSUME DistinctFrom(s, 0), DistinctFrom(t, 0),
             FramesFrom(s, 0) \cap FramesFrom(t, 0) = {}
      PROVE  DistinctFrom(u, 0)
  <2> SUFFICES ASSUME NEW i \in 1 .. Len(u), NEW j \in 1 .. Len(u),
                      u[i] = u[j], u[i] \in Frames
               PROVE  i = j
    BY DEF DistinctFrom
  <2>1. CASE i \in 1 .. Len(s) /\ j \in 1 .. Len(s)
    BY <1>4, <1>6, <2>1 DEF DistinctFrom
  <2>2. CASE i \notin 1 .. Len(s) /\ j \notin 1 .. Len(s)
    <3>1. i - Len(s) = j - Len(s)
      BY <1>4, <1>6, <2>2, SMTT(60) DEF DistinctFrom
    <3> QED
      BY <1>1, <3>1
  <2>3. CASE i \in 1 .. Len(s) /\ j \notin 1 .. Len(s)
    <3>0. i \in 0 + 1 .. Len(s) /\ u[i] = s[i]
      BY <1>4, <2>3
    <3>1. u[i] \in FramesFrom(s, 0)
      BY <3>0 DEF FramesFrom
    <3>2. u[j] \in FramesFrom(t, 0)
      BY <1>4, <2>3 DEF FramesFrom
    <3> QED
      BY <1>6, <3>1, <3>2
  <2>4. CASE i \notin 1 .. Len(s) /\ j \in 1 .. Len(s)
    <3>1. u[i] \in FramesFrom(t, 0)
      BY <1>4, <2>4, SMTT(30) DEF FramesFrom
    <3>2. u[j] \in FramesFrom(s, 0)
      BY <1>4, <2>4 DEF FramesFrom
    <3> QED
      BY <1>6, <3>1, <3>2
  <2> QED
    BY <2>1, <2>2, <2>3, <2>4
<1> QED
  BY <1>5, <1>6, Zenon DEF u

\* The first n entries and the rest share the frames out.
LEMMA PrefixFrames ==
  ASSUME NEW S, NEW s \in Seq(S), NEW n \in 0 .. Len(s)
  PROVE  LET t == SubSeq(s, 1, n)
         IN  /\ t \in Seq(S) /\ Len(t) = n
             /\ FramesFrom(s, 0) = FramesFrom(t, 0) \cup FramesFrom(s, n)
             /\ DistinctFrom(s, 0)
                  => /\ DistinctFrom(t, 0) /\ DistinctFrom(s, n)
                     /\ FramesFrom(t, 0) \cap FramesFrom(s, n) = {}
<1> DEFINE t == SubSeq(s, 1, n)
<1>0. Len(s) \in Nat /\ \A i \in 1 .. Len(s) : s[i] \in S
  BY ElementOfSeq
<1>1. \A i \in 1 .. n : i \in 1 .. Len(s) /\ s[i] \in S
  BY <1>0
<1>2. t \in Seq(S) /\ Len(t) = n /\ \A i \in 1 .. n : t[i] = s[i]
  BY <1>0, <1>1, SubSeqProperties
<1> HIDE DEF t
<1>3. \A i \in 1 .. Len(s) : i \in 1 .. n \/ i \in n + 1 .. Len(s)
  BY <1>0
<1>4. \A i \in n + 1 .. Len(s) : i \in 1 .. Len(s) /\ i \notin 1 .. n
  BY <1>0
<1>5. FramesFrom(s, 0) = FramesFrom(t, 0) \cup FramesFrom(s, n)
  BY <1>1, <1>2, <1>3, <1>4 DEF FramesFrom
<1>6. DistinctFrom(s, 0) => DistinctFrom(t, 0) /\ DistinctFrom(s, n)
  BY <1>1, <1>2, <1>4 DEF DistinctFrom
<1>7. DistinctFrom(s, 0) => FramesFrom(t, 0) \cap FramesFrom(s, n) = {}
  BY <1>1, <1>2, <1>4 DEF FramesFrom, DistinctFrom
<1> QED
  BY <1>2, <1>5, <1>6, <1>7, Zenon DEF t

\* Allocating n frames moves them from the stack, each once; allocations from
\* an empty stack yield no frame.
LEMMA AllocMoves ==
  ASSUME umem_frame_addr \in Seq(Frames), NEW n \in Nat
  PROVE  /\ Stacked = FramesFrom(AllocFrames(n), 0) \cup FramesFrom(StackAfterAlloc(n), 0)
         /\ DistinctFrom(umem_frame_addr, 0)
              => /\ DistinctFrom(AllocFrames(n), 0) /\ DistinctFrom(StackAfterAlloc(n), 0)
                 /\ FramesFrom(AllocFrames(n), 0) \cap FramesFrom(StackAfterAlloc(n), 0) = {}
<1> DEFINE s == umem_frame_addr
           l == Len(s)
           m == l - Least(n, l)
           a == AllocFrames(n)
<1>0. s \in Seq(Frames) /\ l \in Nat /\ m \in 0 .. l
  BY DEF Least
<1>1. StackAfterAlloc(n) = SubSeq(s, 1, m)
  BY Zenon DEF StackAfterAlloc
<1>2. /\ FramesFrom(s, 0) = FramesFrom(StackAfterAlloc(n), 0) \cup FramesFrom(s, m)
      /\ DistinctFrom(s, 0)
           => /\ DistinctFrom(StackAfterAlloc(n), 0) /\ DistinctFrom(s, m)
              /\ FramesFrom(StackAfterAlloc(n), 0) \cap FramesFrom(s, m) = {}
  <2> HIDE DEF m, s
  <2> QED
    BY ONLY <1>0, <1>1, PrefixFrames
<1>3. /\ Len(a) = n
      /\ \A i \in 1 .. n : a[i] = IF i <= l THEN s[l + 1 - i] ELSE INVALID_UMEM_FRAME
  BY AllocType, Zenon DEF AllocFrames
<1>4. \A i \in 1 .. n : a[i] \in Frames => l + 1 - i \in m + 1 .. l /\ a[i] = s[l + 1 - i]
  BY <1>0, <1>3, FramesAssumption DEF Least
<1>5. \A i \in m + 1 .. l : l + 1 - i \in 1 .. n /\ a[l + 1 - i] = s[i]
  <2> SUFFICES ASSUME NEW i \in m + 1 .. l
               PROVE  l + 1 - i \in 1 .. n /\ a[l + 1 - i] = s[i]
    BY Zenon
  <2>1. l + 1 - i \in 1 .. n /\ l + 1 - i <= l /\ l + 1 - (l + 1 - i) = i
    BY <1>0 DEF Least
  <2> QED
    BY <1>3, <2>1, Zenon
<1> HIDE DEF s, l, m, a
<1>6. FramesFrom(a, 0) = FramesFrom(s, m)
  <2>1. FramesFrom(a, 0) \subseteq FramesFrom(s, m)
    BY <1>3, <1>4, Zenon DEF FramesFrom, l
  <2>2. FramesFrom(s, m) \subseteq FramesFrom(a, 0)
    BY <1>3, <1>5, Zenon DEF FramesFrom, l
  <2> QED
    BY <2>1, <2>2, Zenon
<1>7. DistinctFrom(s, m) => DistinctFrom(a, 0)
  <2> SUFFICES ASSUME DistinctFrom(s, m), NEW i \in 1 .. n, NEW j \in 1 .. n,
                      a[i] = a[j], a[i] \in Frames
               PROVE  i = j
    BY <1>3 DEF DistinctFrom
  <2>1. l + 1 - i = l + 1 - j
    BY <1>4, Zenon DEF DistinctFrom, l
  <2> QED
    BY <1>0, <2>1
<1> QED
  BY <1>2, <1>6, <1>7, Zenon DEF Stacked, s, a

-----------------------------------------------------------------------------
(* Finite sets *)

\* A set grows by at most the one element added.
LEMMA CardinalityAdd ==
  ASSUME NEW S, IsFiniteSet(S), NEW x
  PROVE  /\ Cardinality(S) \in Nat /\ Cardinality(S \cup {x}) \in Nat
         /\ Cardinality(S \cup {x}) <= Cardinality(S) + 1
<1>1. IsFiniteSet(S \cup {x})
  BY FS_AddElement, Zenon
<1>2. Cardinality(S) \in Nat /\ Cardinality(S \cup {x}) \in Nat
  BY <1>1, FS_CardinalityType, Zenon
<1>3. CASE x \in S
  <2>1. Cardinality(S \cup {x}) = Cardinality(S)
    BY <1>3, FS_AddElement, Zenon
  <2> QED
    BY <1>2, <2>1
<1>4. CASE x \notin S
  <2>1. Cardinality(S \cup {x}) = Cardinality(S) + 1
    BY <1>4, FS_AddElement, Zenon
  <2> QED
    BY <1>2, <2>1
<1> QED
  BY <1>3, <1>4, Zenon

\* A sequence of distinct frames is no longer than the set they come from.
LEMMA DistinctLength ==
  ASSUME NEW s \in Seq(Frames), DistinctFrom(s, 0),
         NEW T \in SUBSET Frames, FramesFrom(s, 0) \subseteq T
  PROVE  Len(s) <= Cardinality(T)
<1>1. Len(s) \in Nat /\ DOMAIN s = 1 .. Len(s) /\ s \in [1 .. Len(s) -> Frames]
  BY LenProperties, Zenon
<1>2. \A i \in 1 .. Len(s) : s[i] \in T
  BY <1>1 DEF FramesFrom
<1>3. IsInjective(s)
  BY <1>1 DEF DistinctFrom, IsInjective
<1>4. s \in Injection(1 .. Len(s), T)
  BY <1>1, <1>2, <1>3, Zenon DEF Injection
<1>5. IsFiniteSet(T)
  BY FramesAssumption, FS_Subset, Zenon
<1>6. Cardinality(1 .. Len(s)) <= Cardinality(T)
  BY <1>4, <1>5, FS_Injection, Zenon
<1>7. Cardinality(1 .. Len(s)) = Len(s)
  BY <1>1, FS_Interval, SMTT(60)
<1> QED
  BY <1>6, <1>7, Zenon

\* A sequence holds at most as many frames as it has entries.
LEMMA FramesBound ==
  ASSUME NEW s \in Seq(Frames)
  PROVE  /\ IsFiniteSet(FramesFrom(s, 0)) /\ Cardinality(FramesFrom(s, 0)) \in Nat
         /\ Cardinality(FramesFrom(s, 0)) <= Len(s)
<1> DEFINE T == FramesFrom(s, 0)
<1>1. Len(s) \in Nat /\ s \in [1 .. Len(s) -> Frames]
  BY LenProperties
<1>2. T = {s[i] : i \in 1 .. Len(s)}
  BY <1>1 DEF FramesFrom
<1>3. s \in Surjection(1 .. Len(s), T)
  BY <1>1, <1>2, Zenon DEF Surjection
<1>4. IsFiniteSet(1 .. Len(s)) /\ Cardinality(1 .. Len(s)) = Len(s)
  BY <1>1, FS_Interval, SMTT(60)
<1> HIDE DEF T
<1>5. IsFiniteSet(T) /\ Cardinality(T) <= Len(s)
  BY <1>3, <1>4, FS_Surjection
<1>6. Cardinality(T) \in Nat
  BY <1>5, FS_CardinalityType
<1> QED
  BY <1>5, <1>6 DEF T

\* A union has at most as many elements as its parts together.
LEMMA UnionBound ==
  ASSUME NEW S, NEW T, IsFiniteSet(S), IsFiniteSet(T)
  PROVE  /\ IsFiniteSet(S \cup T)
         /\ Cardinality(S) \in Nat /\ Cardinality(T) \in Nat /\ Cardinality(S \cup T) \in Nat
         /\ Cardinality(S \cup T) <= Cardinality(S) + Cardinality(T)
<1>1. /\ IsFiniteSet(S \cup T)
      /\ Cardinality(S \cup T) = Cardinality(S) + Cardinality(T) - Cardinality(S \cap T)
  BY FS_Union, Zenon
<1>2. IsFiniteSet(S \cap T)
  BY FS_Intersection, Zenon
<1>3. /\ Cardinality(S) \in Nat /\ Cardinality(T) \in Nat /\ Cardinality(S \cup T) \in Nat
      /\ Cardinality(S \cap T) \in Nat
  BY <1>1, <1>2, FS_CardinalityType, Zenon
<1> QED
  BY <1>1, <1>3

-----------------------------------------------------------------------------
(* Lengths and counters *)

\* The socket as xsk_configure_socket leaves it has the right shape.
LEMMA ShapeInit == Init => Shape
<1> SUFFICES ASSUME Init PROVE Shape
  BY Zenon
<1> USE SizesAssumption, EnoughToFill
<1>1. PICK all \in [1 .. NUM_FRAMES -> Frames] :
        /\ umem_frame_addr = SubSeq(all, 1, NUM_FRAMES - FQ_SIZE)
        /\ fq = [i \in 1 .. FQ_SIZE |-> all[NUM_FRAMES + 1 - i]]
  BY Zenon DEF Init
<1>2. NUM_FRAMES \in Nat
  BY FramesAssumption, FS_CardinalityType, Zenon DEF NUM_FRAMES
<1>3. umem_frame_addr \in Seq(Frames)
  <2>1. NUM_FRAMES - FQ_SIZE \in Int /\ \A i \in 1 .. NUM_FRAMES - FQ_SIZE : all[i] \in Frames
    BY <1>2
  <2>2. SubSeq(all, 1, NUM_FRAMES - FQ_SIZE) \in Seq(Frames)
    BY ONLY <2>1, SubSeqProperties
  <2> QED
    BY <1>1, <2>2, Zenon
<1>4. fq \in [1 .. FQ_SIZE -> Frames]
  BY <1>1, <1>2
<1>5. fq \in Seq(Frames \cup {INVALID_UMEM_FRAME}) /\ Len(fq) = FQ_SIZE
  BY <1>4
<1>6. TypeOK
  <2>1. global_exit \in BOOLEAN /\ pc \in pcs /\ ktx \in SUBSET Frames
    BY Zenon DEF Init, pcs
  <2>2. nic \in Seq(Frames) /\ rx \in Seq(Frames) /\ tx \in Seq(Frames) /\ cq \in Seq(Frames)
    BY EmptySeq, Zenon DEF Init
  <2> QED
    BY <1>3, <1>5, <2>1, <2>2 DEF Init, TypeOK
<1>7. NoOverrun /\ PeekedPresent
  BY <1>5 DEF Init, NoOverrun, PeekedPresent
<1>8. NeverRetry /\ Control
  BY Zenon DEF Init, NeverRetry, Control
<1>9. KernelBounds
  BY FS_EmptySet DEF Init, KernelBounds
<1> QED
  BY <1>6, <1>7, <1>8, <1>9, Zenon DEF Shape

\* No step of the thread, the signal handler or the kernel spoils the shape:
\* a cached count stays a lower bound because only the thread takes the room
\* (entries) and only the kernel adds to it.
LEMMA ShapeStep == Shape /\ [Next]_vars => Shape'
<1> SUFFICES ASSUME Shape, [Next]_vars PROVE Shape'
  BY Zenon
<1> USE SizesAssumption DEF Shape, TypeOK, NoOverrun, PeekedPresent, NeverRetry,
        Control, KernelBounds, pcs
<1>1. CASE LoopTest
  BY <1>1, Zenon DEF LoopTest
<1>2. CASE PollReady
  BY <1>2, Zenon DEF PollReady
<1>3. CASE PollFails
  BY <1>3, Zenon DEF PollFails
<1>4. CASE PeekRx
  <2> DEFINE entries == xsk_cons_nb_avail(rx_avail, Len(rx))
             n == Least(entries, RX_BATCH_SIZE)
  <2>1. entries \in 0 .. RX_SIZE /\ entries <= Len(rx)
    BY <1>4 DEF PeekRx, xsk_cons_nb_avail
  <2> HIDE DEF entries
  <2>2. n \in 0 .. RX_BATCH_SIZE /\ n <= entries
    BY <2>1 DEF Least
  <2>3. /\ pc = "peek" /\ rcvd' = n /\ rx_avail' = entries - n /\ idx' = 0
        /\ pc' = IF n = 0 THEN "loop" ELSE "stock"
        /\ UNCHANGED <<umem_frame_addr, fq, fq_free, nic, rx, tx, tx_free, ktx, cq,
                       wakeup, outstanding_tx, stock_frames, completed, global_exit>>
    BY <1>4, Zenon DEF PeekRx, entries
  <2> HIDE DEF n
  <2> QED
    BY <2>1, <2>2, <2>3, SMTT(60)
<1>5. CASE StockFrames
  <2>1. fq_free = 0 /\ Len(umem_frame_addr) \in Nat /\ Len(fq) \in 0 .. FQ_SIZE
    BY <1>5, SMTT(60) DEF StockFrames
  <2>2. /\ fq_free' \in 0 .. FQ_SIZE /\ Len(fq) + fq_free' <= FQ_SIZE
        /\ fq_free' > 0 => umem_frame_addr # <<>>
    BY <1>5, <2>1, SMTT(60) DEF StockFrames, xsk_prod_nb_free
  <2>3. /\ pc = "stock" /\ stock_frames' = fq_free'
        /\ pc' = IF stock_frames' > 0 THEN "reserve" ELSE "process"
        /\ UNCHANGED <<umem_frame_addr, fq, nic, rx, rx_avail, tx, tx_free, ktx, cq,
                       wakeup, outstanding_tx, rcvd, idx, completed, global_exit>>
    BY <1>5, Zenon DEF StockFrames
  <2> QED
    BY <2>1, <2>2, <2>3, SMTT(60)
<1>6. CASE ReserveFill
  BY <1>6, SMTT(60) DEF ReserveFill, xsk_prod_nb_free
<1>7. CASE SubmitFill
  <2> DEFINE alloc == AllocFrames(stock_frames)
  <2>1. /\ alloc \in Seq(Frames \cup {INVALID_UMEM_FRAME}) /\ Len(alloc) = stock_frames
        /\ StackAfterAlloc(stock_frames) \in Seq(Frames)
    <3>1. stock_frames \in Nat /\ umem_frame_addr \in Seq(Frames)
      OBVIOUS
    <3> QED
      BY ONLY <3>1, AllocType, Zenon
  <2>2. /\ pc = "fill" /\ pc' = "process" /\ fq' = fq \o alloc
        /\ umem_frame_addr' = StackAfterAlloc(stock_frames)
        /\ UNCHANGED <<fq_free, nic, rx, rx_avail, tx, tx_free, ktx, cq, wakeup,
                       outstanding_tx, rcvd, idx, stock_frames, completed, global_exit>>
    BY <1>7, Zenon DEF SubmitFill
  <2>3. /\ fq' \in Seq(Frames \cup {INVALID_UMEM_FRAME})
        /\ Len(fq') = Len(fq) + stock_frames
    <3> DEFINE A == Frames \cup {INVALID_UMEM_FRAME}
    <3>1. fq \in Seq(A) /\ alloc \in Seq(A)
      BY <2>1, Zenon
    <3> HIDE DEF alloc, A
    <3>2. fq \o alloc \in Seq(A) /\ Len(fq \o alloc) = Len(fq) + Len(alloc)
      BY ONLY <3>1, ConcatProperties, Zenon
    <3> QED
      BY <2>1, <2>2, <3>2, Zenon DEF A
  <2> HIDE DEF alloc
  <2> QED
    BY <2>1, <2>2, <2>3
<1>8. CASE DropPacket
  BY <1>8, SMTT(60) DEF DropPacket, xsk_free_umem_frame
<1>9. CASE ReplyPacket
  <2> DEFINE free == xsk_prod_nb_free(tx_free, Len(tx), TX_SIZE, 1)
  <2>1. free \in 0 .. TX_SIZE /\ Len(tx) + free <= TX_SIZE
    BY SMTT(60) DEF xsk_prod_nb_free
  <2>2. rx[idx + 1] \in Frames
    BY <1>9, SMTT(60) DEF ReplyPacket
  <2>3. /\ pc = "process" /\ idx < rcvd /\ idx' = idx + 1
        /\ UNCHANGED <<fq, fq_free, nic, rx, rx_avail, ktx, cq, wakeup, pc, rcvd,
                       stock_frames, completed, global_exit>>
    BY <1>9 DEF ReplyPacket
  <2>4. CASE free >= 1 /\ tx' = Append(tx, rx[idx + 1]) /\ tx_free' = free - 1
             /\ outstanding_tx' = outstanding_tx + 1 /\ UNCHANGED umem_frame_addr
    <3>1. tx' \in Seq(Frames) /\ Len(tx') = Len(tx) + 1
      BY <2>2, <2>4, AppendProperties
    <3> HIDE DEF free
    <3> QED
      BY <2>1, <2>3, <2>4, <3>1, SMTT(60)
  <2>5. CASE /\ tx_free' = free /\ umem_frame_addr' = Append(umem_frame_addr, rx[idx + 1])
             /\ UNCHANGED <<tx, outstanding_tx>>
    BY <2>1, <2>2, <2>3, <2>5, SMTT(60)
  <2> QED
    BY <1>9, <2>4, <2>5, Zenon DEF ReplyPacket, xsk_free_umem_frame
<1>10. CASE ReleaseRx
  <2>1. rx' \in Seq(Frames) /\ Len(rx') = Len(rx) - rcvd
    <3>1. rx \in Seq(Frames) /\ rcvd \in 0 .. Len(rx)
      OBVIOUS
    <3>2. rx' = SubSeq(rx, rcvd + 1, Len(rx))
      BY <1>10, Zenon DEF ReleaseRx
    <3> QED
      BY ONLY <3>1, <3>2, ReleaseType, Zenon
  <2>2. /\ pc = "process" /\ rcvd' = 0 /\ idx' = 0
        /\ pc' = IF outstanding_tx = 0 THEN "loop" ELSE "sendto"
        /\ UNCHANGED <<umem_frame_addr, fq, fq_free, nic, rx_avail, tx, tx_free, ktx,
                       cq, wakeup, outstanding_tx, stock_frames, completed, global_exit>>
    BY <1>10, Zenon DEF ReleaseRx
  <2> QED
    BY <2>1, <2>2, SMTT(60)
<1>11. CASE SendTo
  BY <1>11, SMTT(60) DEF SendTo
<1>12. CASE PeekCompleted
  BY <1>12, SMTT(60) DEF PeekCompleted
<1>13. CASE FreeCompleted
  <2>1. completed \in 0 .. Len(cq) /\ \A i \in 1 .. Len(cq) : cq[i] \in Frames
    BY ElementOfSeq
  <2>2. SubSeq(cq, 1, completed) \in Seq(Frames)
    BY <2>1, SubSeqProperties, SMTT(60)
  <2>3. umem_frame_addr' \in Seq(Frames)
    BY <1>13, <2>2, ConcatProperties, Zenon DEF FreeCompleted
  <2>4. cq' \in Seq(Frames) /\ Len(cq') = Len(cq) - completed
    <3>1. cq \in Seq(Frames) /\ completed \in 0 .. Len(cq)
      BY <2>1
    <3>2. cq' = SubSeq(cq, completed + 1, Len(cq))
      BY <1>13, Zenon DEF FreeCompleted
    <3> QED
      BY ONLY <3>1, <3>2, ReleaseType, Zenon
  <2>5. outstanding_tx' \in Nat
    BY <1>13, <2>1 DEF FreeCompleted, Least
  <2>6. /\ pc = "free" /\ completed' = 0 /\ pc' = "loop"
        /\ UNCHANGED <<fq, fq_free, nic, rx, rx_avail, tx, tx_free, ktx, wakeup, rcvd,
                       idx, stock_frames, global_exit>>
    BY <1>13, Zenon DEF FreeCompleted
  <2>7. Cardinality(ktx) \in Nat
    BY FramesAssumption, FS_Subset, FS_CardinalityType, Zenon
  <2>8. TypeOK'
    BY <2>3, <2>4, <2>5, <2>6, SMTT(30)
  <2>9. NoOverrun' /\ PeekedPresent' /\ NeverRetry' /\ Control'
    BY <2>4, <2>6
  <2>10. KernelBounds'
    <3>1. Len(cq) \in Nat /\ Cardinality(ktx) + Len(cq) <= CQ_SIZE /\ CQ_SIZE \in Nat
      OBVIOUS
    <3>2. Cardinality(ktx) + Len(cq') <= CQ_SIZE
      BY ONLY <2>1, <2>4, <2>7, <3>1, SMTT(60)
    <3> QED
      BY <2>6, <3>2, Zenon
  <2> QED
    BY <2>8, <2>9, <2>10, Zenon
<1>14. CASE ExitApplication
  BY <1>14, Zenon DEF ExitApplication, appVars
<1>15. CASE KernelTakeFill
  <2>1. /\ fq' \in Seq(Frames \cup {INVALID_UMEM_FRAME}) /\ Len(fq') = Len(fq) - 1
        /\ nic' \in Seq(Frames) /\ Len(nic') <= NIC_SIZE
    BY <1>15, HeadTailProperties DEF KernelTakeFill
  <2>2. UNCHANGED <<umem_frame_addr, fq_free, rx_avail, tx_free, outstanding_tx, pc,
                       rcvd, idx, stock_frames, completed, rx, tx, ktx, cq, wakeup,
                    global_exit>>
    BY <1>15 DEF KernelTakeFill, appVars
  <2> QED
    BY <2>1, <2>2, SMTT(60)
<1>16. CASE KernelDeliver
  <2>1. /\ rx' \in Seq(Frames) /\ Len(rx') = Len(rx) + 1 /\ Len(rx') <= RX_SIZE
        /\ nic' \in Seq(Frames) /\ Len(nic') <= NIC_SIZE
    <3>1. /\ nic \in Seq(Frames) /\ nic # <<>> /\ Len(nic) <= NIC_SIZE /\ NIC_SIZE \in Nat
          /\ rx \in Seq(Frames) /\ Len(rx) < RX_SIZE /\ RX_SIZE \in Nat
          /\ rx' = Append(rx, Head(nic)) /\ nic' = Tail(nic)
      BY <1>16 DEF KernelDeliver
    <3>2. Head(nic) \in Frames /\ nic' \in Seq(Frames) /\ Len(nic') = Len(nic) - 1
      BY ONLY <3>1, HeadTailProperties, Zenon
    <3>3. rx' \in Seq(Frames) /\ Len(rx') = Len(rx) + 1
      BY ONLY <3>1, <3>2, AppendProperties, Zenon
    <3> QED
      BY ONLY <3>1, <3>2, <3>3
  <2>2. UNCHANGED <<umem_frame_addr, fq_free, rx_avail, tx_free, outstanding_tx, pc,
                       rcvd, idx, stock_frames, completed, fq, tx, ktx, cq, wakeup,
                    global_exit>>
    BY <1>16, Zenon DEF KernelDeliver, appVars
  <2> QED
    BY <2>1, <2>2, SMTT(60)
<1>17. CASE KernelTakeTx
  <2>1. /\ tx' \in Seq(Frames) /\ Len(tx') = Len(tx) - 1
        /\ wakeup' \in 0 .. TX_BUDGET /\ Head(tx) \in Frames
    BY <1>17, HeadTailProperties DEF KernelTakeTx
  <2>2. ktx' \in SUBSET Frames /\ Cardinality(ktx') + Len(cq) <= CQ_SIZE
    <3>1. IsFiniteSet(ktx) /\ Cardinality(ktx) \in Nat
      BY FramesAssumption, FS_Subset, FS_CardinalityType, Zenon
    <3>2. /\ Cardinality(ktx \cup {Head(tx)}) \in Nat
          /\ Cardinality(ktx \cup {Head(tx)}) <= Cardinality(ktx) + 1
      BY ONLY <3>1, CardinalityAdd, Zenon
    <3>3. ktx' = ktx \cup {Head(tx)} /\ Cardinality(ktx) + Len(cq) < CQ_SIZE
      BY <1>17, Zenon DEF KernelTakeTx
    <3>4. ktx' \in SUBSET Frames
      BY <2>1, <3>3, Zenon
    <3>5. Len(cq) \in Nat /\ CQ_SIZE \in Nat
      OBVIOUS
    <3> QED
      BY ONLY <3>1, <3>2, <3>3, <3>4, <3>5, SMTT(60)
  <2>3. UNCHANGED <<umem_frame_addr, fq_free, rx_avail, tx_free, outstanding_tx, pc,
                    rcvd, idx, stock_frames, completed, fq, nic, rx, cq, global_exit>>
    BY <1>17, Zenon DEF KernelTakeTx, appVars
  <2>4. TypeOK'
    BY <2>1, <2>2, <2>3, Zenon
  <2>5. NoOverrun' /\ PeekedPresent' /\ NeverRetry' /\ Control'
    BY <2>1, <2>3, SMTT(60)
  <2>6. KernelBounds'
    BY <2>2, <2>3, Zenon
  <2> QED
    BY <2>4, <2>5, <2>6, SMTT(60)
<1>18. ASSUME NEW f \in Frames, KernelComplete(f) PROVE Shape'
  <2>1. cq' \in Seq(Frames) /\ Len(cq') = Len(cq) + 1
    BY <1>18, AppendProperties DEF KernelComplete
  <2>2. ktx' \in SUBSET Frames /\ Cardinality(ktx') + Len(cq') <= CQ_SIZE
    <3>1. IsFiniteSet(ktx) /\ Cardinality(ktx) \in Nat
      BY FramesAssumption, FS_Subset, FS_CardinalityType, Zenon
    <3>2. f \in ktx /\ ktx' = ktx \ {f}
      BY <1>18 DEF KernelComplete
    <3>3. Cardinality(ktx \ {f}) = Cardinality(ktx) - 1
      BY ONLY <3>1, <3>2, FS_RemoveElement, Zenon
    <3>4. ktx' \in SUBSET Frames
      BY <3>2, Zenon
    <3>5. Len(cq) \in Nat /\ CQ_SIZE \in Nat /\ Cardinality(ktx) + Len(cq) <= CQ_SIZE
      OBVIOUS
    <3> QED
      BY ONLY <2>1, <3>1, <3>2, <3>3, <3>4, <3>5, SMTT(60)
  <2>3. UNCHANGED <<umem_frame_addr, fq_free, rx_avail, tx_free, outstanding_tx, pc, rcvd,
                    idx, stock_frames, completed, fq, nic, rx, tx, wakeup, global_exit>>
    BY <1>18, Zenon DEF KernelComplete, appVars
  <2> QED
    BY <2>1, <2>2, <2>3, SMTT(60)
<1>19. CASE UNCHANGED vars
  BY <1>19, Zenon DEF vars
<1> QED
  BY <1>1, <1>2, <1>3, <1>4, <1>5, <1>6, <1>7, <1>8, <1>9, <1>10, <1>11, <1>12, <1>13,
     <1>14, <1>15, <1>16, <1>17, <1>18, <1>19, ZenonT(30)
     DEF Next, AppNext, KernelTx

-----------------------------------------------------------------------------
(* Ownership of the frames *)

\* The fill ring and the stack split the UMEM between them.
LEMMA OwnershipInit == Init => FrameOwnership
<1> SUFFICES ASSUME Init PROVE FrameOwnership
  OBVIOUS
<1> DEFINE N == NUM_FRAMES
           n == N - FQ_SIZE
<1>0. N \in Nat /\ FQ_SIZE \in Nat /\ n \in 0 .. N
  BY FramesAssumption, SizesAssumption, EnoughToFill, FS_CardinalityType DEF NUM_FRAMES
<1>1. PICK all \in [1 .. N -> Frames] :
        /\ \A i, j \in 1 .. N : all[i] = all[j] => i = j
        /\ umem_frame_addr = SubSeq(all, 1, n)
        /\ fq = [i \in 1 .. FQ_SIZE |-> all[N + 1 - i]]
  BY Zenon DEF Init
<1>2. all \in Seq(Frames) /\ Len(all) = N
  BY <1>0, <1>1
<1>3. DistinctFrom(all, 0)
  BY <1>1, <1>2 DEF DistinctFrom
<1>4. FramesFrom(all, 0) = Frames
  <2>1. IsFiniteSet(1 .. N) /\ Cardinality(1 .. N) = Cardinality(Frames)
    BY <1>0, FS_Interval DEF NUM_FRAMES
  <2>2. all \in Injection(1 .. N, Frames)
    BY <1>1, Zenon DEF Injection, IsInjective
  <2>3. all \in Surjection(1 .. N, Frames)
    BY <2>1, <2>2, FramesAssumption, FS_Injection, Zenon
  <2> QED
    BY <1>2, <2>3 DEF Surjection, FramesFrom
<1>5. /\ Frames = Stacked \cup FramesFrom(all, n)
      /\ DistinctFrom(umem_frame_addr, 0) /\ DistinctFrom(all, n)
      /\ Stacked \cap FramesFrom(all, n) = {}
  <2> HIDE DEF N, n
  <2> QED
    BY <1>0, <1>1, <1>2, <1>3, <1>4, PrefixFrames, Zenon DEF Stacked
<1>6. Len(fq) = FQ_SIZE /\ \A i \in 1 .. FQ_SIZE : fq[i] = all[N + 1 - i]
  BY <1>0, <1>1
<1>7. \A i \in 1 .. FQ_SIZE : N + 1 - i \in n + 1 .. N
  BY <1>0
<1>8. \A i \in n + 1 .. N : N + 1 - i \in 1 .. FQ_SIZE /\ fq[N + 1 - i] = all[i]
  <2> SUFFICES ASSUME NEW i \in n + 1 .. N
               PROVE  N + 1 - i \in 1 .. FQ_SIZE /\ fq[N + 1 - i] = all[i]
    BY Zenon
  <2>1. N + 1 - i \in 1 .. FQ_SIZE /\ N + 1 - (N + 1 - i) = i
    BY <1>0
  <2> QED
    BY <1>6, <2>1, Zenon
<1> HIDE DEF N, n
<1>9. Filled = FramesFrom(all, n)
  <2>1. Filled \subseteq FramesFrom(all, n)
    BY <1>2, <1>6, <1>7, Zenon DEF Filled, FramesFrom
  <2>2. FramesFrom(all, n) \subseteq Filled
    BY <1>2, <1>6, <1>8, Zenon DEF Filled, FramesFrom
  <2> QED
    BY <2>1, <2>2, Zenon
<1>10. DistinctFrom(fq, 0)
  <2> SUFFICES ASSUME NEW i \in 1 .. FQ_SIZE, NEW j \in 1 .. FQ_SIZE,
                      fq[i] = fq[j], fq[i] \in Frames
               PROVE  i = j
    BY <1>6 DEF DistinctFrom
  <2>1. N + 1 - i = N + 1 - j
    BY <1>2, <1>5, <1>6, <1>7, Zenon DEF DistinctFrom
  <2> QED
    BY <1>0, <2>1
<1>11. /\ Held = {} /\ Received = {} /\ Queued = {} /\ Sending = {} /\ Completed = {}
       /\ DistinctFrom(nic, 0) /\ DistinctFrom(rx, idx) /\ DistinctFrom(tx, 0)
       /\ DistinctFrom(cq, 0)
  BY DEF Init, Held, Received, Queued, Sending, Completed, FramesFrom, DistinctFrom
<1> QED
  BY <1>5, <1>9, <1>10, <1>11, Zenon DEF FrameOwnership, NoDuplicates, Exclusive, Conserved

\* A step that moves no frame keeps the partition.
LEMMA Unmoved ==
  ASSUME FrameOwnership, UNCHANGED <<umem_frame_addr, fq, nic, rx, idx, tx, ktx, cq>>
  PROVE  FrameOwnership'
<1>1. /\ Stacked' = Stacked /\ Filled' = Filled /\ Held' = Held /\ Received' = Received
      /\ Queued' = Queued /\ Sending' = Sending /\ Completed' = Completed
  BY Zenon DEF Stacked, Filled, Held, Received, Queued, Sending, Completed
<1>2. NoDuplicates'
  BY Zenon DEF FrameOwnership, NoDuplicates
<1> QED
  BY <1>1, <1>2, Zenon DEF FrameOwnership, Exclusive, Conserved

\* Every other step takes a frame out of one place and puts it into one other.
LEMMA OwnershipStep == Shape /\ FrameOwnership /\ [Next]_vars => FrameOwnership'
<1> SUFFICES ASSUME Shape, FrameOwnership, [Next]_vars PROVE FrameOwnership'
  BY Zenon
<1>t. TypeOK /\ PeekedPresent /\ Control /\ NoDuplicates /\ Exclusive /\ Conserved
  BY Zenon DEF Shape, FrameOwnership
<1>1. CASE \/ LoopTest \/ PollReady \/ PollFails \/ PeekRx \/ StockFrames \/ ReserveFill
           \/ SendTo \/ PeekCompleted \/ ExitApplication \/ UNCHANGED vars
  <2>1. UNCHANGED <<umem_frame_addr, fq, nic, rx, idx, tx, ktx, cq>>
    <3>1. CASE PeekRx
      BY <1>t, <3>1, Zenon DEF PeekRx, Control
    <3>2. CASE LoopTest \/ PollReady \/ PollFails
      BY <3>2, Zenon DEF LoopTest, PollReady, PollFails
    <3>3. CASE StockFrames \/ ReserveFill
      BY <3>3, Zenon DEF StockFrames, ReserveFill
    <3>4. CASE SendTo \/ PeekCompleted
      BY <3>4, Zenon DEF SendTo, PeekCompleted
    <3>5. CASE ExitApplication \/ UNCHANGED vars
      BY <3>5, Zenon DEF ExitApplication, appVars, vars
    <3> QED
      BY <1>1, <3>1, <3>2, <3>3, <3>4, <3>5, Zenon
  <2> QED
    BY <2>1, Unmoved, Zenon
<1>2. CASE SubmitFill
  <2> DEFINE A == Frames \cup {INVALID_UMEM_FRAME}
             alloc == AllocFrames(stock_frames)
  <2>1. /\ fq' = fq \o alloc /\ umem_frame_addr' = StackAfterAlloc(stock_frames)
        /\ UNCHANGED <<nic, rx, idx, tx, ktx, cq>>
    BY <1>2, Zenon DEF SubmitFill
  <2>2. /\ umem_frame_addr \in Seq(Frames) /\ stock_frames \in Nat
        /\ fq \in Seq(A)
    BY <1>t, SizesAssumption DEF TypeOK
  <2>3. alloc \in Seq(A)
    BY <2>2, AllocType, Zenon
  <2>4. /\ Stacked = FramesFrom(alloc, 0) \cup Stacked'
        /\ DistinctFrom(alloc, 0) /\ DistinctFrom(umem_frame_addr', 0)
        /\ FramesFrom(alloc, 0) \cap Stacked' = {}
    BY <1>t, <2>1, <2>2, AllocMoves, Zenon DEF NoDuplicates, Stacked
  <2>5. Filled \cap FramesFrom(alloc, 0) = {}
    BY <1>t, <2>4, Zenon DEF Exclusive
  <2> HIDE DEF alloc, A
  <2>6. /\ Filled' = Filled \cup FramesFrom(alloc, 0)
        /\ DistinctFrom(fq', 0)
    BY <1>t, <2>1, <2>2, <2>3, <2>4, <2>5, ConcatFrames, SMTT(60) DEF Filled, NoDuplicates
  <2>7. /\ Held' = Held /\ Received' = Received /\ Queued' = Queued
        /\ Sending' = Sending /\ Completed' = Completed
    BY <2>1, Zenon DEF Held, Received, Queued, Sending, Completed
  <2>8. NoDuplicates'
    BY <1>t, <2>1, <2>4, <2>6, Zenon DEF NoDuplicates
  <2> QED
    BY <1>t, <2>4, <2>6, <2>7, <2>8, Zenon DEF FrameOwnership, Exclusive, Conserved
<1>3. ASSUME pc = "process", idx < rcvd
      PROVE  /\ rx[idx + 1] \in Frames
             /\ Received = FramesFrom(rx, idx + 1) \cup {rx[idx + 1]}
             /\ rx[idx + 1] \notin FramesFrom(rx, idx + 1)
             /\ DistinctFrom(rx, idx + 1)
  <2>1. rx \in Seq(Frames) /\ idx \in Nat /\ idx < Len(rx) /\ idx + 1 \in 1 .. Len(rx)
    BY <1>3, <1>t, SizesAssumption DEF TypeOK, PeekedPresent
  <2>2. rx[idx + 1] \in Frames
    BY <2>1, ElementOfSeq, Zenon
  <2>3. /\ FramesFrom(rx, idx) = FramesFrom(rx, idx + 1) \cup ({rx[idx + 1]} \cap Frames)
        /\ DistinctFrom(rx, idx)
             => DistinctFrom(rx, idx + 1) /\ rx[idx + 1] \notin FramesFrom(rx, idx + 1)
    BY <2>1, AdvanceFrames, ZenonT(30)
  <2> QED
    BY <1>t, <2>2, <2>3, Zenon DEF NoDuplicates, Received
<1>4. ASSUME pc = "process", idx < rcvd, idx' = idx + 1,
             umem_frame_addr' = Append(umem_frame_addr, rx[idx + 1]),
             UNCHANGED <<fq, nic, rx, tx, ktx, cq>>
      PROVE  FrameOwnership'
  <2> DEFINE x == rx[idx + 1]
  <2>1. /\ Received' = FramesFrom(rx, idx + 1) /\ Filled' = Filled /\ Held' = Held
        /\ Queued' = Queued /\ Sending' = Sending /\ Completed' = Completed
    BY <1>4, Zenon DEF Received, Filled, Held, Queued, Sending, Completed
  <2>2. x \notin Stacked
    BY <1>3, <1>4, <1>t, Zenon DEF Exclusive
  <2>3. umem_frame_addr \in Seq(Frames) /\ 0 \in 0 .. Len(umem_frame_addr)
    BY <1>t DEF TypeOK
  <2>4. Stacked' = Stacked \cup {x} /\ DistinctFrom(umem_frame_addr', 0)
    BY <1>3, <1>4, <1>t, <2>2, <2>3, AppendFrames, SMTT(60) DEF Stacked, NoDuplicates
  <2>5. NoDuplicates'
    BY <1>3, <1>4, <1>t, <2>4, Zenon DEF NoDuplicates
  <2> QED
    BY <1>3, <1>4, <1>t, <2>1, <2>4, <2>5, SMTT(60) DEF FrameOwnership, Exclusive, Conserved
<1>5. CASE DropPacket
  BY <1>4, <1>5, Zenon DEF DropPacket, xsk_free_umem_frame
<1>6. CASE ReplyPacket
  <2> DEFINE x == rx[idx + 1]
  <2>1. /\ pc = "process" /\ idx < rcvd /\ idx' = idx + 1
        /\ UNCHANGED <<fq, nic, rx, ktx, cq>>
    BY <1>6, Zenon DEF ReplyPacket
  <2>2. CASE tx' = Append(tx, x) /\ UNCHANGED umem_frame_addr
    <3>1. /\ Received' = FramesFrom(rx, idx + 1) /\ Stacked' = Stacked /\ Filled' = Filled
          /\ Held' = Held /\ Sending' = Sending /\ Completed' = Completed
      BY <2>1, <2>2, Zenon DEF Received, Stacked, Filled, Held, Sending, Completed
    <3>2. x \notin Queued
      BY <1>3, <1>t, <2>1, Zenon DEF Exclusive
    <3>3. tx \in Seq(Frames) /\ 0 \in 0 .. Len(tx)
      BY <1>t DEF TypeOK
    <3>4. Queued' = Queued \cup {x} /\ DistinctFrom(tx', 0)
      BY <1>3, <1>t, <2>1, <2>2, <3>2, <3>3, AppendFrames, SMTT(60) DEF Queued, NoDuplicates
    <3>5. NoDuplicates'
      BY <1>3, <1>t, <2>1, <2>2, <3>4, Zenon DEF NoDuplicates
    <3> QED
      BY <1>3, <1>t, <2>1, <3>1, <3>4, <3>5, SMTT(60) DEF FrameOwnership, Exclusive, Conserved
  <2>3. CASE umem_frame_addr' = Append(umem_frame_addr, x) /\ UNCHANGED tx
    BY <1>4, <2>1, <2>3, Zenon
  <2> QED
    BY <1>6, <2>2, <2>3, Zenon DEF ReplyPacket, xsk_free_umem_frame
<1>7. CASE ReleaseRx
  <2>1. /\ rx' = SubSeq(rx, rcvd + 1, Len(rx)) /\ idx = rcvd /\ idx' = 0
        /\ UNCHANGED <<umem_frame_addr, fq, nic, tx, ktx, cq>>
    BY <1>7, Zenon DEF ReleaseRx
  <2>2. rx \in Seq(Frames) /\ rcvd \in 0 .. Len(rx)
    BY <1>t, SizesAssumption DEF TypeOK, PeekedPresent
  <2>3. Received' = Received /\ DistinctFrom(rx', idx')
    BY <1>t, <2>1, <2>2, DropFrames, Zenon DEF Received, NoDuplicates
  <2>4. /\ Stacked' = Stacked /\ Filled' = Filled /\ Held' = Held
        /\ Queued' = Queued /\ Sending' = Sending /\ Completed' = Completed
    BY <2>1, Zenon DEF Stacked, Filled, Held, Queued, Sending, Completed
  <2>5. NoDuplicates'
    BY <1>t, <2>1, <2>3, Zenon DEF NoDuplicates
  <2> QED
    BY <1>t, <2>3, <2>4, <2>5, Zenon DEF FrameOwnership, Exclusive, Conserved
<1>8. CASE FreeCompleted
  <2> DEFINE done == SubSeq(cq, 1, completed)
  <2>1. /\ umem_frame_addr' = umem_frame_addr \o done
        /\ cq' = SubSeq(cq, completed + 1, Len(cq))
        /\ UNCHANGED <<fq, nic, rx, idx, tx, ktx>>
    BY <1>8, Zenon DEF FreeCompleted
  <2>2. umem_frame_addr \in Seq(Frames) /\ cq \in Seq(Frames) /\ completed \in 0 .. Len(cq)
    BY <1>t DEF TypeOK, PeekedPresent
  <2>3. /\ done \in Seq(Frames)
        /\ Completed = FramesFrom(done, 0) \cup FramesFrom(cq, completed)
        /\ DistinctFrom(done, 0) /\ DistinctFrom(cq, completed)
        /\ FramesFrom(done, 0) \cap FramesFrom(cq, completed) = {}
    BY <1>t, <2>2, PrefixFrames, Zenon DEF Completed, NoDuplicates
  <2>4. Completed' = FramesFrom(cq, completed) /\ DistinctFrom(cq', 0)
    BY <2>1, <2>2, <2>3, DropFrames, Zenon DEF Completed
  <2>5. Stacked \cap FramesFrom(done, 0) = {}
    BY <1>t, <2>3, Zenon DEF Exclusive
  <2> HIDE DEF done
  <2>6. Stacked' = Stacked \cup FramesFrom(done, 0) /\ DistinctFrom(umem_frame_addr', 0)
    BY <1>t, <2>1, <2>2, <2>3, <2>5, ConcatFrames, SMTT(60) DEF Stacked, NoDuplicates
  <2>7. /\ Filled' = Filled /\ Held' = Held /\ Received' = Received
        /\ Queued' = Queued /\ Sending' = Sending
    BY <2>1, Zenon DEF Filled, Held, Received, Queued, Sending
  <2>8. NoDuplicates'
    BY <1>t, <2>1, <2>4, <2>6, Zenon DEF NoDuplicates
  <2> QED
    BY <1>t, <2>3, <2>4, <2>6, <2>7, <2>8, SMTT(60) DEF FrameOwnership, Exclusive, Conserved
<1>9. CASE KernelTakeFill
  <2> DEFINE A == Frames \cup {INVALID_UMEM_FRAME}
             x == Head(fq)
  <2>1. /\ fq # <<>> /\ fq' = Tail(fq)
        /\ nic' = IF x \in Frames THEN Append(nic, x) ELSE nic
        /\ UNCHANGED <<umem_frame_addr, rx, idx, tx, ktx, cq>>
    BY <1>9, Zenon DEF KernelTakeFill, appVars
  <2>2. fq \in Seq(A) /\ nic \in Seq(Frames) /\ 0 \in 0 .. Len(nic)
    BY <1>t DEF TypeOK
  <2> HIDE DEF A
  <2>3. /\ Filled = Filled' \cup ({x} \cap Frames) /\ x \notin Filled'
        /\ DistinctFrom(fq', 0)
    BY <1>t, <2>1, <2>2, TailFrames, Zenon DEF Filled, NoDuplicates
  <2>4. Held' = Held \cup ({x} \cap Frames) /\ DistinctFrom(nic', 0)
    <3>1. CASE x \in Frames
      <4>1. x \notin Held
        BY <1>t, <2>3, <3>1, Zenon DEF Exclusive
      <4> HIDE DEF x
      <4> QED
        BY <1>t, <2>1, <2>2, <3>1, <4>1, AppendFrames, SMTT(60) DEF Held, NoDuplicates
    <3>2. CASE x \notin Frames
      BY <1>t, <2>1, <3>2, Zenon DEF Held, NoDuplicates
    <3> QED
      BY <3>1, <3>2, Zenon
  <2>5. /\ Stacked' = Stacked /\ Received' = Received /\ Queued' = Queued
        /\ Sending' = Sending /\ Completed' = Completed
    BY <2>1, Zenon DEF Stacked, Received, Queued, Sending, Completed
  <2>6. NoDuplicates'
    BY <1>t, <2>1, <2>3, <2>4, Zenon DEF NoDuplicates
  <2> HIDE DEF x
  <2> QED
    BY <1>t, <2>3, <2>4, <2>5, <2>6, SMTT(60) DEF FrameOwnership, Exclusive, Conserved
<1>10. CASE KernelDeliver
  <2> DEFINE x == Head(nic)
  <2>1. /\ nic # <<>> /\ nic' = Tail(nic) /\ rx' = Append(rx, x)
        /\ UNCHANGED <<umem_frame_addr, fq, idx, tx, ktx, cq>>
    BY <1>10, Zenon DEF KernelDeliver, appVars
  <2>2. /\ nic \in Seq(Frames) /\ rx \in Seq(Frames) /\ idx \in 0 .. Len(rx)
        /\ x \in Frames
    BY <1>t, <2>1, SizesAssumption, HeadTailProperties, SMTT(60) DEF TypeOK, PeekedPresent
  <2>3. /\ Held = Held' \cup ({x} \cap Frames) /\ x \notin Held' /\ DistinctFrom(nic', 0)
    BY <1>t, <2>1, <2>2, TailFrames, Zenon DEF Held, NoDuplicates
  <2>4. x \notin Received
    BY <1>t, <2>2, <2>3, Zenon DEF Exclusive
  <2> HIDE DEF x
  <2>5. Received' = Received \cup {x} /\ DistinctFrom(rx', idx')
    BY <1>t, <2>1, <2>2, <2>4, AppendFrames DEF Received, NoDuplicates
  <2>6. /\ Stacked' = Stacked /\ Filled' = Filled /\ Queued' = Queued
        /\ Sending' = Sending /\ Completed' = Completed
    BY <2>1, Zenon DEF Stacked, Filled, Queued, Sending, Completed
  <2>7. NoDuplicates'
    BY <1>t, <2>1, <2>3, <2>5, Zenon DEF NoDuplicates
  <2> QED
    BY <1>t, <2>2, <2>3, <2>5, <2>6, <2>7, SMTT(60) DEF FrameOwnership, Exclusive, Conserved
<1>11. CASE KernelTakeTx
  <2> DEFINE x == Head(tx)
  <2>1. /\ tx # <<>> /\ tx' = Tail(tx) /\ ktx' = ktx \cup {x}
        /\ UNCHANGED <<umem_frame_addr, fq, nic, rx, idx, cq>>
    BY <1>11, Zenon DEF KernelTakeTx, appVars
  <2>2. tx \in Seq(Frames) /\ x \in Frames
    BY <1>t, <2>1, HeadTailProperties, Zenon DEF TypeOK
  <2>3. Queued = Queued' \cup ({x} \cap Frames) /\ x \notin Queued' /\ DistinctFrom(tx', 0)
    BY <1>t, <2>1, <2>2, TailFrames, Zenon DEF Queued, NoDuplicates
  <2> HIDE DEF x
  <2>4. /\ Stacked' = Stacked /\ Filled' = Filled /\ Held' = Held /\ Received' = Received
        /\ Sending' = Sending \cup {x} /\ Completed' = Completed
    BY <2>1, Zenon DEF Stacked, Filled, Held, Received, Sending, Completed
  <2>5. NoDuplicates'
    BY <1>t, <2>1, <2>3, Zenon DEF NoDuplicates
  <2> QED
    BY <1>t, <2>2, <2>3, <2>4, <2>5, SMTT(60) DEF FrameOwnership, Exclusive, Conserved
<1>12. ASSUME NEW f \in Frames, KernelComplete(f) PROVE FrameOwnership'
  <2>1. /\ f \in ktx /\ ktx' = ktx \ {f} /\ cq' = Append(cq, f)
        /\ UNCHANGED <<umem_frame_addr, fq, nic, rx, idx, tx>>
    BY <1>12, Zenon DEF KernelComplete, appVars
  <2>2. cq \in Seq(Frames) /\ 0 \in 0 .. Len(cq)
    BY <1>t DEF TypeOK
  <2>3. f \notin Completed
    BY <1>t, <2>1, Zenon DEF Exclusive, Sending
  <2>4. Completed' = Completed \cup {f} /\ DistinctFrom(cq', 0)
    BY <1>t, <2>1, <2>2, <2>3, AppendFrames, SMTT(60) DEF Completed, NoDuplicates
  <2>5. /\ Stacked' = Stacked /\ Filled' = Filled /\ Held' = Held /\ Received' = Received
        /\ Queued' = Queued /\ Sending' = Sending \ {f} /\ f \in Sending
    BY <2>1, Zenon DEF Stacked, Filled, Held, Received, Queued, Sending
  <2>6. NoDuplicates'
    BY <1>t, <2>1, <2>4, Zenon DEF NoDuplicates
  <2> QED
    BY <1>t, <2>4, <2>5, <2>6, SMTT(60) DEF FrameOwnership, Exclusive, Conserved
<1> QED
  BY <1>1, <1>2, <1>5, <1>6, <1>7, <1>8, <1>9, <1>10, <1>11, <1>12, Zenon
     DEF Next, AppNext, KernelTx

\* For every UMEM and all ring sizes: the fields and locals keep their types;
\* the producer rings are never overrun, however stale the cached indices; no
\* entry is read or released before the kernel produced it; the retry loop of
\* handle_receive_packets is dead code.
THEOREM SwitchShape == Spec => [](TypeOK /\ RingsRespected)
<1>1. Shape => TypeOK /\ RingsRespected
  BY Zenon DEF Shape, RingsRespected
<1> QED
  BY <1>1, ShapeInit, ShapeStep, PTL DEF Spec

\* Every frame of the UMEM is in exactly one place at all times.
THEOREM SwitchOwnership == Spec => []FrameOwnership
BY ShapeInit, ShapeStep, OwnershipInit, OwnershipStep, PTL DEF Spec

-----------------------------------------------------------------------------
(* The allocator's assertion and the transmission counter *)

\* The stack, without the frame about to be freed, is short of NUM_FRAMES: it
\* repeats no frame, and that frame is in rx or in the completion ring.
LEMMA AssertionHolds == Shape /\ FrameOwnership => FreeAssertion
<1> SUFFICES ASSUME Shape, FrameOwnership PROVE FreeAssertion
  BY Zenon
<1>t. /\ umem_frame_addr \in Seq(Frames) /\ rx \in Seq(Frames) /\ cq \in Seq(Frames)
      /\ DistinctFrom(umem_frame_addr, 0) /\ DistinctFrom(cq, 0)
      /\ Exclusive
  BY Zenon DEF Shape, TypeOK, FrameOwnership, NoDuplicates
<1>1. ASSUME pc = "process", idx < rcvd PROVE Len(umem_frame_addr) < NUM_FRAMES
  <2> DEFINE x == rx[idx + 1]
             T == Frames \ {x}
  <2>1. idx \in Nat /\ Len(rx) \in Nat /\ idx + 1 \in 1 .. Len(rx)
    BY <1>1, SizesAssumption DEF Shape, TypeOK, PeekedPresent
  <2>2. x \in Frames
    BY <1>t, <2>1, ElementOfSeq, Zenon
  <2>3. x \in Received
    BY <2>1, <2>2, SMTT(60) DEF Received, FramesFrom
  <2>4. Stacked \subseteq T
    BY <1>t, <2>3, Zenon DEF Exclusive, Stacked, FramesFrom
  <2> HIDE DEF x
  <2>5. Len(umem_frame_addr) <= Cardinality(T)
    BY <1>t, <2>4, DistinctLength, Zenon DEF Stacked
  <2>6. Cardinality(T) = NUM_FRAMES - 1 /\ NUM_FRAMES \in Nat
    BY <2>2, FramesAssumption, FS_RemoveElement, FS_CardinalityType, Zenon DEF NUM_FRAMES
  <2>7. Len(umem_frame_addr) \in Nat
    BY <1>t
  <2> QED
    BY <2>5, <2>6, <2>7
<1>2. ASSUME pc = "free" PROVE Len(umem_frame_addr) + completed <= NUM_FRAMES
  <2> DEFINE done == SubSeq(cq, 1, completed)
             s == umem_frame_addr \o done
  <2>1. completed \in 0 .. Len(cq)
    BY <1>t DEF Shape, TypeOK, PeekedPresent
  <2>2. /\ done \in Seq(Frames) /\ Len(done) = completed
        /\ FramesFrom(done, 0) \subseteq Completed /\ DistinctFrom(done, 0)
    BY <1>t, <2>1, PrefixFrames DEF Completed
  <2>3. Stacked \cap FramesFrom(done, 0) = {}
    BY <1>t, <2>2, Zenon DEF Exclusive
  <2> HIDE DEF done
  <2>4. DistinctFrom(s, 0)
    BY <1>t, <2>2, <2>3, ConcatFrames, Zenon DEF Stacked
  <2>5. s \in Seq(Frames) /\ Len(s) = Len(umem_frame_addr) + completed
    BY <1>t, <2>2, ConcatProperties, Zenon
  <2>6. FramesFrom(s, 0) \subseteq Frames
    BY Zenon DEF FramesFrom
  <2> HIDE DEF s
  <2>7. Len(s) <= Cardinality(Frames)
    BY <2>4, <2>5, <2>6, DistinctLength, Zenon
  <2> QED
    BY <2>5, <2>7, Zenon DEF NUM_FRAMES
<1> QED
  BY <1>1, <1>2, Zenon DEF FreeAssertion

\* assert(xsk->umem_frame_free < NUM_FRAMES) never fails in
\* xsk_free_umem_frame, so the stack never outgrows its array.
THEOREM SwitchAssertion == Spec => []FreeAssertion
BY ShapeInit, ShapeStep, OwnershipInit, OwnershipStep, AssertionHolds, PTL DEF Spec

\* A frame is counted when it is queued and discounted when it is collected;
\* in between it only moves from tx to ktx to the completion ring.
LEMMA OutstandingStep ==
  Shape /\ FrameOwnership /\ OutstandingExact /\ [Next]_vars => OutstandingExact'
<1> SUFFICES ASSUME Shape, FrameOwnership, OutstandingExact, [Next]_vars
             PROVE  OutstandingExact'
  BY Zenon
<1>t. /\ tx \in Seq(Frames) /\ cq \in Seq(Frames) /\ rx \in Seq(Frames)
      /\ ktx \in SUBSET Frames /\ Len(tx) \in Nat /\ Len(cq) \in Nat
      /\ outstanding_tx \in Nat /\ completed \in 0 .. Len(cq)
  BY SMTT(60) DEF Shape, TypeOK, PeekedPresent
<1>k. IsFiniteSet(ktx) /\ Cardinality(ktx) \in Nat
  BY <1>t, FramesAssumption, FS_Subset, FS_CardinalityType, Zenon
<1>e. outstanding_tx = Len(tx) + Cardinality(ktx) + Len(cq)
  BY Zenon DEF OutstandingExact
<1>1. CASE UNCHANGED <<outstanding_tx, tx, ktx, cq>>
  BY <1>1, <1>e, Zenon DEF OutstandingExact
<1>2. CASE ReplyPacket
  <2>1. CASE UNCHANGED <<tx, outstanding_tx>>
    BY <1>1, <1>2, <2>1, Zenon DEF ReplyPacket
  <2>2. CASE tx' = Append(tx, rx[idx + 1]) /\ outstanding_tx' = outstanding_tx + 1
    <3>1. Len(tx') = Len(tx) + 1 /\ ktx' = ktx /\ cq' = cq
      BY <1>2, <1>t, <2>2 DEF ReplyPacket
    <3> QED
      BY <1>t, <1>k, <1>e, <2>2, <3>1, SMTT(60) DEF OutstandingExact
  <2> QED
    BY <1>2, <2>1, <2>2, Zenon DEF ReplyPacket
<1>3. CASE FreeCompleted
  <2>1. /\ tx' = tx /\ ktx' = ktx
        /\ outstanding_tx' = outstanding_tx - Least(completed, outstanding_tx)
    BY <1>3, Zenon DEF FreeCompleted
  <2>2. Len(cq') = Len(cq) - completed
    BY <1>3, <1>t, ReleaseType, Zenon DEF FreeCompleted
  <2>3. Least(completed, outstanding_tx) = completed
    BY <1>t, <1>k, <1>e DEF Least
  <2> QED
    BY <1>t, <1>k, <1>e, <2>1, <2>2, <2>3, SMTT(60) DEF OutstandingExact
<1>4. CASE KernelTakeTx
  <2>1. /\ tx # <<>> /\ tx' = Tail(tx) /\ ktx' = ktx \cup {Head(tx)}
        /\ UNCHANGED <<outstanding_tx, cq>>
    BY <1>4, Zenon DEF KernelTakeTx, appVars
  <2>2. Head(tx) \in Frames /\ Len(tx') = Len(tx) - 1
    BY <1>t, <2>1, HeadTailProperties, Zenon
  <2>3. Head(tx) \notin ktx
    <3>1. Head(tx) \in Queued
      BY <1>t, <2>1, <2>2, TailFrames DEF Queued
    <3> QED
      BY <3>1, Zenon DEF FrameOwnership, Exclusive, Sending
  <2>4. Cardinality(ktx \cup {Head(tx)}) = Cardinality(ktx) + 1
    BY ONLY <1>k, <2>3, FS_AddElement, Zenon
  <2> QED
    BY <1>t, <1>k, <1>e, <2>1, <2>2, <2>4, SMTT(30) DEF OutstandingExact
<1>5. ASSUME NEW f \in Frames, KernelComplete(f) PROVE OutstandingExact'
  <2>1. /\ f \in ktx /\ ktx' = ktx \ {f} /\ cq' = Append(cq, f)
        /\ UNCHANGED <<outstanding_tx, tx>>
    BY <1>5, Zenon DEF KernelComplete, appVars
  <2>2. Len(cq') = Len(cq) + 1
    BY <1>t, <2>1
  <2>3. Cardinality(ktx \ {f}) = Cardinality(ktx) - 1
    BY ONLY <1>k, <2>1, FS_RemoveElement, ZenonT(30)
  <2>4. Cardinality(ktx') = Cardinality(ktx) - 1
    BY <2>1, <2>3, Zenon
  <2>5. outstanding_tx' = outstanding_tx /\ Len(tx') = Len(tx)
    BY <2>1, Zenon
  <2>6. outstanding_tx' = Len(tx') + Cardinality(ktx') + Len(cq')
    BY ONLY <1>t, <1>k, <1>e, <2>2, <2>4, <2>5, SMTT(30)
  <2> QED
    BY <2>6, Zenon DEF OutstandingExact
<1>6. CASE \/ LoopTest \/ PollReady \/ PollFails \/ PeekRx \/ StockFrames \/ ReserveFill
           \/ SubmitFill \/ DropPacket \/ ReleaseRx \/ SendTo \/ PeekCompleted
           \/ ExitApplication \/ KernelTakeFill \/ KernelDeliver \/ UNCHANGED vars
  BY <1>1, <1>6, Zenon DEF LoopTest, PollReady, PollFails, PeekRx, StockFrames, ReserveFill,
     SubmitFill, DropPacket, ReleaseRx, SendTo, PeekCompleted, ExitApplication,
     KernelTakeFill, KernelDeliver, appVars, vars
<1> QED
  BY <1>2, <1>3, <1>4, <1>5, <1>6, Zenon DEF Next, AppNext, KernelTx

\* outstanding_tx is exact: the clamp in complete_tx never bites, and the test
\* that skips the wake-up skips it only when nothing is left to send or collect.
THEOREM SwitchOutstanding == Spec => []OutstandingExact
<1>1. Init => OutstandingExact
  BY FS_EmptySet DEF Init, OutstandingExact
<1> QED
  BY <1>1, ShapeInit, ShapeStep, OwnershipInit, OwnershipStep, OutstandingStep, PTL
     DEF Spec

-----------------------------------------------------------------------------
(* Running out of frames *)

\* With no frame in reach, those that are not on the stack are in transmission.
LEMMA AllSent ==
  TypeOK /\ Conserved /\ OutstandingExact /\ InReach = {}
    => outstanding_tx + Len(umem_frame_addr) >= NUM_FRAMES
<1> SUFFICES ASSUME TypeOK, Conserved, OutstandingExact, InReach = {}
             PROVE  outstanding_tx + Len(umem_frame_addr) >= NUM_FRAMES
  BY Zenon
<1>1. /\ umem_frame_addr \in Seq(Frames) /\ tx \in Seq(Frames) /\ cq \in Seq(Frames)
      /\ ktx \in SUBSET Frames
  BY Zenon DEF TypeOK
<1>2. Len(umem_frame_addr) \in Nat /\ Len(tx) \in Nat /\ Len(cq) \in Nat
  BY <1>1
<1>3. /\ IsFiniteSet(Stacked) /\ Cardinality(Stacked) \in Nat
      /\ Cardinality(Stacked) <= Len(umem_frame_addr)
      /\ IsFiniteSet(Queued) /\ Cardinality(Queued) \in Nat /\ Cardinality(Queued) <= Len(tx)
      /\ IsFiniteSet(Completed) /\ Cardinality(Completed) \in Nat
      /\ Cardinality(Completed) <= Len(cq)
  BY <1>1, FramesBound, Zenon DEF Stacked, Queued, Completed
<1>4. IsFiniteSet(ktx) /\ Cardinality(ktx) \in Nat
  BY <1>1, FramesAssumption, FS_Subset, FS_CardinalityType, Zenon
<1>5. Frames \subseteq (Stacked \cup Queued) \cup (ktx \cup Completed)
  BY Zenon DEF Conserved, InReach, Sending
<1>6. /\ IsFiniteSet(Stacked \cup Queued)
      /\ Cardinality(Stacked \cup Queued) \in Nat
      /\ Cardinality(Stacked \cup Queued) <= Cardinality(Stacked) + Cardinality(Queued)
  BY ONLY <1>3, UnionBound, Zenon
<1>7. /\ IsFiniteSet(ktx \cup Completed)
      /\ Cardinality(ktx \cup Completed) \in Nat
      /\ Cardinality(ktx \cup Completed) <= Cardinality(ktx) + Cardinality(Completed)
  BY ONLY <1>3, <1>4, UnionBound, Zenon
<1> DEFINE U == (Stacked \cup Queued) \cup (ktx \cup Completed)
<1>8. /\ IsFiniteSet(U) /\ Cardinality(U) \in Nat
      /\ Cardinality(U) <= Cardinality(Stacked \cup Queued) + Cardinality(ktx \cup Completed)
  BY ONLY <1>6, <1>7, UnionBound, Zenon
<1>9. Cardinality(Frames) <= Cardinality(U) /\ Cardinality(Frames) \in Nat
  BY <1>5, <1>8, FS_Subset, FramesAssumption, FS_CardinalityType, Zenon
<1> HIDE DEF U
<1>10. Cardinality(Frames) <= Len(umem_frame_addr) + Len(tx) + Cardinality(ktx) + Len(cq)
  BY ONLY <1>2, <1>3, <1>4, <1>6, <1>7, <1>8, <1>9, SMTT(60)
<1> QED
  BY <1>2, <1>4, <1>9, <1>10 DEF OutstandingExact, NUM_FRAMES

\* A frame the driver takes stays in reach.
LEMMA TakenFill ==
  ASSUME TypeOK, KernelTakeFill
  PROVE  Filled' \cup Held' = Filled \cup Held
<1> DEFINE x == Head(fq)
<1>1. /\ fq \in Seq(Frames \cup {INVALID_UMEM_FRAME}) /\ fq # <<>> /\ fq' = Tail(fq)
      /\ nic \in Seq(Frames) /\ nic' = (IF x \in Frames THEN Append(nic, x) ELSE nic)
  BY Zenon DEF KernelTakeFill, TypeOK
<1>2. Filled = Filled' \cup ({x} \cap Frames)
  BY <1>1, TailFrames, Zenon DEF Filled
<1>3. Held' = Held \cup ({x} \cap Frames)
  <2>1. CASE x \in Frames
    <3>1. 0 \in 0 .. Len(nic) /\ nic' = Append(nic, x)
      BY <1>1, <2>1
    <3>2. FramesFrom(Append(nic, x), 0) = FramesFrom(nic, 0) \cup {x}
      BY <1>1, <2>1, <3>1, AppendFrames, SMTT(60)
    <3> QED
      BY <2>1, <3>1, <3>2, Zenon DEF Held
  <2>2. CASE x \notin Frames
    BY <1>1, <2>2, Zenon DEF Held
  <2> QED
    BY <2>1, <2>2, Zenon
<1> HIDE DEF x
<1> QED
  BY <1>2, <1>3, Zenon

\* So does one that is delivered, past any number of entries of the rx ring.
LEMMA Delivered ==
  ASSUME TypeOK, KernelDeliver, NEW k \in 0 .. Len(rx)
  PROVE  Held' \cup FramesFrom(rx', k) = Held \cup FramesFrom(rx, k)
<1> DEFINE x == Head(nic)
<1>1. /\ nic \in Seq(Frames) /\ nic # <<>> /\ nic' = Tail(nic)
      /\ rx \in Seq(Frames) /\ rx' = Append(rx, x)
  BY Zenon DEF KernelDeliver, TypeOK
<1>2. x \in Frames
  BY <1>1, HeadTailProperties, Zenon
<1>3. Held = Held' \cup {x}
  BY <1>1, <1>2, TailFrames DEF Held
<1>4. FramesFrom(rx', k) = FramesFrom(rx, k) \cup {x}
  BY <1>1, <1>2, AppendFrames
<1> HIDE DEF x
<1> QED
  BY <1>3, <1>4, Zenon

\* The inductive core: a full fill ring holds a frame, a refill belongs to a
\* batch, and past it either something is in reach or the stack has only what
\* the batch freed.
LEMMA FedStep ==
  Shape /\ FullHasFrame /\ Fed /\ [Next]_vars => FullHasFrame' /\ Fed'
<1> SUFFICES ASSUME Shape, FullHasFrame, Fed, [Next]_vars
             PROVE  FullHasFrame' /\ Fed'
  BY Zenon
<1>t. TypeOK /\ NoOverrun /\ PeekedPresent /\ Control
  BY Zenon DEF Shape
<1> DEFINE rest == FramesFrom(rx, rcvd)
<1>1. ASSUME UNCHANGED <<fq, nic, rx>>
      PROVE  FullHasFrame' /\ Filled' = Filled /\ Held' = Held
  BY <1>1, Zenon DEF FullHasFrame, Filled, Held
<1>2. ASSUME UNCHANGED <<fq, nic, rx, rcvd>>,
             pc' \in {"stock", "reserve", "fill"} => pc \in {"stock", "reserve", "fill"},
             pc' = "process" => pc = "process" /\ UNCHANGED <<umem_frame_addr, idx>>
      PROVE  FullHasFrame' /\ Fed'
  BY <1>1, <1>2, Zenon DEF Fed
<1>3. CASE \/ LoopTest \/ PollReady \/ PollFails \/ SendTo \/ PeekCompleted \/ FreeCompleted
           \/ ExitApplication \/ KernelTakeTx \/ UNCHANGED vars
           \/ \E f \in Frames : KernelComplete(f)
  BY <1>2, <1>3, Zenon DEF LoopTest, PollReady, PollFails, SendTo,
     PeekCompleted, FreeCompleted, ExitApplication, KernelTakeTx, KernelComplete,
     appVars, vars
<1>4. CASE PeekRx
  <2> DEFINE entries == xsk_cons_nb_avail(rx_avail, Len(rx))
             n == Least(entries, RX_BATCH_SIZE)
  <2>1. /\ UNCHANGED <<fq, nic, rx>> /\ rcvd' = n
        /\ pc' = IF n = 0 THEN "loop" ELSE "stock"
    BY <1>4, Zenon DEF PeekRx
  <2>2. entries \in Nat
    BY <1>t DEF xsk_cons_nb_avail, TypeOK
  <2> HIDE DEF entries
  <2>3. n \in Nat
    BY <2>2, SizesAssumption DEF Least
  <2> HIDE DEF n
  <2>4. pc' \in {"loop", "stock"} /\ (pc' = "stock" => rcvd' > 0)
    BY <2>1, <2>3
  <2> QED
    BY <1>1, <2>1, <2>4, Zenon DEF Fed
<1>5. CASE StockFrames
  <2>1. /\ UNCHANGED <<umem_frame_addr, fq, nic, rx, rcvd, idx>> /\ pc = "stock" /\ idx = 0
        /\ fq_free = 0 /\ stock_frames' = fq_free'
        /\ fq_free' = xsk_prod_nb_free(fq_free, Len(fq), FQ_SIZE, Len(umem_frame_addr))
        /\ pc' = IF stock_frames' > 0 THEN "reserve" ELSE "process"
    BY <1>5, <1>t, Zenon DEF StockFrames, Control
  <2>2. CASE pc' = "reserve"
    BY <1>1, <2>1, <2>2, Zenon DEF Fed
  <2>3. CASE pc' = "process"
    <3>1. /\ umem_frame_addr \in Seq(Frames) /\ Len(umem_frame_addr) \in Nat
          /\ Len(fq) \in Nat /\ Len(fq) <= FQ_SIZE /\ FQ_SIZE \in Nat
      BY <1>t, SizesAssumption DEF TypeOK, NoOverrun
    <3>2. Len(umem_frame_addr) <= idx \/ Len(fq) = FQ_SIZE
      BY <2>1, <2>3, <3>1 DEF xsk_prod_nb_free
    <3>3. Filled \cup Held \cup rest # {} \/ Len(umem_frame_addr) <= idx
      BY <3>2, Zenon DEF FullHasFrame
    <3> QED
      BY <1>1, <2>1, <2>3, <3>3, Zenon DEF Fed
  <2> QED
    BY <2>1, <2>2, <2>3, Zenon
<1>6. CASE ReserveFill
  <2>1. UNCHANGED <<fq, nic, rx, rcvd>> /\ pc = "reserve" /\ pc' = "fill"
    BY <1>6, <1>t, SizesAssumption, SMTT(60)
       DEF ReserveFill, Control, TypeOK, xsk_prod_nb_free
  <2> QED
    BY <1>2, <2>1, Zenon
<1>7. CASE SubmitFill
  <2> DEFINE s == umem_frame_addr
             x == s[Len(s)]
  <2>1. /\ s \in Seq(Frames) /\ s # <<>> /\ stock_frames \in Nat /\ stock_frames > 0
        /\ fq \in Seq(Frames \cup {INVALID_UMEM_FRAME})
        /\ fq' = fq \o AllocFrames(stock_frames) /\ pc' = "process"
    BY <1>7, <1>t, SizesAssumption DEF SubmitFill, TypeOK, Control
  <2>2. Len(s) \in Nat /\ Len(s) > 0 /\ x \in Frames
    BY <2>1, EmptySeq
  <2>3. Filled' = Filled \cup FramesFrom(AllocFrames(stock_frames), 0)
    <3>1. AllocFrames(stock_frames) \in Seq(Frames \cup {INVALID_UMEM_FRAME})
      BY <2>1, AllocType, Zenon
    <3>2. FramesFrom(fq \o AllocFrames(stock_frames), 0)
            = FramesFrom(fq, 0) \cup FramesFrom(AllocFrames(stock_frames), 0)
      BY <2>1, <3>1, ConcatFrames, SMTT(60)
    <3> QED
      BY <2>1, <3>2, Zenon DEF Filled
  <2>4. Len(AllocFrames(stock_frames)) = stock_frames /\ AllocFrames(stock_frames)[1] = x
    BY <2>1, <2>2, AllocType, SMTT(60) DEF AllocFrames
  <2>5. x \in FramesFrom(AllocFrames(stock_frames), 0)
    BY <2>1, <2>2, <2>4 DEF FramesFrom
  <2> QED
    BY <2>1, <2>3, <2>5, Zenon DEF FullHasFrame, Fed
<1>8. CASE DropPacket \/ ReplyPacket
  <2>1. /\ UNCHANGED <<fq, nic, rx, rcvd>> /\ pc = "process" /\ pc' = "process"
        /\ idx' = idx + 1
        /\ \/ umem_frame_addr' = umem_frame_addr
           \/ umem_frame_addr' = Append(umem_frame_addr, rx[idx + 1])
    BY <1>8, Zenon DEF DropPacket, ReplyPacket, xsk_free_umem_frame
  <2>2. idx \in Nat /\ umem_frame_addr \in Seq(Frames)
    BY <1>t, SizesAssumption DEF TypeOK
  <2>3. Len(umem_frame_addr) <= idx => Len(umem_frame_addr') <= idx'
    BY <2>1, <2>2
  <2> QED
    BY <1>1, <2>1, <2>3, Zenon DEF Fed
<1>9. CASE ReleaseRx
  <2>1. UNCHANGED <<fq, nic>> /\ pc' \in {"loop", "sendto"}
    BY <1>9, Zenon DEF ReleaseRx
  <2> QED
    BY <2>1, Zenon DEF Fed, FullHasFrame, Filled
<1>10. CASE KernelTakeFill
  <2>1. /\ fq \in Seq(Frames \cup {INVALID_UMEM_FRAME}) /\ fq # <<>> /\ Len(fq) \in Nat
        /\ Len(fq) <= FQ_SIZE /\ fq' = Tail(fq)
        /\ UNCHANGED <<rx, rcvd, pc, umem_frame_addr, idx>> /\ FQ_SIZE \in Nat
    BY <1>10, <1>t, SizesAssumption, SMTT(60) DEF KernelTakeFill, TypeOK, NoOverrun, appVars
  <2>2. Filled' \cup Held' = Filled \cup Held
    BY <1>10, <1>t, TakenFill, Zenon
  <2>3. Len(fq') # FQ_SIZE
    BY <2>1, EmptySeq, HeadTailProperties
  <2> QED
    BY <2>1, <2>2, <2>3, Zenon DEF FullHasFrame, Fed
<1>11. CASE KernelDeliver
  <2>1. rcvd \in 0 .. Len(rx) /\ UNCHANGED <<fq, rcvd, pc, umem_frame_addr, idx>>
    BY <1>11, <1>t, SizesAssumption DEF KernelDeliver, TypeOK, PeekedPresent, appVars
  <2>2. Held' \cup FramesFrom(rx', rcvd) = Held \cup rest
    BY <1>11, <1>t, <2>1, Delivered, Zenon
  <2>3. Filled' = Filled /\ FullHasFrame'
    BY <2>1, Zenon DEF Filled, FullHasFrame
  <2> QED
    BY <2>1, <2>2, <2>3, Zenon DEF Fed
<1> QED
  BY <1>3, <1>4, <1>5, <1>6, <1>7, <1>8, <1>9, <1>10, <1>11, Zenon DEF Next, AppNext, KernelTx

\* A step that leaves the fill ring, the driver and the rx ring alone leaves
\* the frames in reach alone, and so do those that move a frame between them
\* and the end of a batch.
LEMMA ReachStep ==
  ASSUME Shape, Fed, [Next]_vars
  PROVE  \/ InReach' = InReach
         \/ DropPacket \/ ReplyPacket
         \/ pc \in {"fill"} /\ InReach # {} /\ InReach' # {}
<1>t. TypeOK /\ PeekedPresent /\ Control
  BY Zenon DEF Shape
<1>1. ASSUME UNCHANGED <<fq, nic, rx, idx>> PROVE InReach' = InReach
  BY <1>1, Zenon DEF InReach, Filled, Held, Received
<1>2. CASE \/ LoopTest \/ PollReady \/ PollFails \/ StockFrames \/ ReserveFill \/ SendTo
           \/ PeekCompleted \/ FreeCompleted \/ ExitApplication \/ KernelTakeTx
           \/ UNCHANGED vars \/ \E f \in Frames : KernelComplete(f)
  BY <1>1, <1>2, Zenon DEF LoopTest, PollReady, PollFails, StockFrames, ReserveFill, SendTo,
     PeekCompleted, FreeCompleted, ExitApplication, KernelTakeTx, KernelComplete,
     appVars, vars
<1>3. CASE PeekRx
  <2>1. UNCHANGED <<fq, nic, rx, idx>>
    BY <1>3, <1>t, Zenon DEF PeekRx, Control
  <2> QED
    BY <1>1, <2>1, Zenon
<1>4. CASE SubmitFill
  <2>1. /\ pc = "fill" /\ UNCHANGED <<rx, idx>> /\ rcvd > 0 /\ idx = 0
        /\ rx \in Seq(Frames) /\ rcvd \in Nat /\ rcvd <= Len(rx)
    BY <1>4, <1>t, SizesAssumption DEF SubmitFill, Fed, Control, TypeOK, PeekedPresent
  <2>2. rx[1] \in Frames /\ 1 \in 0 + 1 .. Len(rx)
    BY <2>1
  <2>3. rx[1] \in Received
    BY <2>1, <2>2 DEF Received, FramesFrom
  <2>4. Received' = Received
    BY <2>1, Zenon DEF Received
  <2> QED
    BY <2>1, <2>3, <2>4, Zenon DEF InReach
<1>5. CASE ReleaseRx
  <2>1. /\ rx \in Seq(Frames) /\ rcvd \in 0 .. Len(rx) /\ idx = rcvd
        /\ rx' = SubSeq(rx, rcvd + 1, Len(rx)) /\ idx' = 0
        /\ UNCHANGED <<fq, nic>>
    BY <1>5, <1>t, SizesAssumption DEF ReleaseRx, TypeOK, PeekedPresent
  <2>2. Received' = Received
    BY <2>1, DropFrames, Zenon DEF Received
  <2> QED
    BY <2>1, <2>2, Zenon DEF InReach, Filled, Held
<1>6. CASE KernelTakeFill
  <2>1. UNCHANGED <<rx, idx>>
    BY <1>6, Zenon DEF KernelTakeFill, appVars
  <2>2. Filled' \cup Held' = Filled \cup Held
    BY <1>6, <1>t, TakenFill, Zenon
  <2> QED
    BY <2>1, <2>2, Zenon DEF InReach, Received
<1>7. CASE KernelDeliver
  <2>1. idx \in 0 .. Len(rx) /\ UNCHANGED <<fq, idx>>
    BY <1>7, <1>t, SizesAssumption DEF KernelDeliver, TypeOK, PeekedPresent, appVars
  <2>2. Held' \cup FramesFrom(rx', idx) = Held \cup FramesFrom(rx, idx)
    BY <1>7, <1>t, <2>1, Delivered, Zenon
  <2> QED
    BY <2>1, <2>2, Zenon DEF InReach, Filled, Received
<1> QED
  BY <1>2, <1>3, <1>4, <1>5, <1>6, <1>7, Zenon DEF Next, AppNext, KernelTx

\* Dealing with a packet takes its frame out of reach; if it was the last one
\* the stack has no more frames than the batch, and the rest is being sent.
LEMMA LastInReach ==
  ASSUME Shape, Fed, DropPacket \/ ReplyPacket,
         TypeOK', Conserved', OutstandingExact'
  PROVE  /\ InReach # {}
         /\ InReach' = {} => outstanding_tx' + RX_BATCH_SIZE >= NUM_FRAMES
<1>1. /\ UNCHANGED <<fq, nic, rx, rcvd>> /\ pc = "process" /\ idx < rcvd /\ idx' = idx + 1
      /\ \/ umem_frame_addr' = umem_frame_addr
         \/ umem_frame_addr' = Append(umem_frame_addr, rx[idx + 1])
  BY Zenon DEF DropPacket, ReplyPacket, xsk_free_umem_frame
<1>2. /\ idx \in Nat /\ rcvd \in Nat /\ rcvd <= RX_BATCH_SIZE /\ RX_BATCH_SIZE \in Nat
      /\ rx \in Seq(Frames) /\ rcvd <= Len(rx) /\ umem_frame_addr \in Seq(Frames)
  BY SizesAssumption DEF Shape, TypeOK, PeekedPresent
<1>3. idx + 1 \in idx + 1 .. Len(rx) /\ rx[idx + 1] \in Frames
  BY <1>1, <1>2
<1>4. rx[idx + 1] \in Received
  BY <1>3, Zenon DEF Received, FramesFrom
<1>5. ASSUME InReach' = {} PROVE outstanding_tx' + RX_BATCH_SIZE >= NUM_FRAMES
  <2>1. \A i \in rcvd + 1 .. Len(rx) : i \in idx' + 1 .. Len(rx')
    BY <1>1, <1>2
  <2>2. FramesFrom(rx, rcvd) \subseteq Received'
    BY <1>1, <2>1, Zenon DEF Received, FramesFrom
  <2>3. Filled \cup Held \cup FramesFrom(rx, rcvd) = {}
    BY <1>1, <1>5, <2>2, Zenon DEF InReach, Filled, Held
  <2>4. Len(umem_frame_addr) <= idx
    BY <1>1, <2>3, Zenon DEF Fed
  <2>5. Len(umem_frame_addr') \in Nat /\ Len(umem_frame_addr') <= RX_BATCH_SIZE
    BY <1>1, <1>2, <2>4
  <2>6. outstanding_tx' + Len(umem_frame_addr') >= NUM_FRAMES
    <3>1. (TypeOK /\ Conserved /\ OutstandingExact /\ InReach = {}
            => outstanding_tx + Len(umem_frame_addr) >= NUM_FRAMES)'
      BY AllSent, PTL
    <3> QED
      BY <1>5, <3>1, Zenon
  <2>7. outstanding_tx' \in Nat /\ NUM_FRAMES \in Nat
    BY FramesAssumption, FS_CardinalityType DEF TypeOK, NUM_FRAMES
  <2> DEFINE l == Len(umem_frame_addr')
             o == outstanding_tx'
  <2>8. /\ l \in Nat /\ l <= RX_BATCH_SIZE /\ o + l >= NUM_FRAMES
        /\ o \in Nat /\ NUM_FRAMES \in Nat /\ RX_BATCH_SIZE \in Nat
    BY <1>2, <2>5, <2>6, <2>7, Zenon
  <2> HIDE DEF l, o
  <2>9. o + RX_BATCH_SIZE >= NUM_FRAMES
    BY ONLY <2>8
  <2> QED
    BY <2>9, Zenon DEF o
<1> QED
  BY <1>4, <1>5, Zenon DEF InReach

\* When the switch runs out of frames to receive into, all but at most one
\* batch of the UMEM is in transmission; from then on it never receives again.
\* So the refill of handle_receive_packets is enough unless the transmit side
\* holds that many frames: rings that cannot hold them exclude it, the default
\* sizes of libbpf (2048 + 2048 entries for 4096 frames) do not.
THEOREM SwitchStarves == Spec => StarvedBySending
<1>1. Init => FullHasFrame /\ Fed
  <2> SUFFICES ASSUME Init PROVE Filled # {} /\ pc = "loop"
    BY Zenon DEF FullHasFrame, Fed
  <2>1. PICK all \in [1 .. NUM_FRAMES -> Frames] :
          fq = [i \in 1 .. FQ_SIZE |-> all[NUM_FRAMES + 1 - i]]
    BY Zenon DEF Init
  <2>2. NUM_FRAMES \in Nat /\ FQ_SIZE \in Nat /\ 1 <= FQ_SIZE /\ FQ_SIZE <= NUM_FRAMES
    BY FramesAssumption, SizesAssumption, EnoughToFill, FS_CardinalityType DEF NUM_FRAMES
  <2>3. Len(fq) = FQ_SIZE /\ fq[1] \in Frames
    BY <2>1, <2>2
  <2>4. Filled # {}
    BY <2>2, <2>3 DEF Filled, FramesFrom
  <2> QED
    BY <2>4, Zenon DEF Init
<1> DEFINE Step == /\ InReach # {} /\ InReach' = {}
                        => outstanding_tx' + RX_BATCH_SIZE >= NUM_FRAMES
                   /\ InReach = {} => InReach' = {}
<1>2. ASSUME Shape, Fed, [Next]_vars, Shape', FrameOwnership', OutstandingExact'
      PROVE  Step
  <2>1. TypeOK' /\ Conserved'
    BY <1>2, Zenon DEF Shape, FrameOwnership
  <2>2. CASE DropPacket \/ ReplyPacket
    BY <1>2, <2>1, <2>2, LastInReach, Zenon
  <2>3. CASE InReach' = InReach \/ (InReach # {} /\ InReach' # {})
    BY <2>3, Zenon
  <2> QED
    BY <1>2, <2>2, <2>3, ReachStep, Zenon
<1>3. ASSUME Shape, Fed, [Next]_vars, Shape', FrameOwnership', OutstandingExact'
      PROVE  [Step]_vars
  BY <1>2, <1>3, Zenon
<1> QED
  BY <1>1, <1>3, FedStep, ShapeInit, ShapeStep, SwitchOwnership, SwitchOutstanding, PTL
     DEF Spec, StarvedBySending

-----------------------------------------------------------------------------
(***************************************************************************)
(* The whole program implements the packet loop of XskSwitch: what is      *)
(* proved of the loop holds between any set-up and any clean-up.  Ladder   *)
(* says what is held at each call, which makes UserOrder inductive.        *)
(***************************************************************************)

Calls == {"thread", "start", "find_map", "buffer", "umem", "socket", "stats", "loop",
          "delete_socket", "delete_umem", "detach", "done", "undetached", "failed"}

Ladder ==
  /\ at \in Calls
  /\ held \subseteq {"program", "umem", "socket"}
  /\ "umem" \in held <=> at \in {"socket", "stats", "loop", "delete_socket", "delete_umem"}
  /\ "socket" \in held <=> at \in {"stats", "loop", "delete_socket"}
  /\ at \in {"stats", "loop", "delete_socket", "delete_umem", "detach"} => "program" \in held
  /\ at \in {"thread", "start", "done"} => held = {}
  /\ at \in {"delete_socket", "delete_umem", "detach"} => global_exit
  /\ pc = "closed" => global_exit

-----------------------------------------------------------------------------
\* The steps of the loop leave the loop only when global_exit is set, and none
\* but the signal handler changes global_exit.
LEMMA LoopExit ==
  ASSUME AppNext \/ PollFails \/ KernelTakeFill \/ KernelDeliver \/ KernelTx
  PROVE  /\ global_exit' = global_exit
         /\ pc' = "closed" => pc = "closed" \/ global_exit
         /\ Next
<1>1. CASE LoopTest \/ PollReady \/ PollFails
  BY <1>1, Zenon DEF LoopTest, PollReady, PollFails, Next, AppNext
<1>2. CASE PeekRx \/ StockFrames \/ ReserveFill \/ SubmitFill \/ ReleaseRx
  BY <1>2, Zenon DEF PeekRx, StockFrames, ReserveFill, SubmitFill, ReleaseRx, Next, AppNext
<1>3. CASE DropPacket \/ ReplyPacket
  BY <1>3, Zenon DEF DropPacket, ReplyPacket, xsk_free_umem_frame, Next, AppNext
<1>4. CASE SendTo \/ PeekCompleted \/ FreeCompleted
  BY <1>4, Zenon DEF SendTo, PeekCompleted, FreeCompleted, Next, AppNext
<1>5. CASE KernelTakeFill \/ KernelDeliver \/ KernelTx
  BY <1>5, Zenon DEF KernelTakeFill, KernelDeliver, KernelTx, KernelTakeTx, KernelComplete, appVars, Next
<1> QED
  BY <1>1, <1>2, <1>3, <1>4, <1>5, Zenon DEF AppNext

\* Nothing is held at the start.
LEMMA LadderInit == UserInit => Ladder
BY Zenon DEF UserInit, Init, Ladder, Calls

\* Each call moves one rung up or down, or falls to "failed" or "undetached".
LEMMA LadderStep == Ladder /\ [UserNext]_userVars => Ladder'
<1> SUFFICES ASSUME Ladder, [UserNext]_userVars PROVE Ladder'
  OBVIOUS
<1> USE DEF Ladder, Calls
<1>1. CASE LoadProgram
  BY <1>1, Zenon DEF LoadProgram, Acquire, Fail, vars
<1>2. CASE FindXsksMap
  BY <1>2, Zenon DEF FindXsksMap, Acquire, Fail, vars
<1>3. CASE AllocateBuffer
  BY <1>3, Zenon DEF AllocateBuffer, Acquire, Fail, vars
<1>4. CASE configure_xsk_umem
  BY <1>4, Zenon DEF configure_xsk_umem, Acquire, Fail, vars
<1>5. CASE xsk_configure_socket
  BY <1>5, Zenon DEF xsk_configure_socket, Acquire, Fail, vars
<1>6. CASE StartStats
  BY <1>6, Zenon DEF StartStats, Acquire, Fail, vars
<1>7. CASE rx_and_process \/ Kernel
  <2>1. /\ UNCHANGED <<at, held>> /\ global_exit' = global_exit
        /\ pc' = "closed" => pc = "closed" \/ global_exit
    BY <1>7, LoopExit, Zenon DEF rx_and_process, Kernel
  <2> QED
    BY <2>1, Zenon
<1>8. CASE exit_application
  BY <1>8 DEF exit_application, appVars
<1>9. CASE LeaveLoop
  BY <1>9, Zenon DEF LeaveLoop, vars
<1>10. CASE CleanUp
  BY <1>10, Zenon DEF CleanUp, Release, vars
<1>11. CASE UNCHANGED userVars
  BY <1>11 DEF userVars, vars
<1>12. CASE StartThread \/ Unload
  BY <1>12, Zenon DEF StartThread, Unload, Acquire, Fail, vars
<1> QED
  BY <1>1, <1>2, <1>3, <1>4, <1>5, <1>6, <1>7, <1>8, <1>9, <1>10, <1>11, <1>12, Zenon
     DEF UserNext

-----------------------------------------------------------------------------
\* Whatever call of the set-up fails and whenever SIGINT comes, the program
\* acquires and releases XDP program, UMEM and socket in order, and leaves
\* nothing behind but, after a failed set-up or a failed xdp_link_detach, the
\* XDP program.
THEOREM MainOrder == UserSpec => []UserOrder
<1>1. Ladder => UserOrder
  BY Zenon DEF Ladder, Calls, UserOrder
<1> QED
  BY <1>1, LadderInit, LadderStep, PTL DEF UserSpec

\* The program runs the packet loop: set-up and clean-up are stuttering steps
\* of XskSwitch.
THEOREM MainImplementsLoop == UserSpec => Spec
<1>1. UserInit => Init
  BY Zenon DEF UserInit
<1>2. ASSUME Ladder, [UserNext]_userVars PROVE [Next]_vars
  <2>1. CASE rx_and_process \/ Kernel
    BY <2>1, LoopExit, Zenon DEF rx_and_process, Kernel
  <2>2. CASE exit_application
    BY <1>2, <2>2, Zenon DEF exit_application, ExitApplication, Next, Ladder
  <2>3. CASE UNCHANGED vars
    BY <2>3, Zenon
  <2> QED
    BY <1>2, <2>1, <2>2, <2>3, Zenon
       DEF UserNext, userVars, StartThread, Unload, LoadProgram, FindXsksMap, AllocateBuffer, configure_xsk_umem,
           xsk_configure_socket, StartStats, Acquire, LeaveLoop, CleanUp, Release
<1> QED
  BY <1>1, <1>2, LadderInit, LadderStep, PTL DEF UserSpec, Spec

\* So in the whole program every frame is in exactly one place, the counter is
\* exact, the rings are safe and the allocator's assertion holds.
THEOREM MainSafe ==
  UserSpec => [](/\ TypeOK /\ RingsRespected /\ FrameOwnership
                 /\ OutstandingExact /\ FreeAssertion)
BY MainImplementsLoop, SwitchShape, SwitchOwnership, SwitchOutstanding, SwitchAssertion, PTL

\* And the program, too, runs out of frames to receive into only when all but a
\* batch of them are in transmission, and never recovers from it.
THEOREM MainStarves == UserSpec => StarvedBySending
BY MainImplementsLoop, SwitchStarves, PTL
=============================================================================
