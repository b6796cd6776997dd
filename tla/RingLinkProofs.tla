--------------------------- MODULE RingLinkProofs ---------------------------
(***************************************************************************)
(* The theorems about the rings: the arithmetic of the wrapping indices,   *)
(* the order the indices keep, and the bounded channel a ring implements,  *)
(* for every ring size and word width.                                     *)
(*                                                                         *)
(* For any programs, attach calls, machines and failures: the links of     *)
(* BpfLink are the attachments.  LinksOwned speaks of the events between   *)
(* calls; the invariant that implies it also says what the call in         *)
(* progress has done to the one event it works on, which no link reaches   *)
(* yet.                                                                    *)
(***************************************************************************)
EXTENDS XskRing, BpfLink, TLAPS

-----------------------------------------------------------------------------
(* The indices and the slots *)

\* Advancing the subtrahend, as a reservation or a peek does with its cached
\* index, shortens the distance by as much, across the wrap too.
LEMMA AdvanceFrom ==
  ASSUME NEW a \in Index, NEW b \in Index, NEW n \in Nat, n <= Minus(a, b)
  PROVE  /\ Plus(b, n) \in Index
         /\ Minus(a, Plus(b, n)) = Minus(a, b) - n
<1>0. WORD \in Nat
  BY RingAssumption
<1> QED
  BY <1>0 DEF Index, Plus, Minus

\* Advancing the minuend, as a submit, a release or the kernel does with a
\* shared index, lengthens the distance by as much until it spans the word.
LEMMA AdvanceTo ==
  ASSUME NEW a \in Index, NEW b \in Index, NEW n \in Nat, Minus(a, b) + n < WORD
  PROVE  /\ Plus(a, n) \in Index
         /\ Minus(Plus(a, n), b) = Minus(a, b) + n
<1>0. WORD \in Nat
  BY RingAssumption
<1> QED
  BY <1>0 DEF Index, Plus, Minus

\* An index n ahead of b is n - Minus(a, b) ahead of an a in between: what a
\* refresh of cached_cons to consumer + size leaves free.
LEMMA Ahead ==
  ASSUME NEW a \in Index, NEW b \in Index, NEW n \in Nat, n < WORD, Minus(a, b) <= n
  PROVE  /\ Plus(b, n) \in Index
         /\ Minus(Plus(b, n), a) = n - Minus(a, b)
<1>0. WORD \in Nat
  BY RingAssumption
<1> QED
  BY <1>0 DEF Index, Plus, Minus

\* Distances are natural numbers, zero exactly between equal indices.
LEMMA Distance ==
  ASSUME NEW a \in Index, NEW b \in Index
  PROVE  Minus(a, b) \in Nat /\ (Minus(a, b) = 0 <=> a = b)
<1>0. WORD \in Nat
  BY RingAssumption
<1> QED
  BY <1>0 DEF Index, Minus

\* Going the distance arrives.
LEMMA Arrive ==
  ASSUME NEW a \in Index, NEW b \in Index
  PROVE  Plus(b, Minus(a, b)) = a
<1>0. WORD \in Nat
  BY RingAssumption
<1> QED
  BY <1>0 DEF Index, Plus, Minus

-----------------------------------------------------------------------------
\* Division with remainder, in the form the provers can use: x, s, the quotient
\* and the remainder are names, so the only product is s * q.
LEMMA Remainder ==
  ASSUME NEW x \in Int, NEW s \in Nat \ {0}
  PROVE  x % s \in Int /\ 0 <= x % s /\ x % s < s
OBVIOUS

\* Division by the size of the ring.
LEMMA Quotient ==
  ASSUME NEW x \in Int, NEW s \in Nat \ {0}
  PROVE  \E q \in Int : q = x \div s
OBVIOUS

\* An index from its quotient and its slot.
LEMMA Division ==
  ASSUME NEW x \in Int, NEW s \in Nat \ {0},
         NEW q \in Int, NEW r \in Int, q = x \div s, r = x % s
  PROVE  x = s * q + r
OBVIOUS

\* A remainder is determined by any quotient.
LEMMA UniqueMod ==
  ASSUME NEW s \in Nat \ {0}, NEW q \in Int, NEW r \in 0 .. s - 1
  PROVE  (s * q + r) % s = r
OBVIOUS

\* Facts about products.
LEMMA Distrib ==
  ASSUME NEW s \in Nat, NEW m \in Int, NEW n \in Int
  PROVE  s * m - s * n = s * (m - n)
OBVIOUS

\* No positive multiple of the size is smaller than the size.
LEMMA Multiple ==
  ASSUME NEW s \in Nat, NEW m \in Int, s * m < s, 0 < s * m
  PROVE  FALSE
<1>1. m <= 0
  OBVIOUS
<1>2. m > 0
  OBVIOUS
<1> QED
  BY <1>1, <1>2

\* Indices less than a ring apart have different slots: a write to one entry of
\* a ring spoils no other.
LEMMA SlotsApart ==
  ASSUME NEW s \in Nat \ {0}, NEW x \in Int, NEW y \in Int, x < y, y - x < s
  PROVE  x % s # y % s
<1> SUFFICES ASSUME x % s = y % s PROVE FALSE
  OBVIOUS
<1>1. PICK q \in Int : q = x \div s
  BY Quotient, Zenon
<1>2. PICK p \in Int : p = y \div s
  BY Quotient, Zenon
<1>3. PICK r \in Int : r = x % s
  BY Remainder
<1>4. x = s * q + r
  BY <1>1, <1>3, Division
<1>5. y = s * p + r
  BY <1>2, <1>3, Division
<1>6. PICK d \in Int : d = p - q
  OBVIOUS
<1>7. s * p - s * q = s * d
  BY <1>6, Distrib
<1>8. y - x = s * d
  <2>1. s * p \in Int /\ s * q \in Int
    OBVIOUS
  <2>2. PICK a \in Int, b \in Int : a = s * p /\ b = s * q
    BY <2>1
  <2>3. x = b + r /\ y = a + r /\ a - b = s * d
    BY <1>4, <1>5, <1>7, <2>2
  <2> QED
    BY <2>3
<1>9. PICK e \in Int : e = s * d
  OBVIOUS
<1>10. 0 < e /\ e < s
  BY <1>8, <1>9
<1> QED
  BY <1>9, <1>10, Multiple

\* Taking a multiple of the size off an index, as the wrap of the word does,
\* leaves its slot.
LEMMA SameSlot ==
  ASSUME NEW s \in Nat \ {0}, NEW x \in Int, NEW w \in Int, w % s = 0
  PROVE  (x - w) % s = x % s
<1>1. PICK q \in Int : q = w \div s
  OBVIOUS
<1>2. PICK p \in Int : p = x \div s
  OBVIOUS
<1>3. PICK r \in Int : r = x % s
  BY Remainder
<1>4. w = s * q + 0
  BY <1>1, Division
<1>5. x = s * p + r
  BY <1>2, <1>3, Division
<1>6. PICK d \in Int : d = p - q
  OBVIOUS
<1>7. s * p - s * q = s * d
  BY <1>6, Distrib
<1>8. x - w = s * d + r
  <2>1. s * p \in Int /\ s * q \in Int /\ s * d \in Int
    OBVIOUS
  <2>2. PICK a \in Int, b \in Int, c \in Int : a = s * p /\ b = s * q /\ c = s * d
    BY <2>1
  <2>3. x = a + r /\ w = b /\ a - b = c
    BY <1>4, <1>5, <1>7, <2>2
  <2>4. x - w = c + r
    BY <2>3
  <2> QED
    BY <2>2, <2>4
<1>9. r \in 0 .. s - 1
  BY <1>3, Remainder
<1> QED
  BY <1>3, <1>8, <1>9, UniqueMod, Zenon

-----------------------------------------------------------------------------
\* The slot of the k-th entry after index a, wrapped or not.
LEMMA SlotAt ==
  ASSUME NEW a \in Index, NEW k \in Nat, k < WORD
  PROVE  Slot(Plus(a, k)) = (a + k) % Size
<1>1. WORD \in Nat /\ Size \in Nat \ {0} /\ WORD % Size = 0
  BY RingAssumption
<1>2. a \in Nat
  BY <1>1 DEF Index
<1>3. CASE a + k < WORD
  BY <1>3 DEF Slot, Plus
<1>4. CASE ~(a + k < WORD)
  <2>1. Plus(a, k) = a + k - WORD
    BY <1>4 DEF Plus
  <2>2. PICK x \in Int : x = a + k
    BY <1>2
  <2>3. WORD \in Int
    BY <1>1
  <2>4. (x - WORD) % Size = x % Size
    BY <1>1, <2>3, SameSlot, Zenon
  <2>5. Plus(a, k) = x - WORD
    BY <1>2, <2>1, <2>2, <2>3
  <2> QED
    BY <2>2, <2>4, <2>5, Zenon DEF Slot
<1> QED
  BY <1>3, <1>4

\* Entries less than a ring apart are in different slots.
LEMMA DifferentSlots ==
  ASSUME NEW a \in Index, NEW j \in Nat, NEW k \in Nat, j < k, k < Size
  PROVE  Slot(Plus(a, j)) # Slot(Plus(a, k))
<1>1. WORD \in Nat /\ Size \in Nat \ {0} /\ 2 * Size <= WORD
  BY RingAssumption
<1>2. a \in Nat /\ j < WORD /\ k < WORD
  BY <1>1 DEF Index
<1>3. Slot(Plus(a, j)) = (a + j) % Size /\ Slot(Plus(a, k)) = (a + k) % Size
  BY <1>2, SlotAt
<1>4. PICK x \in Int : x = a + j
  BY <1>2
<1>5. PICK y \in Int : y = a + k
  BY <1>2
<1>6. x < y /\ y - x < Size
  BY <1>1, <1>2, <1>4, <1>5
<1>7. x % Size # y % Size
  BY <1>1, <1>6, SlotsApart, Zenon
<1> QED
  BY <1>3, <1>4, <1>5, <1>7

\* Two steps along the ring are one.
LEMMA PlusPlus ==
  ASSUME NEW a \in Index, NEW m \in Nat, NEW n \in Nat, m + n < WORD
  PROVE  /\ Plus(a, m) \in Index
         /\ Plus(Plus(a, m), n) = Plus(a, m + n)
<1>0. WORD \in Nat
  BY RingAssumption
<1> QED
  BY <1>0 DEF Index, Plus

\* A slot is a position of the ring.
LEMMA SlotType ==
  ASSUME NEW a \in Index
  PROVE  Slot(a) \in 0 .. Size - 1
<1>1. WORD \in Nat /\ Size \in Nat \ {0}
  BY RingAssumption
<1>2. a \in Int
  BY <1>1 DEF Index
<1> QED
  BY <1>1, <1>2, Remainder DEF Slot

\* Entries are a sequence.
LEMMA EntriesType ==
  ASSUME NEW E, NEW r \in Slots(E), NEW a \in Index,
         NEW n \in Nat, n <= Size
  PROVE  /\ Entries(r, a, n) \in Seq(E)
         /\ Len(Entries(r, a, n)) = n
<1>1. WORD \in Nat /\ Size \in Nat \ {0} /\ 2 * Size <= WORD
  BY RingAssumption
<1>2. ASSUME NEW i \in 1 .. n PROVE r[Slot(Plus(a, i - 1))] \in E
  <2>1. i - 1 \in Nat /\ i - 1 + 0 < WORD
    BY <1>1
  <2>2. Slot(Plus(a, i - 1)) \in 0 .. Size - 1
    BY <2>1, PlusPlus, SlotType
  <2> QED
    BY <2>2 DEF Slots
<1> QED
  BY <1>2 DEF Entries

\* No entries from an index on.
LEMMA EntriesNone ==
  ASSUME NEW E, NEW r \in Slots(E), NEW a \in Index
  PROVE  Entries(r, a, 0) = <<>>
<1>1. 0 <= Size
  BY RingAssumption
<1>2. Entries(r, a, 0) \in Seq(E) /\ Len(Entries(r, a, 0)) = 0
  BY <1>1, EntriesType
<1> QED
  BY <1>2

\* A write at or behind the end of the entries leaves them alone.
LEMMA EntriesKept ==
  ASSUME NEW r, NEW a \in Index,
         NEW n \in Nat, NEW k \in Nat, n <= k, k < Size,
         NEW q, \A j \in 0 .. Size - 1 : j # Slot(Plus(a, k)) => q[j] = r[j]
  PROVE  Entries(q, a, n) = Entries(r, a, n)
<1>1. Size \in Nat \ {0} /\ WORD \in Nat /\ 2 * Size <= WORD
  BY RingAssumption
<1>2. ASSUME NEW i \in 1 .. n
      PROVE  q[Slot(Plus(a, i - 1))] = r[Slot(Plus(a, i - 1))]
  <2>1. i - 1 \in Nat /\ i - 1 < k /\ i - 1 + 0 < WORD
    BY <1>1
  <2>2. Slot(Plus(a, i - 1)) # Slot(Plus(a, k))
    BY <2>1, DifferentSlots
  <2>3. Slot(Plus(a, i - 1)) \in 0 .. Size - 1
    BY <2>1, PlusPlus, SlotType
  <2> QED
    BY <2>2, <2>3
<1> QED
  BY <1>2, Zenon DEF Entries

\* A write right behind the entries adds one.
LEMMA EntriesAppend ==
  ASSUME NEW E, NEW r \in Slots(E), NEW a \in Index, NEW v \in E,
         NEW n \in Nat, n < Size, NEW q \in Slots(E),
         q[Slot(Plus(a, n))] = v,
         \A j \in 0 .. Size - 1 : j # Slot(Plus(a, n)) => q[j] = r[j]
  PROVE  Entries(q, a, n + 1) = Append(Entries(r, a, n), v)
<1>1. Size \in Nat \ {0} /\ WORD \in Nat /\ 2 * Size <= WORD
  BY RingAssumption
<1>2. n + 0 < WORD /\ n <= n /\ n <= Size
  BY <1>1
<1>k. PICK k \in Nat : k = n + 1 /\ k <= Size
  BY <1>1
<1>5. PICK s : s = Entries(r, a, n)
  OBVIOUS
<1>t. PICK t : t = Entries(q, a, k)
  OBVIOUS
<1>6. s \in Seq(E) /\ Len(s) = n
  BY <1>2, <1>5, EntriesType
<1>7. Entries(q, a, n) = s
  <2>1. Entries(q, a, n) = Entries(r, a, n)
    BY <1>2, EntriesKept
  <2> QED
    BY <1>5, <2>1, Zenon
<1>8. t \in Seq(E) /\ Len(t) = k
  <2>1. Entries(q, a, k) \in Seq(E) /\ Len(Entries(q, a, k)) = k
    BY <1>k, EntriesType
  <2> QED
    BY <1>t, <2>1, Zenon
<1>9. \A i \in 1 .. k : t[i] = q[Slot(Plus(a, i - 1))]
  BY <1>t DEF Entries
<1>10. \A i \in 1 .. n : t[i] = s[i]
  <2>1. \A i \in 1 .. n : s[i] = q[Slot(Plus(a, i - 1))]
    BY <1>7 DEF Entries
  <2> QED
    BY <1>k, <1>9, <2>1
<1>11. t[k] = v
  <2>1. k \in 1 .. k /\ k - 1 = n
    BY <1>k
  <2>2. t[k] = q[Slot(Plus(a, k - 1))]
    BY <1>9, <2>1
  <2> QED
    BY <2>1, <2>2
<1>12. t = Append(s, v)
  BY <1>k, <1>6, <1>8, <1>10, <1>11
<1> QED
  BY <1>k, <1>5, <1>t, <1>12

\* Sequences of one length with the same entries are the same.
LEMMA SameEntries ==
  ASSUME NEW E, NEW s \in Seq(E), NEW t \in Seq(E), Len(s) = Len(t), \A i \in 1 .. Len(s) : s[i] = t[i]
  PROVE  s = t
OBVIOUS

\* The entries from a later index on are the end of those from an earlier one.
LEMMA EntriesDrop ==
  ASSUME NEW E, NEW r \in Slots(E), NEW a \in Index,
         NEW m \in Nat, NEW n \in Nat, NEW k \in Nat, k = m + n, k <= Size
  PROVE  /\ Plus(a, m) \in Index
         /\ Entries(r, Plus(a, m), n) = SubSeq(Entries(r, a, k), m + 1, k)
         /\ Entries(r, a, k) = Entries(r, a, m) \o Entries(r, Plus(a, m), n)
<1>1. Size \in Nat \ {0} /\ WORD \in Nat /\ 2 * Size <= WORD
  BY RingAssumption
<1>2. n <= Size /\ m <= Size /\ m + 0 < WORD /\ k < WORD
  BY <1>1
<1>3. PICK b \in Index : b = Plus(a, m)
  BY <1>2, PlusPlus
<1>4. PICK s : s = Entries(r, a, k)
  OBVIOUS
<1>5. PICK t : t = Entries(r, b, n)
  OBVIOUS
<1>6. PICK u : u = Entries(r, a, m)
  OBVIOUS
<1>7. /\ s \in Seq(E) /\ Len(s) = k
      /\ \A i \in 1 .. k : s[i] = r[Slot(Plus(a, i - 1))]
  <2>1. s \in Seq(E) /\ Len(s) = k
    BY <1>2, <1>4, EntriesType
  <2> QED
    BY <1>4, <2>1 DEF Entries
<1>8. /\ t \in Seq(E) /\ Len(t) = n
      /\ \A i \in 1 .. n : t[i] = r[Slot(Plus(b, i - 1))]
  <2>1. t \in Seq(E) /\ Len(t) = n
    BY <1>2, <1>5, EntriesType
  <2> QED
    BY <1>5, <2>1 DEF Entries
<1>9. /\ u \in Seq(E) /\ Len(u) = m
      /\ \A i \in 1 .. m : u[i] = r[Slot(Plus(a, i - 1))]
  <2>1. u \in Seq(E) /\ Len(u) = m
    BY <1>2, <1>6, EntriesType
  <2> QED
    BY <1>6, <2>1 DEF Entries
<1>10. ASSUME NEW i \in 1 .. n PROVE t[i] = s[m + i]
  <2>1. PICK j \in Nat : j = i - 1
    OBVIOUS
  <2>2. m + j < WORD /\ m + j = (m + i) - 1 /\ m + i \in 1 .. k
    <3>1. i \in Nat /\ 1 <= i /\ i <= n /\ i = j + 1
      BY <2>1
    <3>2. m + i <= k /\ 1 <= m + i /\ m + i \in Nat
      BY <3>1
    <3>3. m + j = (m + i) - 1
      BY <3>1
    <3> QED
      BY <1>1, <1>2, <3>2, <3>3
  <2>3. Plus(b, j) = Plus(a, m + j)
    BY <1>3, <2>2, PlusPlus
  <2>4. t[i] = r[Slot(Plus(a, (m + i) - 1))]
    BY <1>8, <2>1, <2>2, <2>3
  <2> QED
    BY <1>7, <2>2, <2>4
<1>11. t = SubSeq(s, m + 1, k)
  <2>1. SubSeq(s, m + 1, k) \in Seq(E) /\ Len(SubSeq(s, m + 1, k)) = n
    BY <1>7
  <2>2. ASSUME NEW i \in 1 .. n PROVE t[i] = SubSeq(s, m + 1, k)[i]
    <3>1. SubSeq(s, m + 1, k)[i] = s[m + i]
      BY ONLY m \in Nat, n \in Nat, k = m + n, i \in 1 .. n, <1>7, SMTT(30)
    <3> QED
      BY <1>10, <3>1, Zenon
  <2> QED
    BY ONLY <1>8, <2>1, <2>2, SameEntries
<1>12. ASSUME NEW i \in 1 .. m PROVE u[i] = s[i]
  <2>1. i \in 1 .. k
    BY ONLY m \in Nat, n \in Nat, k = m + n
  <2> QED
    BY ONLY i \in 1 .. m, <1>7, <1>9, <2>1, Zenon
<1>13. s = u \o t
  <2>1. ASSUME NEW i \in 1 .. k PROVE s[i] = IF i <= m THEN u[i] ELSE t[i - m]
    <3>1. CASE i <= m
      BY <1>12, <3>1
    <3>2. CASE ~(i <= m)
      <4>1. PICK j \in 1 .. n : i = m + j
        BY <3>2
      <4>2. i - m = j
        BY <4>1
      <4> QED
        BY <1>10, <3>2, <4>1, <4>2
    <3> QED
      BY <3>1, <3>2
  <2>2. /\ u \o t \in Seq(E) /\ Len(u \o t) = k
        /\ \A i \in 1 .. k : (u \o t)[i] = IF i <= m THEN u[i] ELSE t[i - m]
    <3>1. u \in Seq(E) /\ t \in Seq(E) /\ Len(u) = m /\ Len(t) = n
      BY <1>8, <1>9
    <3>2. /\ u \o t \in Seq(E) /\ Len(u \o t) = Len(u) + Len(t)
          /\ \A i \in 1 .. Len(u) + Len(t) :
               (u \o t)[i] = IF i <= Len(u) THEN u[i] ELSE t[i - Len(u)]
      BY <3>1, SMT
    <3>3. Len(u) + Len(t) = k
      BY <3>1
    <3> QED
      BY <3>1, <3>2, <3>3, Zenon
  <2>3. \A i \in 1 .. Len(s) : s[i] = (u \o t)[i]
    BY <1>7, <2>1, <2>2, Zenon
  <2> QED
    BY <1>7, <2>2, <2>3, SameEntries, Zenon
<1> QED
  BY <1>3, <1>4, <1>5, <1>6, <1>11, <1>13, Zenon

-----------------------------------------------------------------------------
(* The producer ring *)

ProdInv == ProdTypeOK /\ IndexOrder

\* Every step of the program on the ring, and every step of the kernel, keeps
\* the indices in ring order.
LEMMA ProdInvStep == ProdInv /\ [ProdNext]_prodVars => ProdInv'
<1> SUFFICES ASSUME ProdInv, [ProdNext]_prodVars PROVE ProdInv'
  OBVIOUS
<1> USE DEF ProdInv, ProdTypeOK, IndexOrder
<1>0. WORD \in Nat /\ Size \in Nat \ {0} /\ 2 * Size <= WORD
  BY RingAssumption
<1>d. /\ Minus(producer, consumer) \in Nat /\ Minus(cached_prod, producer) \in Nat
      /\ Minus(cached_cons, cached_prod) \in Nat /\ Minus(idx, producer) \in Nat
  BY Distance
<1>r. ASSUME NEW nb \in 0 .. Size, cached_prod = producer
      PROVE  /\ ProdRefreshed(nb) \in Index
             /\ xsk_prod_nb_free(nb) \in Nat
             /\ Minus(producer, consumer) + xsk_prod_nb_free(nb) <= Size
             /\ Minus(cached_prod, producer) = 0
  <2>1. Minus(cached_prod, producer) = 0
    BY <1>r, Distance
  <2>2. CASE Minus(cached_cons, cached_prod) >= nb
    BY <1>d, <2>1, <2>2 DEF ProdRefreshed, xsk_prod_nb_free
  <2>3. CASE ~(Minus(cached_cons, cached_prod) >= nb)
    <3>1. Size < WORD /\ Minus(cached_prod, consumer) <= Size
      BY <1>0, <1>d, <1>r, <2>1
    <3>2. /\ Plus(consumer, Size) \in Index
          /\ Minus(Plus(consumer, Size), cached_prod) = Size - Minus(cached_prod, consumer)
      BY <1>0, <3>1, Ahead
    <3> QED
      BY <1>0, <1>d, <1>r, <2>1, <2>3, <3>1, <3>2 DEF ProdRefreshed, xsk_prod_nb_free
  <2> QED
    BY <2>2, <2>3
<1>1. ASSUME NEW nb \in 0 .. Size, NbFree(nb) PROVE ProdInv'
  <2>1. cached_prod = producer /\ cached_cons' = ProdRefreshed(nb)
    BY <1>1 DEF NbFree
  <2>2. Minus(cached_cons', cached_prod) = xsk_prod_nb_free(nb)
    BY <2>1 DEF xsk_prod_nb_free
  <2> QED
    BY <1>d, <1>r, <1>1, <2>1, <2>2 DEF NbFree
<1>2. ASSUME NEW nb \in 0 .. Size, xsk_ring_prod__reserve(nb) PROVE ProdInv'
  <2>1. CASE xsk_prod_nb_free(nb) < nb
    <3>1. cached_prod = producer /\ cached_cons' = ProdRefreshed(nb)
      BY <1>2 DEF xsk_ring_prod__reserve
    <3>2. Minus(cached_cons', cached_prod) = xsk_prod_nb_free(nb)
      BY <3>1 DEF xsk_prod_nb_free
    <3> QED
      BY <1>d, <1>r, <1>2, <2>1, <3>1, <3>2 DEF xsk_ring_prod__reserve
  <2>2. CASE ~(xsk_prod_nb_free(nb) < nb)
    <3>1. /\ cached_prod = producer /\ cached_prod' = Plus(cached_prod, nb)
          /\ cached_cons' = ProdRefreshed(nb)
          /\ idx' = cached_prod /\ UNCHANGED <<producer, consumer, ring>>
      BY <1>2, <2>2 DEF xsk_ring_prod__reserve
    <3>2. nb \in Nat /\ nb <= Minus(ProdRefreshed(nb), cached_prod)
      BY <1>0, <1>r, <2>2, <3>1 DEF xsk_prod_nb_free
    <3>3. /\ cached_prod' \in Index
          /\ Minus(cached_cons', cached_prod') = xsk_prod_nb_free(nb) - nb
      BY <1>r, <3>1, <3>2, AdvanceFrom DEF xsk_prod_nb_free
    <3>4. Minus(cached_prod, producer) = 0
      BY <3>1, Distance
    <3>5. Minus(cached_prod', producer) = nb
      BY <1>0, <3>1, <3>2, <3>4, AdvanceTo
    <3> QED
      BY <1>d, <1>r, <3>1, <3>2, <3>3, <3>4, <3>5
  <2> QED
    BY <2>1, <2>2
<1>3. ASSUME NEW v \in Entry, Write(v) PROVE ProdInv'
  <2>1. ring' \in Slots(Entry)
    BY <1>3, Zenon DEF Write, Slots
  <2>2. Minus(idx, producer) # Minus(cached_prod, producer)
    BY <1>3, Arrive DEF Write
  <2>3. idx' \in Index /\ Minus(idx', producer) = Minus(idx, producer) + 1
    <3>1. Minus(idx, producer) + 1 < WORD
      BY <1>0, <1>d, <2>2
    <3>2. idx' = Plus(idx, 1)
      BY <1>3 DEF Write
    <3> QED
      BY <3>1, <3>2, AdvanceTo
  <2> QED
    BY <1>d, <1>3, <2>1, <2>2, <2>3 DEF Write
<1>4. CASE xsk_ring_prod__submit
  <2>1. producer' = cached_prod /\ idx = cached_prod
    BY <1>4, Arrive DEF xsk_ring_prod__submit
  <2>2. Minus(cached_prod, consumer) = Minus(producer, consumer) + Minus(cached_prod, producer)
    BY <1>0, <1>d, AdvanceTo, Arrive
  <2>3. Minus(cached_prod, cached_prod) = 0
    BY Distance
  <2> QED
    BY <1>d, <1>4, <2>1, <2>2, <2>3 DEF xsk_ring_prod__submit
<1>5. CASE KernelConsume
  <2>1. Minus(producer, consumer) > 0
    BY <1>d, <1>5, Distance DEF KernelConsume
  <2>2. consumer' \in Index /\ Minus(producer, consumer') = Minus(producer, consumer) - 1
    BY <1>d, <1>5, <2>1, AdvanceFrom DEF KernelConsume
  <2> QED
    BY <1>0, <1>d, <1>5, <2>2 DEF KernelConsume
<1>6. CASE UNCHANGED prodVars
  BY <1>6 DEF prodVars
<1> QED
  BY <1>1, <1>2, <1>3, <1>4, <1>5, <1>6 DEF ProdNext

\* For every ring size and word width, a reservation granted by
\* xsk_ring_prod__reserve never reaches an entry the kernel has not consumed.
THEOREM ProdRingSafe == ProdSpec => [](ProdTypeOK /\ IndexOrder)
<1>1. ProdInit => ProdInv
  BY RingAssumption DEF ProdInit, ProdInv, ProdTypeOK, IndexOrder, Index, Minus
<1> QED
  BY <1>1, ProdInvStep, PTL DEF ProdSpec, ProdInv

-----------------------------------------------------------------------------
(* The refinement *)

\* Numbers and sequences of the view, from the order of the indices.
LEMMA ProdView ==
  ASSUME ProdInv
  PROVE  /\ reserved \in Nat /\ room \in Nat
         /\ Minus(producer, consumer) \in Nat /\ Minus(idx, producer) \in Nat
         /\ Minus(producer, consumer) + reserved + room <= Size
         /\ Minus(idx, producer) <= reserved
         /\ submitted \in Seq(Entry) /\ Len(submitted) = Minus(producer, consumer)
         /\ written \in Seq(Entry) /\ Len(written) = Minus(idx, producer)
<1>0. Size \in Nat
  BY RingAssumption
<1>1. /\ reserved \in Nat /\ room \in Nat
      /\ Minus(producer, consumer) \in Nat /\ Minus(idx, producer) \in Nat
  BY Distance DEF ProdInv, ProdTypeOK, reserved, room
<1>2. /\ Minus(producer, consumer) + reserved + room <= Size
      /\ Minus(idx, producer) <= reserved
  BY DEF ProdInv, IndexOrder, reserved, room
<1>3. Minus(producer, consumer) <= Size /\ Minus(idx, producer) <= Size
  BY <1>0, <1>1, <1>2
<1>4. submitted \in Seq(Entry) /\ Len(submitted) = Minus(producer, consumer)
  BY <1>1, <1>3, EntriesType DEF ProdInv, ProdTypeOK, submitted
<1>5. written \in Seq(Entry) /\ Len(written) = Minus(idx, producer)
  BY <1>1, <1>3, EntriesType DEF ProdInv, ProdTypeOK, written
<1> QED
  BY <1>1, <1>2, <1>4, <1>5

\* What xsk_prod_nb_free knows is what the channel knows.
LEMMA KnownIsFree ==
  ASSUME ProdInv, NEW nb \in 0 .. Size, cached_prod = producer
  PROVE  xsk_prod_nb_free(nb) = Prod!Known(nb)
<1>0. WORD \in Nat /\ Size \in Nat \ {0} /\ 2 * Size <= WORD
  BY RingAssumption
<1>v. /\ reserved \in Nat /\ room \in Nat
      /\ Minus(producer, consumer) \in Nat
      /\ Minus(producer, consumer) + reserved + room <= Size
      /\ Len(submitted) = Minus(producer, consumer)
  BY ProdView
<1>1. CASE room >= nb
  BY <1>1 DEF xsk_prod_nb_free, ProdRefreshed, room, Prod!Known
<1>2. CASE ~(room >= nb)
  <2>1. Size < WORD /\ Minus(cached_prod, consumer) <= Size
    BY <1>0, <1>v
  <2>2. Minus(Plus(consumer, Size), cached_prod) = Size - Minus(cached_prod, consumer)
    BY <1>0, <2>1, Ahead DEF ProdInv, ProdTypeOK
  <2>3. xsk_prod_nb_free(nb) = Size - Len(submitted)
    BY <1>v, <1>2, <2>2 DEF xsk_prod_nb_free, ProdRefreshed, room
  <2> QED
    BY <1>2, <2>3 DEF Prod!Known
<1> QED
  BY <1>1, <1>2

\* A look at the free slots, which may refresh the cached index.
LEMMA NbFreeLooks ==
  ASSUME ProdInv, NEW nb \in 0 .. Size, NbFree(nb)
  PROVE  Prod!Look(nb)
<1>1. cached_prod = producer /\ cached_cons' = ProdRefreshed(nb)
  BY DEF NbFree
<1>2. reserved = 0
  BY <1>1, Distance DEF ProdInv, ProdTypeOK, reserved
<1>3. room' = Prod!Known(nb)
  <2>1. room' = xsk_prod_nb_free(nb)
    BY <1>1 DEF NbFree, room, xsk_prod_nb_free
  <2> QED
    BY <1>1, <2>1, KnownIsFree
<1>4. UNCHANGED <<submitted, written, reserved>>
  BY DEF NbFree, submitted, written, reserved
<1> QED
  BY <1>2, <1>3, <1>4 DEF Prod!Look

\* A reserve of the ring is one of the channel.
LEMMA ReserveReserves ==
  ASSUME ProdInv, ProdInv', NEW nb \in 0 .. Size, xsk_ring_prod__reserve(nb)
  PROVE  Prod!Reserve(nb)
<1>0. WORD \in Nat /\ Size \in Nat \ {0} /\ 2 * Size <= WORD
  BY RingAssumption
<1>1. cached_prod = producer /\ cached_cons' = ProdRefreshed(nb)
  BY DEF xsk_ring_prod__reserve
<1>2. reserved = 0
  BY <1>1, Distance DEF ProdInv, ProdTypeOK, reserved
<1>3. PICK k : k = Prod!Known(nb)
  OBVIOUS
<1>4. xsk_prod_nb_free(nb) = k
  BY <1>1, <1>3, KnownIsFree
<1>5. k \in Int /\ k <= Size /\ nb \in Nat
  <2>1. k = room \/ k = Size - Len(submitted)
    BY <1>3 DEF Prod!Known
  <2> QED
    BY <1>0, <2>1, ProdView
<1>6. written = <<>>
  <2>1. Minus(idx, producer) = 0
    BY <1>2, ProdView
  <2> QED
    BY <2>1, EntriesNone DEF ProdInv, ProdTypeOK, written
<1>7. UNCHANGED submitted
  BY DEF xsk_ring_prod__reserve, submitted
<1>8. CASE k < nb
  <2>1. UNCHANGED <<cached_prod, idx, producer, ring>>
    BY <1>4, <1>8 DEF xsk_ring_prod__reserve
  <2>2. reserved' = 0 /\ UNCHANGED written
    BY <1>2, <2>1 DEF reserved, written
  <2>3. room' = k
    BY <1>1, <1>4, <2>1 DEF room, xsk_prod_nb_free
  <2>4. ~(k >= nb)
    BY <1>5, <1>8
  <2> QED
    BY <1>2, <1>3, <1>7, <2>2, <2>3, <2>4 DEF Prod!Reserve
<1>9. CASE ~(k < nb)
  <2>1. /\ idx' = cached_prod /\ cached_prod' = Plus(cached_prod, nb)
        /\ UNCHANGED <<producer, ring>>
    BY <1>4, <1>9 DEF xsk_ring_prod__reserve
  <2>2. written' = <<>>
    <3>1. Minus(idx', producer') = 0
      BY <1>1, <2>1, Distance DEF ProdInv, ProdTypeOK
    <3> QED
      BY <3>1, EntriesNone DEF ProdInv, ProdTypeOK, written
  <2>3. reserved' = nb
    <3>1. Minus(cached_prod, producer) + nb < WORD
      BY <1>0, <1>2 DEF reserved
    <3>2. Minus(Plus(cached_prod, nb), producer) = Minus(cached_prod, producer) + nb
      BY <1>5, <3>1, AdvanceTo DEF ProdInv, ProdTypeOK
    <3> QED
      BY <1>2, <1>5, <2>1, <3>2 DEF reserved
  <2>4. room' = k - nb
    <3>1. Minus(cached_cons', cached_prod) = k
      BY <1>1, <1>4 DEF xsk_prod_nb_free
    <3>2. nb <= Minus(cached_cons', cached_prod)
      BY <1>5, <1>9, <3>1
    <3>3. Minus(cached_cons', Plus(cached_prod, nb)) = Minus(cached_cons', cached_prod) - nb
      BY <1>5, <3>2, AdvanceFrom DEF ProdInv, ProdTypeOK
    <3> QED
      BY <2>1, <3>1, <3>3 DEF room
  <2>5. k >= nb
    BY <1>5, <1>9
  <2> QED
    BY <1>2, <1>3, <1>6, <1>7, <2>2, <2>3, <2>4, <2>5 DEF Prod!Reserve
<1> QED
  BY <1>8, <1>9

\* A write of a descriptor.
LEMMA WriteWrites ==
  ASSUME ProdInv, NEW v \in Entry, Write(v)
  PROVE  Prod!Write(v)
<1>0. WORD \in Nat /\ Size \in Nat \ {0} /\ 2 * Size <= WORD
  BY RingAssumption
<1>t. /\ producer \in Index /\ consumer \in Index /\ idx \in Index
      /\ cached_prod \in Index /\ ring \in Slots(Entry)
  BY DEF ProdInv, ProdTypeOK
<1>1. PICK n \in Nat : n = Minus(idx, producer)
  BY ProdView
<1>2. PICK m \in Nat : m = Minus(producer, consumer)
  BY ProdView
<1>3. n < reserved
  <2>1. Minus(idx, producer) # reserved
    BY <1>t, Arrive DEF Write, reserved
  <2> QED
    BY <1>1, <2>1, ProdView
<1>4. m + n < Size /\ n < Size /\ m <= m + n
  BY <1>0, <1>1, <1>2, <1>3, ProdView
<1>5. idx = Plus(producer, n)
  BY <1>t, <1>1, Arrive
<1>6. idx = Plus(consumer, m + n)
  <2>1. producer = Plus(consumer, m)
    BY <1>t, <1>2, Arrive
  <2>2. m + n < WORD
    BY <1>0, <1>4
  <2> QED
    BY <1>t, <1>5, <2>1, <2>2, PlusPlus
<1>7. /\ ring' \in Slots(Entry) /\ ring'[Slot(idx)] = v
      /\ \A j \in 0 .. Size - 1 : j # Slot(idx) => ring'[j] = ring[j]
  BY <1>t, SlotType DEF Write, Slots
<1>8. written' = Append(written, v)
  <2>1. Entries(ring', producer, n + 1) = Append(Entries(ring, producer, n), v)
    <3>1. /\ ring'[Slot(Plus(producer, n))] = v
          /\ \A j \in 0 .. Size - 1 : j # Slot(Plus(producer, n)) => ring'[j] = ring[j]
      BY <1>5, <1>7, Zenon
    <3>2. ring' \in Slots(Entry)
      BY <1>7
    <3> QED
      BY <1>t, <1>4, <3>1, <3>2, EntriesAppend
  <2>2. Minus(idx', producer') = n + 1 /\ producer' = producer
    <3>1. Minus(idx, producer) + 1 < WORD
      BY <1>0, <1>1, <1>4
    <3> QED
      BY <1>t, <1>1, <3>1, AdvanceTo DEF Write
  <2> QED
    BY <1>1, <2>1, <2>2 DEF written
<1>9. UNCHANGED submitted
  <2>1. PICK k \in Nat : k = m + n
    OBVIOUS
  <2>2. Entries(ring', consumer, m) = Entries(ring, consumer, m)
    <3>1. \A j \in 0 .. Size - 1 : j # Slot(Plus(consumer, k)) => ring'[j] = ring[j]
      BY <1>6, <1>7, <2>1, Zenon
    <3>2. m <= k /\ k < Size
      BY <1>4, <2>1
    <3> QED
      BY <1>t, <3>1, <3>2, EntriesKept
  <2> QED
    BY <1>2, <2>2 DEF Write, submitted
<1>10. UNCHANGED <<reserved, room>>
  BY DEF Write, reserved, room
<1>11. Len(written) < reserved
  BY <1>1, <1>3, ProdView
<1> QED
  BY <1>8, <1>9, <1>10, <1>11 DEF Prod!Write

\* A submit.
LEMMA SubmitSubmits ==
  ASSUME ProdInv, xsk_ring_prod__submit
  PROVE  Prod!Submit
<1>0. Size \in Nat
  BY RingAssumption
<1>t. /\ producer \in Index /\ consumer \in Index /\ idx \in Index
      /\ cached_prod \in Index /\ ring \in Slots(Entry)
  BY DEF ProdInv, ProdTypeOK
<1>1. idx = cached_prod /\ producer # cached_prod /\ producer' = cached_prod
  BY <1>t, Arrive DEF xsk_ring_prod__submit
<1>2. PICK n \in Nat : n = reserved
  BY ProdView
<1>3. PICK m \in Nat : m = Minus(producer, consumer)
  BY ProdView
<1>4. PICK k \in Nat : k = m + n /\ k <= Size
  BY <1>0, <1>2, <1>3, ProdView
<1>5. n > 0 /\ Minus(idx, producer) = n /\ Len(written) = n
  BY <1>t, <1>1, <1>2, Distance, ProdView DEF reserved
<1>6. producer = Plus(consumer, m) /\ cached_prod = Plus(producer, n)
  BY <1>t, <1>2, <1>3, Arrive DEF reserved
<1>7. Entries(ring, consumer, k) = Entries(ring, consumer, m) \o Entries(ring, producer, n)
  <2>1. Entries(ring, consumer, k)
          = Entries(ring, consumer, m) \o Entries(ring, Plus(consumer, m), n)
    BY <1>t, <1>4, EntriesDrop
  <2> QED
    BY <1>6, <2>1
<1>8. Minus(cached_prod, consumer) = k
  <2>1. Minus(producer, consumer) + n < WORD
    BY <1>3, <1>4, RingAssumption
  <2> QED
    BY <1>t, <1>3, <1>4, <1>6, <2>1, AdvanceTo
<1>9. submitted' = submitted \o written
  BY <1>1, <1>3, <1>5, <1>7, <1>8 DEF xsk_ring_prod__submit, submitted, written
<1>10. written' = <<>> /\ reserved' = 0
  <2>1. Minus(cached_prod, cached_prod) = 0
    BY <1>t, Distance
  <2>2. written' = Entries(ring, cached_prod, 0)
    BY <1>1, <2>1 DEF xsk_ring_prod__submit, written
  <2>3. Entries(ring, cached_prod, 0) = <<>>
    BY <1>t, EntriesNone
  <2> QED
    BY <1>1, <2>1, <2>2, <2>3 DEF xsk_ring_prod__submit, reserved
<1>11. UNCHANGED room
  BY DEF xsk_ring_prod__submit, room
<1> QED
  BY <1>2, <1>5, <1>9, <1>10, <1>11 DEF Prod!Submit

\* The kernel takes an entry.
LEMMA ConsumeTakes ==
  ASSUME ProdInv, KernelConsume
  PROVE  Prod!Take
<1>t. /\ producer \in Index /\ consumer \in Index /\ ring \in Slots(Entry)
  BY DEF ProdInv, ProdTypeOK
<1>0. Size \in Nat
  BY RingAssumption
<1>1. PICK m \in Nat : m = Minus(producer, consumer)
  BY ProdView
<1>2. m <= Size /\ m # 0
  <2>1. m # 0
    BY <1>t, <1>1, Distance DEF KernelConsume
  <2> QED
    BY <1>0, <1>1, <2>1, ProdView
<1>3. PICK n \in Nat : m = 1 + n
  BY <1>2
<1>4. Entries(ring, Plus(consumer, 1), n) = SubSeq(submitted, 1 + 1, m)
  <2>1. Entries(ring, Plus(consumer, 1), n) = SubSeq(Entries(ring, consumer, m), 1 + 1, m)
    BY <1>t, <1>2, <1>3, EntriesDrop
  <2> QED
    BY <1>1, <2>1 DEF submitted
<1>5. Minus(producer, consumer') = n /\ consumer' = Plus(consumer, 1)
  <2>1. 1 <= Minus(producer, consumer)
    BY <1>1, <1>3
  <2>2. Minus(producer, Plus(consumer, 1)) = Minus(producer, consumer) - 1
    BY <1>t, <2>1, AdvanceFrom
  <2> QED
    BY <1>1, <1>3, <2>2 DEF KernelConsume
<1>6. submitted' = SubSeq(submitted, 2, m)
  BY <1>4, <1>5 DEF KernelConsume, submitted
<1>7. submitted \in Seq(Entry) /\ Len(submitted) = m
  BY <1>1, ProdView
<1>8. submitted # <<>> /\ submitted' = Tail(submitted)
  <2>1. PICK s \in Seq(Entry) : s = submitted /\ Len(s) = m
    BY <1>7
  <2>2. s # <<>>
    BY <1>2, <2>1
  <2>3. Tail(s) = SubSeq(s, 2, m)
    BY <2>1, <2>2
  <2> QED
    BY <1>6, <2>1, <2>2, <2>3
<1>9. UNCHANGED <<written, reserved, room>>
  BY DEF KernelConsume, written, reserved, room
<1> QED
  BY <1>8, <1>9 DEF Prod!Take

\* For every ring size and word width, the producer ring implements the bounded
\* channel: the kernel takes exactly what was written and submitted, in order,
\* and xsk_ring_prod__reserve grants what the channel would.
THEOREM ProdRingRefines == ProdSpec => RefinesProdChannel
<1>1. ProdInit => ProdInv
  BY RingAssumption DEF ProdInit, ProdInv, ProdTypeOK, IndexOrder, Index, Minus
<1>2. ProdInit => Prod!Init
  <2> SUFFICES ASSUME ProdInit PROVE Prod!Init
    OBVIOUS
  <2>1. Minus(0, 0) = 0 /\ Minus(Size, 0) = Size /\ 0 \in Index
    BY RingAssumption DEF Minus, Index
  <2>2. Entries(ring, 0, 0) = <<>>
    BY <2>1, EntriesNone DEF ProdInit
  <2> QED
    BY <2>1, <2>2 DEF ProdInit, Prod!Init, submitted, written, reserved, room
<1>3. ProdInv /\ ProdInv' /\ [ProdNext]_prodVars => [Prod!Next]_(Prod!vars)
  <2> SUFFICES ASSUME ProdInv, ProdInv', [ProdNext]_prodVars PROVE [Prod!Next]_(Prod!vars)
    OBVIOUS
  <2>1. ASSUME NEW nb \in 0 .. Size, NbFree(nb) PROVE Prod!Next
    BY <2>1, NbFreeLooks DEF Prod!Next
  <2>2. ASSUME NEW nb \in 0 .. Size, xsk_ring_prod__reserve(nb) PROVE Prod!Next
    BY <2>2, ReserveReserves DEF Prod!Next
  <2>3. ASSUME NEW v \in Entry, Write(v) PROVE Prod!Next
    BY <2>3, WriteWrites DEF Prod!Next
  <2>4. CASE xsk_ring_prod__submit
    BY <2>4, SubmitSubmits DEF Prod!Next
  <2>5. CASE KernelConsume
    BY <2>5, ConsumeTakes DEF Prod!Next
  <2>6. CASE UNCHANGED prodVars
    BY <2>6, SMTT(30) DEF prodVars, Prod!vars, submitted, written, reserved, room
  <2> QED
    BY <2>1, <2>2, <2>3, <2>4, <2>5, <2>6 DEF ProdNext
<1> QED
  BY <1>1, <1>2, <1>3, ProdInvStep, PTL DEF ProdSpec, RefinesProdChannel, Prod!Spec

-----------------------------------------------------------------------------
(* The consumer ring *)

ConsInv == ConsTypeOK /\ ConsIndexOrder

\* Every step of the program on the ring, and every step of the kernel, keeps
\* the indices in ring order.
LEMMA ConsInvStep == ConsInv /\ [ConsNext]_consVars => ConsInv'
<1> SUFFICES ASSUME ConsInv, [ConsNext]_consVars PROVE ConsInv'
  OBVIOUS
<1> USE DEF ConsInv, ConsTypeOK, ConsIndexOrder
<1>0. WORD \in Nat /\ Size \in Nat \ {0} /\ 2 * Size <= WORD
  BY RingAssumption
<1>d. /\ Minus(producer, consumer) \in Nat /\ Minus(cached_cons, consumer) \in Nat
      /\ Minus(cached_prod, cached_cons) \in Nat /\ Minus(idx, consumer) \in Nat
  BY Distance
<1>1. ASSUME NEW nb \in 1 .. Size, xsk_ring_cons__peek(nb) PROVE ConsInv'
  <2> DEFINE seen == Minus(ConsRefreshed, cached_cons)
             n == xsk_cons_nb_avail(nb)
  <2>1. /\ cached_cons = consumer /\ cached_prod' = ConsRefreshed
        /\ idx' = (IF n > 0 THEN cached_cons ELSE idx)
        /\ cached_cons' = Plus(cached_cons, n)
        /\ UNCHANGED <<producer, consumer, ring, item>>
    BY <1>1 DEF xsk_ring_cons__peek
  <2>2. ConsRefreshed \in Index /\ seen \in Nat /\ seen <= Minus(producer, consumer)
    <3>1. CASE Minus(cached_prod, cached_cons) = 0
      BY <1>d, <2>1, <3>1 DEF ConsRefreshed
    <3>2. CASE Minus(cached_prod, cached_cons) # 0
      BY <1>d, <2>1, <3>2 DEF ConsRefreshed
    <3> QED
      BY <3>1, <3>2
  <2>3. n \in Nat /\ n <= seen
    BY <1>0, <2>2 DEF xsk_cons_nb_avail
  <2>4. /\ cached_cons' \in Index
        /\ Minus(cached_prod', cached_cons') = seen - n
    BY <2>1, <2>2, <2>3, AdvanceFrom
  <2>5. Minus(cached_cons, consumer) = 0
    BY <2>1, Distance
  <2>6. Minus(cached_cons', consumer) = n
    BY <1>0, <1>d, <2>1, <2>2, <2>3, <2>5, AdvanceTo
  <2>7. idx' \in Index /\ Minus(idx', consumer) = 0
    BY <1>d, <2>1, <2>5
  <2> HIDE DEF seen, n
  <2> QED
    BY <1>0, <1>d, <2>1, <2>2, <2>3, <2>4, <2>6, <2>7
<1>2. CASE Read
  <2>1. ring[Slot(idx)] \in Entry
    BY SlotType DEF Slots
  <2>2. Minus(idx, consumer) # Minus(cached_cons, consumer)
    BY <1>2, Arrive DEF Read
  <2>3. idx' \in Index /\ Minus(idx', consumer) = Minus(idx, consumer) + 1
    <3>1. Minus(idx, consumer) + 1 < WORD
      BY <1>0, <1>d, <2>2
    <3>2. idx' = Plus(idx, 1)
      BY <1>2 DEF Read
    <3> QED
      BY <3>1, <3>2, AdvanceTo
  <2> QED
    BY <1>d, <1>2, <2>1, <2>2, <2>3 DEF Read
<1>3. CASE xsk_ring_cons__release
  <2>1. consumer' = cached_cons /\ idx = cached_cons
    BY <1>3, Arrive DEF xsk_ring_cons__release
  <2>2. Minus(producer, cached_cons) = Minus(producer, consumer) - Minus(cached_cons, consumer)
    BY <1>d, AdvanceFrom, Arrive
  <2>3. Minus(cached_cons, cached_cons) = 0
    BY Distance
  <2> QED
    BY <1>0, <1>d, <1>3, <2>1, <2>2, <2>3 DEF xsk_ring_cons__release
<1>4. ASSUME NEW v \in Entry, KernelProduce(v) PROVE ConsInv'
  <2>1. ring' \in Slots(Entry)
    BY <1>4, Zenon DEF KernelProduce, Slots
  <2>2. producer' \in Index /\ Minus(producer', consumer) = Minus(producer, consumer) + 1
    <3>1. producer' = Plus(producer, 1) /\ Minus(producer, consumer) < Size
      BY <1>4 DEF KernelProduce
    <3>2. Minus(producer, consumer) + 1 < WORD
      BY <1>0, <1>d, <3>1
    <3> QED
      BY <3>1, <3>2, AdvanceTo
  <2> QED
    BY <1>0, <1>d, <1>4, <2>1, <2>2 DEF KernelProduce
<1>5. CASE UNCHANGED consVars
  BY <1>5 DEF consVars
<1> QED
  BY <1>1, <1>2, <1>3, <1>4, <1>5 DEF ConsNext

\* For every ring size and word width, what xsk_ring_cons__peek hands out has
\* been produced, and the kernel does not reuse its slots before the release.
THEOREM ConsRingSafe == ConsSpec => [](ConsTypeOK /\ ConsIndexOrder)
<1>1. ConsInit => ConsInv
  BY RingAssumption DEF ConsInit, ConsInv, ConsTypeOK, ConsIndexOrder, Index, Minus
<1> QED
  BY <1>1, ConsInvStep, PTL DEF ConsSpec, ConsInv

-----------------------------------------------------------------------------
(* The refinement *)

\* Numbers and sequences of the view, from the order of the indices.
LEMMA ConsView ==
  ASSUME ConsInv
  PROVE  /\ peeked \in Nat /\ taken \in Nat /\ known \in Nat
         /\ Minus(producer, consumer) \in Nat /\ Minus(producer, consumer) <= Size
         /\ taken <= peeked /\ peeked + known <= Minus(producer, consumer)
         /\ produced \in Seq(Entry) /\ Len(produced) = Minus(producer, consumer)
<1>1. /\ peeked \in Nat /\ taken \in Nat /\ known \in Nat
      /\ Minus(producer, consumer) \in Nat
  BY Distance DEF ConsInv, ConsTypeOK, peeked, taken, known
<1>2. /\ taken <= peeked /\ peeked + known <= Minus(producer, consumer)
      /\ Minus(producer, consumer) <= Size
  BY DEF ConsInv, ConsIndexOrder, peeked, taken, known
<1>3. produced \in Seq(Entry) /\ Len(produced) = Minus(producer, consumer)
  BY <1>1, <1>2, EntriesType DEF ConsInv, ConsTypeOK, produced
<1> QED
  BY <1>1, <1>2, <1>3

\* A peek of the ring is one of the channel.
LEMMA PeekPeeks ==
  ASSUME ConsInv, NEW nb \in 1 .. Size, xsk_ring_cons__peek(nb)
  PROVE  Cons!Peek(nb)
<1>0. WORD \in Nat /\ Size \in Nat \ {0} /\ 2 * Size <= WORD
  BY RingAssumption
<1>t. /\ producer \in Index /\ consumer \in Index /\ idx \in Index
      /\ cached_prod \in Index /\ cached_cons \in Index
  BY DEF ConsInv, ConsTypeOK
<1>1. cached_cons = consumer /\ peeked = 0 /\ taken = 0
  <2>1. cached_cons = consumer
    BY DEF xsk_ring_cons__peek
  <2>2. peeked = 0
    BY <1>t, <2>1, Distance DEF peeked
  <2> QED
    BY <2>1, <2>2, ConsView
<1>2. PICK e \in Nat : /\ e = Minus(ConsRefreshed, cached_cons)
                       /\ e = IF known = 0 THEN Len(produced) ELSE known
  <2>1. CASE known = 0
    BY <1>1, <2>1, ConsView DEF ConsRefreshed, known
  <2>2. CASE known # 0
    BY <2>2, ConsView DEF ConsRefreshed, known
  <2> QED
    BY <2>1, <2>2
<1>3. PICK n \in Nat : n = xsk_cons_nb_avail(nb) /\ n = (IF e > nb THEN nb ELSE e)
  BY <1>0, <1>2 DEF xsk_cons_nb_avail
<1>4. /\ cached_prod' = ConsRefreshed /\ cached_cons' = Plus(cached_cons, n)
      /\ idx' = (IF n > 0 THEN cached_cons ELSE idx)
      /\ UNCHANGED <<producer, consumer, ring, item>>
  BY <1>3 DEF xsk_ring_cons__peek
<1>5. n <= e /\ e <= Size /\ n + 0 < WORD
  <2>1. e <= Size
    <3>1. e = Minus(producer, consumer) \/ e = known
      BY <1>2, ConsView
    <3> QED
      BY <1>0, <3>1, ConsView
  <2> QED
    BY <1>0, <1>3, <2>1
<1>6. ConsRefreshed \in Index
  BY <1>t DEF ConsRefreshed
<1>7. peeked' = n
  <2>1. Minus(cached_cons, consumer) + n < WORD
    BY <1>1, <1>5 DEF peeked
  <2>2. Minus(Plus(cached_cons, n), consumer) = Minus(cached_cons, consumer) + n
    BY <1>t, <2>1, AdvanceTo
  <2> QED
    BY <1>1, <1>4, <2>2 DEF peeked
<1>8. known' = e - n
  <2>1. Minus(ConsRefreshed, Plus(cached_cons, n)) = Minus(ConsRefreshed, cached_cons) - n
    <3>1. n \in Nat /\ n <= Minus(ConsRefreshed, cached_cons)
      BY <1>2, <1>5
    <3>2. ConsRefreshed \in Index /\ cached_cons \in Index
      BY <1>t, <1>6
    <3> QED
      BY <3>1, <3>2, AdvanceFrom, Zenon
  <2> QED
    BY <1>2, <1>4, <2>1, Zenon DEF known
<1>9. taken' = taken
  BY <1>1, <1>4 DEF taken, peeked
<1>10. UNCHANGED <<produced, item>>
  BY <1>4 DEF produced
<1> QED
  BY <1>1, <1>2, <1>3, <1>7, <1>8, <1>9, <1>10 DEF Cons!Peek

\* A read of a descriptor.
LEMMA ReadReads ==
  ASSUME ConsInv, Read
  PROVE  Cons!Read
<1>0. WORD \in Nat /\ Size \in Nat \ {0} /\ 2 * Size <= WORD
  BY RingAssumption
<1>t. /\ producer \in Index /\ consumer \in Index /\ idx \in Index
      /\ cached_cons \in Index
  BY DEF ConsInv, ConsTypeOK
<1>1. PICK n \in Nat : n = taken
  BY ConsView
<1>2. taken # peeked
  BY <1>t, Arrive DEF Read, taken, peeked
<1>3. n < peeked /\ n < Minus(producer, consumer) /\ n < Size
  BY <1>0, <1>1, <1>2, ConsView
<1>4. idx = Plus(consumer, n)
  BY <1>t, <1>1, Arrive DEF taken
<1>5. produced[n + 1] = ring[Slot(idx)]
  <2>1. n + 1 \in 1 .. Minus(producer, consumer) /\ (n + 1) - 1 = n
    BY <1>3, ConsView
  <2>2. produced[n + 1] = ring[Slot(Plus(consumer, (n + 1) - 1))]
    BY <2>1 DEF produced, Entries
  <2> QED
    BY <1>4, <2>1, <2>2
<1>6. taken' = taken + 1
  <2>1. Minus(idx, consumer) + 1 < WORD
    BY <1>0, <1>1, <1>3 DEF taken
  <2>2. Minus(Plus(idx, 1), consumer) = Minus(idx, consumer) + 1
    BY <1>t, <2>1, AdvanceTo
  <2> QED
    BY <2>2 DEF Read, taken
<1>7. item' = produced[taken + 1]
  BY <1>1, <1>5 DEF Read
<1>8. UNCHANGED <<produced, peeked, known>>
  BY DEF Read, produced, peeked, known
<1> QED
  BY <1>1, <1>3, <1>6, <1>7, <1>8 DEF Cons!Read

\* A release.
LEMMA ReleaseReleases ==
  ASSUME ConsInv, xsk_ring_cons__release
  PROVE  Cons!Release
<1>t. /\ producer \in Index /\ consumer \in Index /\ idx \in Index
      /\ cached_cons \in Index /\ ring \in Slots(Entry)
  BY DEF ConsInv, ConsTypeOK
<1>1. idx = cached_cons /\ consumer # cached_cons /\ consumer' = cached_cons
  BY <1>t, Arrive DEF xsk_ring_cons__release
<1>2. PICK m \in Nat : m = peeked
  BY ConsView
<1>3. PICK k \in Nat : k = Minus(producer, consumer)
  BY ConsView
<1>4. m > 0 /\ m <= k /\ k <= Size /\ taken = m
  <2>1. m # 0 /\ taken = m
    BY <1>t, <1>1, <1>2, Distance DEF peeked, taken
  <2> QED
    BY <1>2, <1>3, <2>1, ConsView
<1>5. PICK n \in Nat : k = m + n
  <2>1. k - m \in Nat /\ k = m + (k - m)
    BY <1>4
  <2> QED
    BY <2>1
<1>6. cached_cons = Plus(consumer, m)
  BY <1>t, <1>2, Arrive DEF peeked
<1>7. Entries(ring, Plus(consumer, m), n) = SubSeq(Entries(ring, consumer, k), m + 1, k)
  BY <1>t, <1>4, <1>5, EntriesDrop
<1>8. Minus(producer, cached_cons) = n
  <2>1. m <= Minus(producer, consumer)
    BY <1>3, <1>4
  <2>2. Minus(producer, Plus(consumer, m)) = Minus(producer, consumer) - m
    BY <1>t, <2>1, AdvanceFrom
  <2>3. k - m = n
    BY <1>5
  <2> QED
    BY <1>3, <1>6, <2>2, <2>3
<1>9. produced' = SubSeq(produced, peeked + 1, Len(produced))
  <2>1. Len(produced) = k /\ produced = Entries(ring, consumer, k)
    BY <1>3, ConsView DEF produced
  <2>2. produced' = Entries(ring, cached_cons, n)
    BY <1>1, <1>8 DEF xsk_ring_cons__release, produced
  <2> QED
    BY <1>2, <1>6, <1>7, <2>1, <2>2
<1>10. peeked' = 0 /\ taken' = 0
  BY <1>t, <1>1, Distance DEF xsk_ring_cons__release, peeked, taken
<1>11. UNCHANGED <<known, item>>
  BY DEF xsk_ring_cons__release, known
<1> QED
  BY <1>2, <1>4, <1>9, <1>10, <1>11 DEF Cons!Release

\* The kernel puts an entry.
LEMMA ProducePuts ==
  ASSUME ConsInv, NEW v \in Entry, KernelProduce(v)
  PROVE  Cons!Put(v)
<1>0. WORD \in Nat /\ Size \in Nat \ {0} /\ 2 * Size <= WORD
  BY RingAssumption
<1>t. producer \in Index /\ consumer \in Index /\ ring \in Slots(Entry)
  BY DEF ConsInv, ConsTypeOK
<1>1. PICK n \in Nat : n = Minus(producer, consumer)
  BY ConsView
<1>2. n < Size
  BY <1>1 DEF KernelProduce
<1>3. producer = Plus(consumer, n)
  BY <1>t, <1>1, Arrive
<1>4. /\ ring' \in Slots(Entry) /\ ring'[Slot(producer)] = v
      /\ \A j \in 0 .. Size - 1 : j # Slot(producer) => ring'[j] = ring[j]
  BY <1>t, SlotType DEF KernelProduce, Slots
<1>5. Entries(ring', consumer, n + 1) = Append(Entries(ring, consumer, n), v)
  <2>1. /\ ring'[Slot(Plus(consumer, n))] = v
        /\ \A j \in 0 .. Size - 1 : j # Slot(Plus(consumer, n)) => ring'[j] = ring[j]
    BY <1>3, <1>4, Zenon
  <2>2. ring' \in Slots(Entry)
    BY <1>4
  <2> QED
    BY <1>t, <1>2, <2>1, <2>2, EntriesAppend
<1>6. Minus(producer', consumer) = n + 1
  <2>1. Minus(producer, consumer) + 1 < WORD
    BY <1>0, <1>1, <1>2
  <2>2. Minus(Plus(producer, 1), consumer) = Minus(producer, consumer) + 1
    BY <1>t, <2>1, AdvanceTo
  <2> QED
    BY <1>1, <2>2 DEF KernelProduce
<1>7. produced' = Append(produced, v)
  BY <1>1, <1>5, <1>6, Zenon DEF KernelProduce, produced
<1>8. Len(produced) < Size
  BY <1>1, <1>2, ConsView
<1>9. UNCHANGED <<peeked, taken, known, item>>
  BY DEF KernelProduce, peeked, taken, known
<1> QED
  BY <1>7, <1>8, <1>9 DEF Cons!Put

\* For every ring size and word width, the consumer ring implements the bounded
\* channel: the program reads exactly what the kernel produced, in order, and
\* xsk_ring_cons__peek hands out what the channel would.
THEOREM ConsRingRefines == ConsSpec => RefinesConsChannel
<1>1. ConsInit => ConsInv
  BY RingAssumption DEF ConsInit, ConsInv, ConsTypeOK, ConsIndexOrder, Index, Minus
<1>2. ConsInit => Cons!Init
  <2> SUFFICES ASSUME ConsInit PROVE Cons!Init
    OBVIOUS
  <2>1. Minus(0, 0) = 0 /\ 0 \in Index
    BY RingAssumption DEF Minus, Index
  <2>2. Entries(ring, 0, 0) = <<>>
    BY <2>1, EntriesNone DEF ConsInit
  <2> QED
    BY <2>1, <2>2 DEF ConsInit, Cons!Init, produced, peeked, taken, known
<1>3. ConsInv /\ [ConsNext]_consVars => [Cons!Next]_(Cons!vars)
  <2> SUFFICES ASSUME ConsInv, [ConsNext]_consVars PROVE [Cons!Next]_(Cons!vars)
    OBVIOUS
  <2>1. ASSUME NEW nb \in 1 .. Size, xsk_ring_cons__peek(nb) PROVE Cons!Next
    BY <2>1, PeekPeeks DEF Cons!Next
  <2>2. CASE Read
    BY <2>2, ReadReads DEF Cons!Next
  <2>3. CASE xsk_ring_cons__release
    BY <2>3, ReleaseReleases DEF Cons!Next
  <2>4. ASSUME NEW v \in Entry, KernelProduce(v) PROVE Cons!Next
    BY <2>4, ProducePuts DEF Cons!Next
  <2>5. CASE UNCHANGED consVars
    BY <2>5 DEF consVars, Cons!vars, produced, peeked, taken, known
  <2> QED
    BY <2>1, <2>2, <2>3, <2>4, <2>5 DEF ConsNext
<1> QED
  BY <1>1, <1>2, <1>3, ConsInvStep, PTL DEF ConsSpec, RefinesConsChannel, Cons!Spec

-----------------------------------------------------------------------------
(* The inductive invariant of BpfLink *)

Kinds == {"kprobe", "uprobe", "tracepoint", "perf_event", "raw"}

EventRec ==
  [open : BOOLEAN, kind : Kinds, ret : BOOLEAN, pid : Int, cpu : Int, prog : LinkProgs \cup {"none"},
   enabled : BOOLEAN, own : BOOLEAN]

LinkRec == [fd : Nat, kind : Kinds, ret : BOOLEAN, pid : Int, prog : LinkProgs]

LinkTypeOK ==
  /\ lpc \in {"idle", "open", "link", "set_bpf", "enable", "undo", "raw"}
  /\ lpc # "idle" => req.kind \in Kinds
  /\ req.ret \in BOOLEAN /\ req.pid \in Int /\ prog \in LinkProgs
  /\ event \in Seq(EventRec) /\ links \subseteq LinkRec

\* A link in the caller's hands is the only one of its event, and its event
\* runs its program.
LinkOK(l) ==
  /\ l.fd \in DOMAIN event
  /\ event[l.fd].open /\ event[l.fd].enabled
  /\ event[l.fd].prog = l.prog /\ event[l.fd].kind = l.kind
  /\ l.kind \in {"kprobe", "uprobe"} => event[l.fd].ret = l.ret /\ event[l.fd].pid = l.pid
  /\ \A k \in links : k.fd = l.fd => k = l

Linked(e) == \E l \in links : l.fd = e

\* An event that runs is linked, and so is an open one that libbpf opened,
\* but for the one of the call in progress.
EventOK(e) ==
  /\ event[e].own <=> event[e].kind = "perf_event"
  /\ event[e].open /\ event[e].enabled => Linked(e)
  /\ event[e].open /\ ~event[e].own /\ e # pfd => Linked(e)

\* The call in progress has an event to give back.
Working == lpc \in {"link", "set_bpf", "enable", "undo"} /\ req.kind # "raw"

\* The event of the call in progress is the one it was asked for; it is linked
\* only when it is the caller's own and has a program already.
CallOK ==
  /\ pfd \in DOMAIN event /\ event[pfd].open /\ event[pfd].kind = req.kind
  /\ req.kind \in {"kprobe", "uprobe"} => event[pfd].ret = req.ret /\ event[pfd].pid = req.pid
  /\ req.kind # "perf_event" \/ lpc = "enable" => ~Linked(pfd)
  /\ lpc = "enable" => event[pfd].prog = prog

LinkInv ==
  /\ LinkTypeOK
  /\ \A l \in links : LinkOK(l)
  /\ \A e \in DOMAIN event : EventOK(e)
  /\ IF Working THEN CallOK ELSE pfd = 0
  /\ lmem => lpc \in {"set_bpf", "enable", "raw"}
  /\ lpc = "open" => req.kind \notin {"raw", "perf_event"}
  /\ lpc = "raw" => req.kind = "raw"
  /\ lpc \in {"set_bpf", "enable"} => req.kind # "raw"

-----------------------------------------------------------------------------
(* What a step does to the events *)

\* A new event leaves the others as they are.
LEMMA Appended ==
  ASSUME event \in Seq(EventRec), NEW v \in EventRec, event' = Append(event, v)
  PROVE  /\ event' \in Seq(EventRec) /\ Len(event') \in Nat /\ Len(event') # 0
         /\ DOMAIN event' = DOMAIN event \cup {Len(event')} /\ Len(event') \notin DOMAIN event
         /\ event'[Len(event')] = v
         /\ \A e \in DOMAIN event : e # 0 /\ event'[e] = event[e]
<1>1. /\ event' \in Seq(EventRec) /\ Len(event') = Len(event) + 1
      /\ \A n \in 1 .. Len(event) : event'[n] = event[n]
      /\ event'[Len(event) + 1] = v
  OBVIOUS
<1>2. Len(event) \in Nat /\ DOMAIN event = 1 .. Len(event) /\ DOMAIN event' = 1 .. Len(event')
  BY <1>1
<1> QED
  BY <1>1, <1>2

\* A change of one event leaves the others as they are.
LEMMA Changed ==
  ASSUME event \in Seq(EventRec), NEW d \in DOMAIN event, NEW v \in EventRec, event' = [event EXCEPT ![d] = v]
  PROVE  /\ event' \in Seq(EventRec) /\ DOMAIN event' = DOMAIN event /\ event'[d] = v
         /\ \A e \in DOMAIN event : e # d => event'[e] = event[e]
OBVIOUS

\* The events are records, and their indices start at 1.
LEMMA EventAt ==
  ASSUME event \in Seq(EventRec), NEW e \in DOMAIN event
  PROVE  event[e] \in EventRec /\ e \in Nat /\ e # 0
OBVIOUS

\* A step that touches neither the events nor the links keeps what is said of
\* the links, and of the events too while the call keeps its event.
LEMMA Untouched ==
  ASSUME UNCHANGED <<event, links>>
  PROVE  /\ (\A l \in links : LinkOK(l)) => (\A l \in links : LinkOK(l))'
         /\ \A e : Linked(e)' <=> Linked(e)
         /\ pfd' = pfd => ((\A e \in DOMAIN event : EventOK(e)) => (\A e \in DOMAIN event : EventOK(e))')
<1>1. \A e : Linked(e)' <=> Linked(e)
  BY DEF Linked
<1>2. (\A l \in links : LinkOK(l)) => (\A l \in links : LinkOK(l))'
  BY Zenon DEF LinkOK
<1>3. ASSUME pfd' = pfd, \A e \in DOMAIN event : EventOK(e) PROVE (\A e \in DOMAIN event : EventOK(e))'
  BY <1>1, <1>3, Zenon DEF EventOK
<1> QED
  BY <1>1, <1>2, <1>3, Zenon

-----------------------------------------------------------------------------
(* The calls begin *)

\* A call that opens an event, or needs none, begins.
LEMMA OpensStep ==
  ASSUME LinkInv, NEW r \in Requests, NEW p \in LinkProgs,
         \/ r.kind \in {"kprobe", "uprobe", "tracepoint"} /\ Start(r, p, "open")
         \/ r.kind = "raw" /\ Start(r, p, "link"),
         pfd' = 0
  PROVE  LinkInv'
<1>1. r.ret \in BOOLEAN /\ r.pid \in Int
  BY LinkAssumption
<1>2. LinkTypeOK'
  BY <1>1 DEF LinkInv, LinkTypeOK, Start, Kinds
<1>3. pfd = 0 /\ ~lmem
  BY DEF LinkInv, Working, Start
<1>4. UNCHANGED <<event, links, pfd, lmem>>
  BY <1>3 DEF Start
<1>5. (\A l \in links : LinkOK(l))' /\ (\A e \in DOMAIN event : EventOK(e))'
  BY <1>4, Untouched, Zenon DEF LinkInv
<1>6. ~Working' /\ pfd' = 0
  BY DEF Working, Start
<1>7. /\ (lpc = "open" => req.kind \notin {"raw", "perf_event"})'
      /\ (lpc = "raw" => req.kind = "raw")' /\ (lpc \in {"set_bpf", "enable"} => req.kind # "raw")'
      /\ (lmem => lpc \in {"set_bpf", "enable", "raw"})'
  BY <1>3, <1>4 DEF Start
<1> QED
  BY <1>2, <1>5, <1>6, <1>7, Zenon DEF LinkInv

\* A call with an event of the caller's own begins.
LEMMA PerfEventStep ==
  ASSUME LinkInv, NEW r \in Requests, NEW p \in LinkProgs, bpf_program__attach_perf_event(r, p)
  PROVE  LinkInv'
<1>1. r.ret \in BOOLEAN /\ r.pid \in Int
  BY LinkAssumption
<1>2. /\ lpc = "idle" /\ lpc' = "link" /\ req' = r /\ r.kind = "perf_event" /\ prog' = p
      /\ UNCHANGED <<event, links, lmem>>
  BY DEF bpf_program__attach_perf_event, Start
<1>3. LinkTypeOK'
  BY <1>1, <1>2 DEF LinkInv, LinkTypeOK, Kinds
<1>4. PICK d \in DOMAIN event : event[d].own /\ event[d].open /\ pfd' = d
  BY Zenon DEF bpf_program__attach_perf_event
<1>5. pfd = 0 /\ ~lmem
  BY <1>2 DEF LinkInv, Working
<1>6. (\A l \in links : LinkOK(l))' /\ \A e : Linked(e)' <=> Linked(e)
  BY <1>2, Untouched, Zenon DEF LinkInv
<1>7. ASSUME NEW e \in DOMAIN event PROVE EventOK(e)'
  <2>1. EventOK(e) /\ e # 0
    BY EventAt, Zenon DEF LinkInv, LinkTypeOK
  <2> QED
    BY <2>1, <1>2, <1>5, <1>6, Zenon DEF EventOK
<1>8. event[d].kind = "perf_event"
  BY <1>4, Zenon DEF LinkInv, EventOK
<1>9. CallOK'
  BY <1>2, <1>4, <1>8 DEF CallOK
<1>10. Working'
  BY <1>2 DEF Working
<1>11. /\ (lpc = "open" => req.kind \notin {"raw", "perf_event"})'
       /\ (lpc = "raw" => req.kind = "raw")' /\ (lpc \in {"set_bpf", "enable"} => req.kind # "raw")'
       /\ (lmem => lpc \in {"set_bpf", "enable", "raw"})'
  BY <1>2, <1>5
<1>12. (\A e \in DOMAIN event : EventOK(e))'
  BY <1>2, <1>7, Zenon
<1> QED
  BY <1>3, <1>6, <1>9, <1>10, <1>11, <1>12, Zenon DEF LinkInv

-----------------------------------------------------------------------------
(* The calls end, and the caller acts between them *)

\* What a step out of a call to the caller has to leave behind.
LEMMA ReturnsStep ==
  ASSUME LinkInv, Returns, prog' \in LinkProgs, event' \in Seq(EventRec), links' \subseteq LinkRec, ~lmem',
         (\A l \in links : LinkOK(l))',
         \A e \in DOMAIN event' :
           /\ event'[e].own <=> event'[e].kind = "perf_event"
           /\ event'[e].open /\ (event'[e].enabled \/ ~event'[e].own) => Linked(e)'
  PROVE  LinkInv'
<1>1. lpc' = "idle" /\ req' = NoReq /\ pfd' = 0
  BY SMTT(30) DEF Returns
<1>2. LinkTypeOK'
  BY <1>1 DEF LinkInv, LinkTypeOK, NoReq
<1>3. (\A e \in DOMAIN event : EventOK(e))'
  BY Zenon DEF EventOK
<1>4. ~Working'
  BY <1>1 DEF Working
<1>5. /\ (lpc = "open" => req.kind \notin {"raw", "perf_event"})'
      /\ (lpc = "raw" => req.kind = "raw")' /\ (lpc \in {"set_bpf", "enable"} => req.kind # "raw")'
      /\ (lmem => lpc \in {"set_bpf", "enable", "raw"})'
  BY <1>1
<1> QED
  BY <1>1, <1>2, <1>3, <1>4, <1>5, Zenon DEF LinkInv

\* What an action of the caller between calls has to leave behind.
LEMMA IdleStep ==
  ASSUME LinkInv, lpc = "idle", UNCHANGED <<lpc, req, prog, pfd, lmem>>,
         event' \in Seq(EventRec), links' \subseteq LinkRec,
         (\A l \in links : LinkOK(l))', (\A e \in DOMAIN event : EventOK(e))'
  PROVE  LinkInv'
<1>1. LinkTypeOK'
  BY Zenon DEF LinkInv, LinkTypeOK
<1>2. ~Working /\ ~Working' /\ pfd = 0
  BY DEF LinkInv, Working
<1>3. /\ (lpc = "open" => req.kind \notin {"raw", "perf_event"})'
      /\ (lpc = "raw" => req.kind = "raw")' /\ (lpc \in {"set_bpf", "enable"} => req.kind # "raw")'
      /\ (lmem => lpc \in {"set_bpf", "enable", "raw"})'
  BY DEF LinkInv
<1> QED
  BY <1>1, <1>2, <1>3, Zenon DEF LinkInv

\* Opening an event keeps the links, none of which reaches it.
LEMMA AppendKeeps ==
  ASSUME LinkInv, NEW v \in EventRec, event' = Append(event, v), links' = links
  PROVE  /\ (\A l \in links : LinkOK(l))'
         /\ \A e : Linked(e)' <=> Linked(e)
         /\ \A l \in links : l.fd # Len(event')
<1>1. event \in Seq(EventRec) /\ \A l \in links : LinkOK(l)
  BY Zenon DEF LinkInv, LinkTypeOK
<1>2. /\ DOMAIN event' = DOMAIN event \cup {Len(event')} /\ Len(event') \notin DOMAIN event
      /\ \A e \in DOMAIN event : event'[e] = event[e]
  BY <1>1, Appended, Zenon
<1>3. \A e : Linked(e)' <=> Linked(e)
  BY DEF Linked
<1>4. ASSUME NEW l \in links PROVE LinkOK(l)'
  <2>1. LinkOK(l) /\ l.fd \in DOMAIN event'
    BY <1>1, <1>2, Zenon DEF LinkOK
  <2>2. event'[l.fd] = event[l.fd]
    BY <1>2, <2>1, Zenon DEF LinkOK
  <2> QED
    BY <2>1, <2>2, Zenon DEF LinkOK
<1>5. \A l \in links : l.fd # Len(event')
  BY <1>1, <1>2, Zenon DEF LinkOK
<1> QED
  BY <1>3, <1>4, <1>5, Zenon

\* UserEvent: the new event is the caller's own, and disabled.
LEMMA UserEventStep ==
  ASSUME LinkInv, UserEvent
  PROVE  LinkInv'
<1> DEFINE v == Event("perf_event", FALSE, -1, 0, TRUE)
<1>1. v \in EventRec /\ v.kind = "perf_event" /\ v.own /\ ~v.enabled
  BY DEF Event, EventRec, Kinds
<1>2. /\ lpc = "idle" /\ UNCHANGED <<lpc, req, prog, pfd, lmem>> /\ links' = links
      /\ event' = Append(event, v)
  BY DEF UserEvent
<1> HIDE DEF v
<1>3. (\A l \in links : LinkOK(l))' /\ \A e : Linked(e)' <=> Linked(e)
  BY <1>1, <1>2, AppendKeeps, Zenon
<1>4. event \in Seq(EventRec) /\ links' \subseteq LinkRec
  BY <1>2 DEF LinkInv, LinkTypeOK
<1>5. /\ event' \in Seq(EventRec) /\ DOMAIN event' = DOMAIN event \cup {Len(event')}
      /\ event'[Len(event')] = v /\ \A e \in DOMAIN event : event'[e] = event[e]
  BY <1>1, <1>2, <1>4, Appended, Zenon
<1>6. ASSUME NEW e \in DOMAIN event PROVE EventOK(e)'
  <2>1. EventOK(e) /\ event'[e] = event[e] /\ pfd' = pfd
    BY <1>2, <1>5, Zenon DEF LinkInv
  <2> QED
    BY <2>1, <1>3, Zenon DEF EventOK
<1>7. EventOK(Len(event))'
  BY <1>1, <1>5, Zenon DEF EventOK
<1>8. (\A e \in DOMAIN event : EventOK(e))'
  BY <1>5, <1>6, <1>7, Zenon
<1> QED
  BY <1>2, <1>3, <1>4, <1>5, <1>8, IdleStep, Zenon

\* Unload: the object's descriptors are closed, and nothing else.
LEMMA UnloadStep ==
  ASSUME LinkInv, Unload
  PROVE  LinkInv'
<1>1. lpc = "idle" /\ UNCHANGED <<lpc, req, prog, pfd, lmem, event, links>>
  BY DEF Unload
<1>2. (\A l \in links : LinkOK(l))' /\ (\A e \in DOMAIN event : EventOK(e))'
  BY <1>1, Untouched, Zenon DEF LinkInv
<1>3. event' \in Seq(EventRec) /\ links' \subseteq LinkRec
  BY <1>1 DEF LinkInv, LinkTypeOK
<1> QED
  BY <1>1, <1>2, <1>3, IdleStep, Zenon

\* Changing an event no remaining link reaches keeps the remaining links.
LEMMA ChangeKeeps ==
  ASSUME LinkInv, NEW d \in DOMAIN event, NEW v \in EventRec, event' = [event EXCEPT ![d] = v],
         links' \subseteq links, \A l \in links' : l.fd # d
  PROVE  (\A l \in links : LinkOK(l))'
<1>1. event \in Seq(EventRec) /\ \A l \in links : LinkOK(l)
  BY Zenon DEF LinkInv, LinkTypeOK
<1>2. DOMAIN event' = DOMAIN event /\ \A e \in DOMAIN event : e # d => event'[e] = event[e]
  BY <1>1, Changed, Zenon
<1>3. ASSUME NEW l \in links' PROVE LinkOK(l)'
  <2>1. l \in links /\ l.fd # d
    BY Zenon
  <2>2. LinkOK(l) /\ l.fd \in DOMAIN event'
    BY <1>1, <1>2, <2>1, Zenon DEF LinkOK
  <2>3. event'[l.fd] = event[l.fd]
    BY <1>2, <2>1, <2>2, Zenon
  <2>4. \A k \in links' : k.fd = l.fd => k = l
    BY <2>2, Zenon DEF LinkOK
  <2> QED
    BY <2>2, <2>3, <2>4, Zenon DEF LinkOK
<1> QED
  BY <1>3, Zenon

\* UserClose: an event of the caller's own that no link reaches is closed.
LEMMA UserCloseStep ==
  ASSUME LinkInv, NEW d \in DOMAIN event, UserClose(d)
  PROVE  LinkInv'
<1> DEFINE v == [event[d] EXCEPT !.open = FALSE]
<1>1. /\ lpc = "idle" /\ UNCHANGED <<lpc, req, prog, pfd, lmem>> /\ links' = links
      /\ event' = [event EXCEPT ![d] = v] /\ \A l \in links : l.fd # d
  BY DEF UserClose
<1>2. event \in Seq(EventRec) /\ links' \subseteq LinkRec
  BY <1>1 DEF LinkInv, LinkTypeOK
<1>3. event[d] \in EventRec
  BY <1>2, EventAt
<1>4. v \in EventRec /\ ~v.open /\ v.own = event[d].own /\ v.kind = event[d].kind
  BY <1>3, Zenon DEF EventRec
<1> HIDE DEF v
<1>5. /\ event' \in Seq(EventRec) /\ DOMAIN event' = DOMAIN event
      /\ event'[d] = v /\ \A e \in DOMAIN event : e # d => event'[e] = event[e]
  BY <1>1, <1>2, <1>4, Changed, Zenon
<1>6. (\A l \in links : LinkOK(l))'
  BY <1>1, <1>4, ChangeKeeps, Zenon
<1>7. ASSUME NEW e \in DOMAIN event PROVE EventOK(e)'
  <2>1. EventOK(e) /\ EventOK(d) /\ pfd' = pfd /\ (Linked(e)' <=> Linked(e))
    BY <1>1, Zenon DEF LinkInv, Linked
  <2> QED
    BY <2>1, <1>4, <1>5, Zenon DEF EventOK
<1>8. (\A e \in DOMAIN event : EventOK(e))'
  BY <1>5, <1>7, Zenon
<1> QED
  BY <1>1, <1>2, <1>5, <1>6, <1>8, IdleStep, Zenon

\* bpf_link__destroy: the event of the link is closed, disabled or not.
LEMMA DestroyStep ==
  ASSUME LinkInv, NEW m \in links, bpf_link__destroy(m)
  PROVE  LinkInv'
<1> DEFINE d == m.fd
<1>1. /\ lpc = "idle" /\ UNCHANGED <<lpc, req, prog, pfd, lmem>> /\ links' = links \ {m}
  BY DEF bpf_link__destroy
<1>2. event \in Seq(EventRec) /\ links' \subseteq LinkRec /\ LinkOK(m)
  BY <1>1, Zenon DEF LinkInv, LinkTypeOK
<1>3. d \in DOMAIN event /\ \A l \in links' : l.fd # d
  BY <1>1, <1>2 DEF LinkOK
<1>4. event[d] \in EventRec
  BY <1>2, <1>3, EventAt, Zenon
<1>5. \E v \in EventRec : /\ event' = [event EXCEPT ![d] = v]
                          /\ ~v.open /\ v.own = event[d].own /\ v.kind = event[d].kind
  <2>1. CASE event' = [event EXCEPT ![d].open = FALSE, ![d].enabled = FALSE]
    <3> DEFINE w == [event[d] EXCEPT !.open = FALSE, !.enabled = FALSE]
    <3>1. event' = [event EXCEPT ![d] = w]
      BY <2>1, <1>3, Zenon
    <3>2. w \in EventRec /\ ~w.open /\ w.own = event[d].own /\ w.kind = event[d].kind
      BY <1>4, Zenon DEF EventRec
    <3> HIDE DEF w
    <3> QED
      BY <3>1, <3>2, Zenon
  <2>2. CASE event' = [event EXCEPT ![d].open = FALSE]
    <3> DEFINE w == [event[d] EXCEPT !.open = FALSE]
    <3>1. event' = [event EXCEPT ![d] = w]
      BY <2>2
    <3>2. w \in EventRec /\ ~w.open /\ w.own = event[d].own /\ w.kind = event[d].kind
      BY <1>4, Zenon DEF EventRec
    <3> HIDE DEF w
    <3> QED
      BY <3>1, <3>2, Zenon
  <2> QED
    BY <2>1, <2>2, Zenon DEF bpf_link__destroy
<1>6. PICK v \in EventRec : /\ event' = [event EXCEPT ![d] = v]
                            /\ ~v.open /\ v.own = event[d].own /\ v.kind = event[d].kind
  BY <1>5, Zenon
<1> HIDE DEF d
<1>7. /\ event' \in Seq(EventRec) /\ DOMAIN event' = DOMAIN event
      /\ event'[d] = v /\ \A e \in DOMAIN event : e # d => event'[e] = event[e]
  BY <1>2, <1>3, <1>6, Changed, Zenon
<1>8. (\A l \in links : LinkOK(l))'
  BY <1>1, <1>3, <1>6, ChangeKeeps, Zenon
<1>9. ASSUME NEW e \in DOMAIN event PROVE EventOK(e)'
  <2>1. EventOK(e) /\ EventOK(d) /\ pfd' = pfd
    BY <1>1, <1>3, Zenon DEF LinkInv
  <2>2. e # d => (Linked(e)' <=> Linked(e))
    BY <1>1, Zenon DEF Linked, d
  <2> QED
    BY <2>1, <2>2, <1>6, <1>7, Zenon DEF EventOK
<1>10. (\A e \in DOMAIN event : EventOK(e))'
  BY <1>7, <1>9, Zenon
<1> QED
  BY <1>1, <1>2, <1>7, <1>8, <1>10, IdleStep, Zenon

-----------------------------------------------------------------------------
(* The steps of a call *)

\* A call that could not open its event returns.
LEMMA OpenFailsStep ==
  ASSUME LinkInv, lpc = "open", Returns, UNCHANGED <<prog, lmem, event, links>>
  PROVE  LinkInv'
<1>1. pfd = 0 /\ ~lmem /\ pfd' = pfd
  BY DEF LinkInv, Working, Returns
<1>2. /\ (\A l \in links : LinkOK(l))' /\ (\A e \in DOMAIN event : EventOK(e))'
      /\ \A e : Linked(e)' <=> Linked(e)
  BY <1>1, Untouched, Zenon DEF LinkInv
<1>3. event \in Seq(EventRec) /\ links \subseteq LinkRec /\ prog \in LinkProgs
  BY DEF LinkInv, LinkTypeOK
<1>4. ASSUME NEW e \in DOMAIN event'
      PROVE  /\ event'[e].own <=> event'[e].kind = "perf_event"
             /\ event'[e].open /\ (event'[e].enabled \/ ~event'[e].own) => Linked(e)'
  <2>1. EventOK(e) /\ e # 0
    BY <1>3, EventAt, Zenon DEF LinkInv
  <2> QED
    BY <2>1, <1>1, <1>2, Zenon DEF EventOK
<1> QED
  BY <1>1, <1>2, <1>3, <1>4, ReturnsStep, Zenon

\* A call opened the event it was asked for.
LEMMA OpenedStep ==
  ASSUME LinkInv, lpc = "open", lpc' = "link", UNCHANGED <<req, prog, lmem, links>>,
         NEW v \in EventRec, event' = Append(event, v), pfd' = Len(event'),
         v.open, v.kind = req.kind, ~v.own, ~v.enabled,
         req.kind \in {"kprobe", "uprobe"} => v.ret = req.ret /\ v.pid = req.pid
  PROVE  LinkInv'
<1>1. event \in Seq(EventRec) /\ pfd = 0 /\ ~lmem /\ req.kind \notin {"raw", "perf_event"}
  BY DEF LinkInv, LinkTypeOK, Working
<1>2. /\ event' \in Seq(EventRec) /\ DOMAIN event' = DOMAIN event \cup {pfd'} /\ pfd' \notin DOMAIN event
      /\ event'[pfd'] = v /\ \A e \in DOMAIN event : e # 0 /\ event'[e] = event[e]
  BY <1>1, Appended, Zenon
<1>3. /\ (\A l \in links : LinkOK(l))' /\ \A e : Linked(e)' <=> Linked(e)
      /\ \A l \in links : l.fd # pfd'
  BY AppendKeeps, Zenon
<1>4. LinkTypeOK'
  BY <1>2 DEF LinkInv, LinkTypeOK
<1>5. ASSUME NEW e \in DOMAIN event PROVE EventOK(e)'
  <2>1. EventOK(e) /\ event'[e] = event[e] /\ e # pfd
    BY <1>1, <1>2, Zenon DEF LinkInv
  <2> QED
    BY <2>1, <1>3, Zenon DEF EventOK
<1>6. EventOK(pfd)'
  BY <1>1, <1>2, Zenon DEF EventOK
<1>7. (\A e \in DOMAIN event : EventOK(e))'
  BY <1>2, <1>5, <1>6, Zenon
<1>8. ~Linked(pfd)'
  BY <1>3, Zenon DEF Linked
<1>9. CallOK' /\ Working'
  BY <1>1, <1>2, <1>8 DEF CallOK, Working
<1>10. /\ (lpc = "open" => req.kind \notin {"raw", "perf_event"})'
       /\ (lpc = "raw" => req.kind = "raw")' /\ (lpc \in {"set_bpf", "enable"} => req.kind # "raw")'
       /\ (lmem => lpc \in {"set_bpf", "enable", "raw"})'
  BY <1>1
<1> QED
  BY <1>3, <1>4, <1>7, <1>9, <1>10, Zenon DEF LinkInv

\* perf_event_open_probe: the event decodes to what was asked for, at the entry
\* or the return, for the process or for every one.
LEMMA OpenProbeStep ==
  ASSUME LinkInv, perf_event_open_probe
  PROVE  LinkInv'
<1> DEFINE pid == IF req.pid < 0 THEN -1 ELSE req.pid
           cpu == ProbeCpu(req.pid)
           ret == req.ret /\ RetprobeBit(req.kind) = sys[req.kind].bit
           v == Event(req.kind, ret, pid, cpu, FALSE)
<1>1. /\ lpc = "open" /\ req.kind \in {"kprobe", "uprobe"} /\ UNCHANGED <<prog, lmem, links>>
      /\ req.ret \in BOOLEAN /\ req.pid \in Int
  BY DEF perf_event_open_probe, LinkInv, LinkTypeOK
<1>2. \/ Returns /\ event' = event
      \/ /\ ~(pid = -1 /\ cpu = -1) /\ event' = Append(event, v)
         /\ pfd' = Len(event') /\ lpc' = "link" /\ req' = req
  BY Zenon DEF perf_event_open_probe
<1>3. CASE Returns /\ event' = event
  BY <1>1, <1>3, OpenFailsStep, Zenon
<1>4. CASE /\ ~(pid = -1 /\ cpu = -1) /\ event' = Append(event, v)
           /\ pfd' = Len(event') /\ lpc' = "link" /\ req' = req
  <2>1. ret = req.ret
    BY <1>1 DEF RetprobeBit, parse_uint_from_file
  <2>2. pid = req.pid /\ cpu \in Int
    BY <1>1, <1>4, SMTT(30) DEF ProbeCpu
  <2> HIDE DEF pid, cpu, ret
  <2>3. v \in EventRec /\ v.open /\ v.kind = req.kind /\ ~v.own /\ ~v.enabled /\ v.ret = req.ret /\ v.pid = req.pid
    BY <1>1, <2>1, <2>2 DEF Event, EventRec, Kinds
  <2> HIDE DEF v
  <2> QED
    BY <1>1, <1>4, <2>3, OpenedStep, Zenon
<1> QED
  BY <1>2, <1>3, <1>4, Zenon

\* perf_event_open_tracepoint.
LEMMA OpenTracepointStep ==
  ASSUME LinkInv, perf_event_open_tracepoint
  PROVE  LinkInv'
<1> DEFINE v == Event("tracepoint", FALSE, -1, 0, FALSE)
<1>1. v \in EventRec /\ v.open /\ v.kind = "tracepoint" /\ ~v.own /\ ~v.enabled
  BY DEF Event, EventRec, Kinds
<1>2. lpc = "open" /\ req.kind = "tracepoint" /\ UNCHANGED <<prog, lmem, links>>
  BY DEF perf_event_open_tracepoint
<1>3. \/ Returns /\ event' = event
      \/ event' = Append(event, v) /\ pfd' = Len(event') /\ lpc' = "link" /\ req' = req
  BY Zenon DEF perf_event_open_tracepoint
<1> HIDE DEF v
<1>4. CASE Returns /\ event' = event
  BY <1>2, <1>4, OpenFailsStep, Zenon
<1>5. CASE event' = Append(event, v) /\ pfd' = Len(event') /\ lpc' = "link" /\ req' = req
  <2>1. req.kind \notin {"kprobe", "uprobe"}
    BY <1>2
  <2> QED
    BY <1>1, <1>2, <1>5, <2>1, OpenedStep, Zenon
<1> QED
  BY <1>3, <1>4, <1>5, Zenon

\* AllocLink: the events and the links are not touched.
LEMMA AllocLinkStep ==
  ASSUME LinkInv, AllocLink
  PROVE  LinkInv'
<1>1. /\ lpc = "link" /\ UNCHANGED <<req, prog, pfd, event, links>>
      /\ \/ lpc' = (IF req.kind = "raw" THEN "raw" ELSE "set_bpf")
         \/ lpc' = "undo" /\ lmem' = lmem
  BY Zenon DEF AllocLink
<1>2. ~lmem /\ (lmem' => lpc' # "undo") /\ lpc' \in {"raw", "set_bpf", "undo"}
  BY <1>1 DEF LinkInv
<1>3. /\ (\A l \in links : LinkOK(l))' /\ (\A e \in DOMAIN event : EventOK(e))'
      /\ \A e : Linked(e)' <=> Linked(e)
  BY <1>1, Untouched, Zenon DEF LinkInv
<1>4. LinkTypeOK'
  BY <1>1, <1>2 DEF LinkInv, LinkTypeOK
<1>5. /\ (lpc = "open" => req.kind \notin {"raw", "perf_event"})'
      /\ (lpc = "raw" => req.kind = "raw")' /\ (lpc \in {"set_bpf", "enable"} => req.kind # "raw")'
      /\ (lmem => lpc \in {"set_bpf", "enable", "raw"})'
  BY <1>1, <1>2
<1>6. CASE req.kind = "raw"
  <2>1. ~Working /\ ~Working' /\ pfd' = pfd
    BY <1>1, <1>6 DEF Working
  <2> QED
    BY <1>3, <1>4, <1>5, <2>1, Zenon DEF LinkInv
<1>7. CASE req.kind # "raw"
  <2>1. Working /\ Working' /\ lpc' # "enable"
    BY <1>1, <1>7 DEF Working
  <2>2. CallOK
    BY <2>1, Zenon DEF LinkInv
  <2>3. CallOK'
    BY <1>1, <1>3, <2>1, <2>2, Zenon DEF CallOK
  <2> QED
    BY <1>3, <1>4, <1>5, <2>1, <2>3, Zenon DEF LinkInv
<1> QED
  BY <1>6, <1>7, Zenon

\* SetBpf: an event that gets its program had none, so no link reaches it.
LEMMA SetBpfStep ==
  ASSUME LinkInv, SetBpf
  PROVE  LinkInv'
<1> DEFINE v == [event[pfd] EXCEPT !.prog = prog]
<1>1. /\ lpc = "set_bpf" /\ UNCHANGED <<req, prog, pfd, links>>
      /\ \/ event[pfd].prog = "none" /\ event' = [event EXCEPT ![pfd] = v] /\ lpc' = "enable" /\ lmem' = lmem
         \/ lmem' = FALSE /\ lpc' = "undo" /\ event' = event
  BY DEF SetBpf
<1>2. /\ event \in Seq(EventRec) /\ links \subseteq LinkRec /\ prog \in LinkProgs
      /\ req.kind # "raw" /\ Working /\ CallOK /\ pfd \in DOMAIN event
  BY <1>1 DEF LinkInv, LinkTypeOK, Working, CallOK
<1>3. event[pfd] \in EventRec
  BY <1>2, EventAt, Zenon
<1>4. /\ v \in EventRec /\ v.open = event[pfd].open /\ v.own = event[pfd].own /\ v.kind = event[pfd].kind
      /\ v.enabled = event[pfd].enabled /\ v.ret = event[pfd].ret /\ v.pid = event[pfd].pid /\ v.prog = prog
  BY <1>2, <1>3, Zenon DEF EventRec
<1> HIDE DEF v
<1>5. Working' /\ \A e : Linked(e)' <=> Linked(e)
  BY <1>1, <1>2 DEF Working, Linked
<1>6. CASE lmem' = FALSE /\ lpc' = "undo" /\ event' = event
  <2>1. (\A l \in links : LinkOK(l))' /\ (\A e \in DOMAIN event : EventOK(e))'
    BY <1>1, <1>6, Untouched, Zenon DEF LinkInv
  <2>2. LinkTypeOK'
    BY <1>1, <1>6 DEF LinkInv, LinkTypeOK
  <2>3. CallOK'
    BY <1>1, <1>2, <1>5, <1>6 DEF CallOK
  <2>4. /\ (lpc = "open" => req.kind \notin {"raw", "perf_event"})'
        /\ (lpc = "raw" => req.kind = "raw")' /\ (lpc \in {"set_bpf", "enable"} => req.kind # "raw")'
        /\ (lmem => lpc \in {"set_bpf", "enable", "raw"})'
    BY <1>6
  <2> QED
    BY <1>5, <2>1, <2>2, <2>3, <2>4, Zenon DEF LinkInv
<1>7. CASE event[pfd].prog = "none" /\ event' = [event EXCEPT ![pfd] = v] /\ lpc' = "enable" /\ lmem' = lmem
  <2>1. \A l \in links : l.fd # pfd
    <3>1. ASSUME NEW l \in links, l.fd = pfd PROVE FALSE
      <4>1. l.prog = "none" /\ l.prog \in LinkProgs
        BY <1>2, <1>7, <3>1 DEF LinkInv, LinkOK, LinkRec
      <4> QED
        BY <4>1, LinkAssumption, Zenon
    <3> QED
      BY <3>1, Zenon
  <2>2. /\ event' \in Seq(EventRec) /\ DOMAIN event' = DOMAIN event
        /\ event'[pfd] = v /\ \A e \in DOMAIN event : e # pfd => event'[e] = event[e]
    BY <1>2, <1>4, <1>7, Changed, Zenon
  <2>3. (\A l \in links : LinkOK(l))'
    <3>1. links' \subseteq links /\ \A l \in links' : l.fd # pfd
      BY <1>1, <2>1, Zenon
    <3> QED
      BY <1>2, <1>4, <1>7, <3>1, ChangeKeeps, Zenon
  <2>4. ASSUME NEW e \in DOMAIN event PROVE EventOK(e)'
    <3>1. EventOK(e) /\ pfd' = pfd
      BY <1>1, Zenon DEF LinkInv
    <3>2. event'[e].open = event[e].open /\ event'[e].own = event[e].own /\ event'[e].kind = event[e].kind
          /\ event'[e].enabled = event[e].enabled
      BY <1>4, <2>2, Zenon
    <3> QED
      BY <1>5, <3>1, <3>2, Zenon DEF EventOK
  <2>5. (\A e \in DOMAIN event : EventOK(e))'
    BY <2>2, <2>4, Zenon
  <2>6. ~Linked(pfd)
    BY <2>1, Zenon DEF Linked
  <2>7. CallOK'
    BY <1>1, <1>2, <1>4, <1>5, <2>2, <2>6, Zenon DEF CallOK
  <2>8. LinkTypeOK'
    BY <1>1, <1>7, <2>2 DEF LinkInv, LinkTypeOK
  <2>9. /\ (lpc = "open" => req.kind \notin {"raw", "perf_event"})'
        /\ (lpc = "raw" => req.kind = "raw")' /\ (lpc \in {"set_bpf", "enable"} => req.kind # "raw")'
        /\ (lmem => lpc \in {"set_bpf", "enable", "raw"})'
    BY <1>1, <1>2, <1>7
  <2> QED
    BY <1>5, <2>3, <2>5, <2>7, <2>8, <2>9, Zenon DEF LinkInv
<1> QED
  BY <1>1, <1>6, <1>7, Zenon

\* The caller gets the one link of an event that runs what was asked for.
LEMMA GivesLink ==
  ASSUME LinkInv, NEW d, links' = links \cup {Link(d)}, \A l \in links : l.fd # d,
         d \in DOMAIN event', event'[d].open, event'[d].enabled, event'[d].prog = prog, event'[d].kind = req.kind,
         req.kind \in {"kprobe", "uprobe"} => event'[d].ret = req.ret /\ event'[d].pid = req.pid,
         \A e \in DOMAIN event : e \in DOMAIN event' /\ (e # d => event'[e] = event[e])
  PROVE  /\ (\A l \in links : LinkOK(l))'
         /\ \A e \in DOMAIN event : e # d => (Linked(e)' <=> Linked(e))
         /\ \E l \in links' : l.fd = d
<1>0. PICK m : m = Link(d)
  BY Zenon
<1>1. m.fd = d /\ m.kind = req.kind /\ m.ret = req.ret /\ m.pid = req.pid /\ m.prog = prog
  BY <1>0 DEF Link
<1>2. links' = links \cup {m}
  BY <1>0
<1>3. ASSUME NEW l \in links PROVE LinkOK(l)'
  <2>1. LinkOK(l) /\ l.fd # d
    BY Zenon DEF LinkInv
  <2>2. l.fd \in DOMAIN event' /\ event'[l.fd] = event[l.fd]
    BY <2>1, Zenon DEF LinkOK
  <2>3. \A k \in links' : k.fd = l.fd => k = l
    BY <1>1, <1>2, <2>1, Zenon DEF LinkOK
  <2> QED
    BY <2>1, <2>2, <2>3, Zenon DEF LinkOK
<1>4. LinkOK(m)'
  <2>1. \A k \in links' : k.fd = m.fd => k = m
    BY <1>1, <1>2, Zenon
  <2> QED
    BY <1>1, <2>1, Zenon DEF LinkOK
<1>5. (\A l \in links : LinkOK(l))'
  BY <1>2, <1>3, <1>4, Zenon
<1>6. \A e \in DOMAIN event : e # d => (Linked(e)' <=> Linked(e))
  BY <1>1, <1>2, Zenon DEF Linked
<1> QED
  BY <1>1, <1>2, <1>5, <1>6, Zenon

\* Enable: the event is enabled and linked at once, or left to be closed.
LEMMA EnableStep ==
  ASSUME LinkInv, Enable
  PROVE  LinkInv'
<1> DEFINE v == [event[pfd] EXCEPT !.enabled = TRUE]
<1>1. /\ lpc = "enable" /\ prog' = prog /\ lmem' = FALSE
      /\ \/ event' = [event EXCEPT ![pfd] = v] /\ links' = links \cup {Link(pfd)} /\ Returns
         \/ lpc' = "undo" /\ UNCHANGED <<event, links, req, pfd>>
  BY Zenon DEF Enable
<1>2. /\ event \in Seq(EventRec) /\ links \subseteq LinkRec /\ prog \in LinkProgs
      /\ req.kind # "raw" /\ Working /\ CallOK /\ pfd \in DOMAIN event /\ ~Linked(pfd)
      /\ req.ret \in BOOLEAN /\ req.pid \in Int /\ req.kind \in Kinds
  BY <1>1 DEF LinkInv, LinkTypeOK, Working, CallOK
<1>3. event[pfd] \in EventRec /\ pfd \in Nat
  BY <1>2, EventAt, Zenon
<1>4. /\ v \in EventRec /\ v.open = event[pfd].open /\ v.own = event[pfd].own /\ v.kind = event[pfd].kind
      /\ v.enabled /\ v.ret = event[pfd].ret /\ v.pid = event[pfd].pid /\ v.prog = event[pfd].prog
  BY <1>3, Zenon DEF EventRec
<1> HIDE DEF v
<1>5. CASE event' = [event EXCEPT ![pfd] = v] /\ links' = links \cup {Link(pfd)} /\ Returns
  <2>1. /\ event' \in Seq(EventRec) /\ DOMAIN event' = DOMAIN event
        /\ event'[pfd] = v /\ \A e \in DOMAIN event : e # pfd => event'[e] = event[e]
    BY <1>2, <1>4, <1>5, Changed, Zenon
  <2>2. \A l \in links : l.fd # pfd
    BY <1>2, Zenon DEF Linked
  <2>3. /\ v.open /\ v.prog = prog /\ v.kind = req.kind
        /\ req.kind \in {"kprobe", "uprobe"} => v.ret = req.ret /\ v.pid = req.pid
    BY <1>1, <1>2, <1>4, Zenon DEF CallOK
  <2>4. /\ (\A l \in links : LinkOK(l))' /\ \E l \in links' : l.fd = pfd
        /\ \A e \in DOMAIN event : e # pfd => (Linked(e)' <=> Linked(e))
    <3>1. /\ pfd \in DOMAIN event' /\ event'[pfd].open /\ event'[pfd].enabled /\ event'[pfd].prog = prog
          /\ event'[pfd].kind = req.kind
          /\ req.kind \in {"kprobe", "uprobe"} => event'[pfd].ret = req.ret /\ event'[pfd].pid = req.pid
          /\ \A e \in DOMAIN event : e \in DOMAIN event' /\ (e # pfd => event'[e] = event[e])
      BY <1>2, <1>4, <2>1, <2>3, Zenon
    <3> QED
      BY <1>5, <2>2, <3>1, GivesLink, Zenon
  <2>5. links' \subseteq LinkRec
    <3>1. Link(pfd) \in LinkRec
      BY <1>2, <1>3 DEF Link, LinkRec
    <3> QED
      BY <1>2, <1>5, <3>1, ZenonT(30)
  <2>6. ASSUME NEW e \in DOMAIN event'
        PROVE  /\ event'[e].own <=> event'[e].kind = "perf_event"
               /\ event'[e].open /\ (event'[e].enabled \/ ~event'[e].own) => Linked(e)'
    <3>1. EventOK(e) /\ EventOK(pfd)
      BY <1>2, <2>1, Zenon DEF LinkInv
    <3>2. CASE e = pfd
      BY <1>4, <2>1, <2>4, <3>1, <3>2, Zenon DEF EventOK, Linked
    <3>3. CASE e # pfd
      BY <2>1, <2>4, <3>1, <3>3, Zenon DEF EventOK
    <3> QED
      BY <3>2, <3>3, Zenon
  <2> QED
    BY <1>1, <1>2, <1>5, <2>1, <2>4, <2>5, <2>6, ReturnsStep, Zenon
<1>6. CASE lpc' = "undo" /\ UNCHANGED <<event, links, req, pfd>>
  <2>1. /\ (\A l \in links : LinkOK(l))' /\ (\A e \in DOMAIN event : EventOK(e))'
        /\ \A e : Linked(e)' <=> Linked(e)
    BY <1>6, Untouched, Zenon DEF LinkInv
  <2>2. LinkTypeOK'
    BY <1>1, <1>6, SMTT(30) DEF LinkInv, LinkTypeOK
  <2>3. CallOK' /\ Working'
    BY <1>1, <1>2, <1>6, <2>1 DEF CallOK, Working
  <2>4. /\ (lpc = "open" => req.kind \notin {"raw", "perf_event"})'
        /\ (lpc = "raw" => req.kind = "raw")' /\ (lpc \in {"set_bpf", "enable"} => req.kind # "raw")'
        /\ (lmem => lpc \in {"set_bpf", "enable", "raw"})'
    BY <1>1, <1>6
  <2> QED
    BY <2>1, <2>2, <2>3, <2>4, Zenon DEF LinkInv
<1> QED
  BY <1>1, <1>5, <1>6, Zenon

\* CloseFailed: what libbpf opened is closed, and the caller's own event is
\* left open, disabled unless another link runs it.
LEMMA CloseFailedStep ==
  ASSUME LinkInv, CloseFailed
  PROVE  LinkInv'
<1> DEFINE v == [event[pfd] EXCEPT !.open = FALSE]
<1>1. /\ lpc = "undo" /\ UNCHANGED <<prog, lmem, links>> /\ Returns
      /\ event' = IF req.kind \in {"perf_event", "raw"} THEN event ELSE [event EXCEPT ![pfd] = v]
  BY DEF CloseFailed
<1>2. /\ event \in Seq(EventRec) /\ links \subseteq LinkRec /\ prog \in LinkProgs /\ ~lmem
      /\ IF req.kind # "raw" THEN CallOK ELSE pfd = 0
  BY <1>1 DEF LinkInv, LinkTypeOK, Working
<1>3. \A e : Linked(e)' <=> Linked(e)
  BY <1>1 DEF Linked
<1>4. CASE req.kind \in {"perf_event", "raw"}
  <2>1. event' = event /\ links' = links
    BY <1>1, <1>4
  <2>2. (\A l \in links : LinkOK(l))'
    BY <2>1, Untouched, Zenon DEF LinkInv
  <2>3. ASSUME NEW e \in DOMAIN event'
        PROVE  /\ event'[e].own <=> event'[e].kind = "perf_event"
               /\ event'[e].open /\ (event'[e].enabled \/ ~event'[e].own) => Linked(e)'
    <3>1. EventOK(e) /\ e # 0
      BY <1>2, <2>1, EventAt, Zenon DEF LinkInv
    <3>2. ~event[e].own => e # pfd
      BY <1>2, <1>4, <3>1 DEF CallOK, EventOK
    <3> QED
      BY <1>3, <2>1, <3>1, <3>2, Zenon DEF EventOK
  <2> QED
    BY <1>1, <1>2, <2>1, <2>2, <2>3, ReturnsStep, Zenon
<1>5. CASE req.kind \notin {"perf_event", "raw"}
  <2>1. CallOK /\ pfd \in DOMAIN event /\ ~Linked(pfd) /\ event' = [event EXCEPT ![pfd] = v]
    BY <1>1, <1>2, <1>5 DEF CallOK
  <2>2. event[pfd] \in EventRec
    BY <1>2, <2>1, EventAt, Zenon
  <2>3. v \in EventRec /\ ~v.open /\ v.own = event[pfd].own /\ v.kind = event[pfd].kind
    BY <2>2, Zenon DEF EventRec
  <2> HIDE DEF v
  <2>4. /\ event' \in Seq(EventRec) /\ DOMAIN event' = DOMAIN event
        /\ event'[pfd] = v /\ \A e \in DOMAIN event : e # pfd => event'[e] = event[e]
    BY <1>2, <2>1, <2>3, Changed, Zenon
  <2>5. (\A l \in links : LinkOK(l))'
    <3>1. links' \subseteq links /\ \A l \in links' : l.fd # pfd
      BY <1>1, <2>1, Zenon DEF Linked
    <3> QED
      BY <2>1, <2>3, <3>1, ChangeKeeps, Zenon
  <2>6. ASSUME NEW e \in DOMAIN event'
        PROVE  /\ event'[e].own <=> event'[e].kind = "perf_event"
               /\ event'[e].open /\ (event'[e].enabled \/ ~event'[e].own) => Linked(e)'
    <3>1. EventOK(e) /\ EventOK(pfd)
      BY <2>1, <2>4, Zenon DEF LinkInv
    <3>2. CASE e = pfd
      BY <2>3, <2>4, <3>1, <3>2, Zenon DEF EventOK
    <3>3. CASE e # pfd
      BY <1>3, <2>4, <3>1, <3>3, Zenon DEF EventOK
    <3> QED
      BY <3>2, <3>3, Zenon
  <2>7. links' \subseteq LinkRec /\ prog' \in LinkProgs /\ ~lmem'
    BY <1>1, <1>2, Zenon
  <2> QED
    BY <1>1, <2>4, <2>5, <2>6, <2>7, ReturnsStep, Zenon
<1> QED
  BY <1>4, <1>5, Zenon

\* bpf_program__attach_raw_tracepoint: the event comes with its link.
LEMMA RawStep ==
  ASSUME LinkInv, bpf_program__attach_raw_tracepoint
  PROVE  LinkInv'
<1> DEFINE u == Event("raw", FALSE, -1, -1, FALSE)
           v == [u EXCEPT !.prog = prog, !.enabled = TRUE]
<1>1. /\ lpc = "raw" /\ lmem' = FALSE /\ Returns /\ prog' = prog
      /\ \/ event' = Append(event, v) /\ links' = links \cup {Link(Len(event'))}
         \/ event' = event /\ links' = links
  BY Zenon DEF bpf_program__attach_raw_tracepoint
<1>2. /\ event \in Seq(EventRec) /\ links \subseteq LinkRec /\ prog \in LinkProgs
      /\ req.kind = "raw" /\ req.ret \in BOOLEAN /\ req.pid \in Int /\ pfd = 0
  BY <1>1 DEF LinkInv, LinkTypeOK, Working
<1>3. v \in EventRec /\ v.open /\ v.enabled /\ v.kind = "raw" /\ ~v.own /\ v.prog = prog
  <2>1. u \in EventRec /\ u.open /\ u.kind = "raw" /\ ~u.own
    BY DEF Event, EventRec, Kinds
  <2> HIDE DEF u
  <2> QED
    BY <1>2, <2>1, Zenon DEF EventRec
<1> HIDE DEF v
<1>4. CASE event' = event /\ links' = links
  <2>1. (\A l \in links : LinkOK(l))' /\ \A e : Linked(e)' <=> Linked(e)
    BY <1>4, Untouched, Zenon DEF LinkInv
  <2>2. ASSUME NEW e \in DOMAIN event'
        PROVE  /\ event'[e].own <=> event'[e].kind = "perf_event"
               /\ event'[e].open /\ (event'[e].enabled \/ ~event'[e].own) => Linked(e)'
    <3>1. EventOK(e) /\ e # pfd
      BY <1>2, <1>4, EventAt, Zenon DEF LinkInv
    <3> QED
      BY <1>4, <2>1, <3>1, Zenon DEF EventOK
  <2> QED
    BY <1>1, <1>2, <1>4, <2>1, <2>2, ReturnsStep, Zenon
<1>5. CASE event' = Append(event, v) /\ links' = links \cup {Link(Len(event'))}
  <2>1. PICK d : d = Len(event')
    BY Zenon
  <2>2. /\ event' \in Seq(EventRec) /\ DOMAIN event' = DOMAIN event \cup {d} /\ d \notin DOMAIN event
        /\ event'[d] = v /\ d \in Nat /\ \A e \in DOMAIN event : e # 0 /\ event'[e] = event[e]
    BY <1>2, <1>3, <1>5, <2>1, Appended, Zenon
  <2>3. \A l \in links : l.fd # d
    BY <2>2, Zenon DEF LinkInv, LinkOK
  <2>4. req.kind \notin {"kprobe", "uprobe"} /\ links' = links \cup {Link(d)}
    BY <1>2, <1>5, <2>1
  <2>5. /\ (\A l \in links : LinkOK(l))' /\ \E l \in links' : l.fd = d
        /\ \A e \in DOMAIN event : e # d => (Linked(e)' <=> Linked(e))
    <3>1. /\ d \in DOMAIN event' /\ event'[d].open /\ event'[d].enabled /\ event'[d].prog = prog
          /\ event'[d].kind = req.kind
          /\ \A e \in DOMAIN event : e \in DOMAIN event' /\ (e # d => event'[e] = event[e])
      BY <1>2, <1>3, <2>2, Zenon
    <3> QED
      BY <2>3, <2>4, <3>1, GivesLink, Zenon
  <2>6. links' \subseteq LinkRec
    <3>1. Link(d) \in LinkRec
      BY <1>2, <2>2 DEF Link, LinkRec, Kinds
    <3> QED
      BY <1>2, <2>4, <3>1, Zenon
  <2>7. ASSUME NEW e \in DOMAIN event'
        PROVE  /\ event'[e].own <=> event'[e].kind = "perf_event"
               /\ event'[e].open /\ (event'[e].enabled \/ ~event'[e].own) => Linked(e)'
    <3>1. CASE e = d
      BY <1>3, <2>2, <2>5, <3>1 DEF Linked
    <3>2. CASE e \in DOMAIN event
      <4>1. EventOK(e) /\ e # pfd /\ e # d
        BY <1>2, <2>2, <3>2, Zenon DEF LinkInv
      <4> QED
        BY <2>2, <2>5, <3>2, <4>1, Zenon DEF EventOK
    <3> QED
      BY <2>2, <3>1, <3>2, Zenon
  <2> QED
    BY <1>1, <1>2, <2>2, <2>5, <2>6, <2>7, ReturnsStep, Zenon
<1> QED
  BY <1>1, <1>4, <1>5, Zenon

-----------------------------------------------------------------------------
(* The invariant and the theorem *)

\* The invariant holds before the first attach call.
LEMMA LinkInvInit == LinkInit => LinkInv
<1> SUFFICES ASSUME LinkInit PROVE LinkInv
  OBVIOUS
<1>1. /\ lpc = "idle" /\ req = NoReq /\ prog \in LinkProgs /\ pfd = 0 /\ lmem = FALSE
      /\ event = <<>> /\ links = {}
  BY DEF LinkInit
<1>2. event \in Seq(EventRec) /\ DOMAIN event = {}
  BY <1>1
<1>3. LinkTypeOK
  BY <1>1, <1>2 DEF LinkTypeOK, NoReq
<1>4. ~Working
  BY <1>1 DEF Working
<1> QED
  BY <1>1, <1>2, <1>3, <1>4 DEF LinkInv

\* Every step of a call, of the caller and of the kernel keeps it.
LEMMA LinkInvStep == LinkInv /\ [LinkNext]_linkVars => LinkInv'
<1> SUFFICES ASSUME LinkInv, [LinkNext]_linkVars PROVE LinkInv'
  OBVIOUS
<1>1. ASSUME NEW r \in Requests, NEW p \in LinkProgs,
             \/ bpf_program__attach_kprobe(r, p) \/ bpf_program__attach_uprobe(r, p)
             \/ bpf_program__attach_tracepoint(r, p) \/ AttachRaw(r, p)
      PROVE  LinkInv'
  <2>1. /\ pfd' = 0
        /\ \/ r.kind \in {"kprobe", "uprobe", "tracepoint"} /\ Start(r, p, "open")
           \/ r.kind = "raw" /\ Start(r, p, "link")
    BY <1>1, Zenon DEF bpf_program__attach_kprobe, bpf_program__attach_uprobe, bpf_program__attach_tracepoint,
                       AttachRaw, Opens
  <2> QED
    BY <2>1, OpensStep, Zenon
<1>2. ASSUME NEW r \in Requests, NEW p \in LinkProgs, bpf_program__attach_perf_event(r, p) PROVE LinkInv'
  BY <1>2, PerfEventStep, Zenon
<1>3. CASE perf_event_open_probe \/ perf_event_open_tracepoint
  BY <1>3, OpenProbeStep, OpenTracepointStep, Zenon
<1>4. CASE AllocLink \/ SetBpf \/ Enable \/ CloseFailed \/ bpf_program__attach_raw_tracepoint
  BY <1>4, AllocLinkStep, SetBpfStep, EnableStep, CloseFailedStep, RawStep, Zenon
<1>5. CASE UserEvent \/ Unload
  BY <1>5, UserEventStep, UnloadStep, Zenon
<1>6. ASSUME NEW l \in links, bpf_link__destroy(l) PROVE LinkInv'
  BY <1>6, DestroyStep, Zenon
<1>7. ASSUME NEW e \in DOMAIN event, UserClose(e) PROVE LinkInv'
  BY <1>7, UserCloseStep, Zenon
<1>8. CASE UNCHANGED linkVars
  <2>1. UNCHANGED <<lpc, req, prog, pfd, lmem, event, links>>
    BY <1>8 DEF linkVars
  <2>2. /\ (\A l \in links : LinkOK(l))' /\ (\A e \in DOMAIN event : EventOK(e))'
        /\ \A e : Linked(e)' <=> Linked(e)
    BY <2>1, Untouched, Zenon DEF LinkInv
  <2>3. LinkTypeOK' /\ (Working' <=> Working)
    BY <2>1 DEF LinkInv, LinkTypeOK, Working
  <2>4. CallOK => CallOK'
    BY <2>1, <2>2, Zenon DEF CallOK
  <2> QED
    BY <2>1, <2>2, <2>3, <2>4, Zenon DEF LinkInv
<1> QED
  BY <1>1, <1>2, <1>3, <1>4, <1>5, <1>6, <1>7, <1>8, Zenon DEF LinkNext

\* It says what LinksOwned does.
LEMMA LinkInvImplies == LinkInv => LinksOwned
<1> SUFFICES ASSUME LinkInv PROVE LinksOwned
  OBVIOUS
<1>1. LinkRuns
  BY Zenon DEF LinkInv, LinkOK, LinkRuns
<1>2. ASSUME lpc = "idle" PROVE ~lmem /\ pfd = 0
  BY <1>2 DEF LinkInv, Working
<1>3. ASSUME lpc = "idle", NEW e \in DOMAIN event, event[e].open
      PROVE  /\ event[e].enabled => \E l \in links : l.fd = e
             /\ ~event[e].own => \E l \in links : \A k \in links : k.fd = e <=> k = l
  <2>1. EventOK(e) /\ e # pfd
    BY <1>2, <1>3, EventAt, Zenon DEF LinkInv, LinkTypeOK
  <2>2. event[e].enabled \/ ~event[e].own => Linked(e)
    BY <1>3, <2>1, Zenon DEF EventOK
  <2>3. Linked(e) => \E l \in links : l.fd = e /\ \A k \in links : k.fd = e => k = l
    <3>1. \A l \in links : \A k \in links : k.fd = l.fd => k = l
      BY Zenon DEF LinkInv, LinkOK
    <3> QED
      BY <3>1, Zenon DEF Linked
  <2> QED
    BY <2>2, <2>3, Zenon
<1>4. EventsOwned
  BY <1>2, <1>3, Zenon DEF EventsOwned
<1>5. RunsOnlyLinked
  BY <1>3, Zenon DEF RunsOnlyLinked
<1> QED
  BY <1>1, <1>4, <1>5 DEF LinksOwned

\* For any programs, attach calls, machines and failures: a loaded program is
\* attached exactly where and as long as the caller holds a link for it, and a
\* call that failed left neither an event nor memory behind
\* (bpf_program__attach_*, bpf_link__destroy).
THEOREM LinksStayOwned == LinkSpec => []LinksOwned
<1>1. LinkInit => LinkInv
  BY LinkInvInit
<1>2. LinkInv /\ [LinkNext]_linkVars => LinkInv'
  BY LinkInvStep
<1>3. LinkInv => LinksOwned
  BY LinkInvImplies
<1> QED
  BY <1>1, <1>2, <1>3, PTL DEF LinkSpec
==============================================================================
