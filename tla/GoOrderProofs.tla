---------------------------- MODULE GoOrderProofs ---------------------------
(***************************************************************************)
(* The Go switch keeps the order of the packets, for any number of frames  *)
(* and any ring sizes.                                                     *)
(*                                                                         *)
(* The packets that go from port p to port o are, from the oldest to the   *)
(* newest: those sent, those in the tx ring of o, those that forwardFrames *)
(* has taken from the rx ring and not yet copied, and those in the rx ring *)
(* of p.  Their numbers rise along this line, and each is at most the      *)
(* number that have arrived.                                               *)
(***************************************************************************)
EXTENDS GoSwitchProofs

Rising(s) == \A i, j \in 1 .. Len(s) : i < j => s[i] < s[j]
Ahead(s, t) == \A i \in 1 .. Len(s), j \in 1 .. Len(t) : s[i] < t[j]
Within(s, n) == \A i \in 1 .. Len(s) : s[i] \in 1 .. n

\* Four sequences of packets, one after the other, of the packets 1 to n.
Line(s, x, h, r, n) ==
  /\ Rising(s) /\ Rising(x) /\ Rising(h) /\ Rising(r)
  /\ Ahead(s, x) /\ Ahead(s, h) /\ Ahead(s, r) /\ Ahead(x, h) /\ Ahead(x, r) /\ Ahead(h, r)
  /\ Within(s, n) /\ Within(x, n) /\ Within(h, n) /\ Within(r, n)

\* The oldest packet of the tx ring is sent.
LEMMA LineSend ==
  ASSUME NEW s \in Seq(Nat), NEW x \in Seq(Nat), NEW h \in Seq(Nat), NEW r \in Seq(Nat),
         NEW n \in Nat, Line(s, x, h, r, n), Len(x) # 0,
         NEW t \in Seq(Nat), NEW y \in Seq(Nat),
         Len(t) = Len(s) + 1, \A i \in 1 .. Len(s) : t[i] = s[i], t[Len(s) + 1] = x[1],
         Len(y) = Len(x) - 1, \A i \in 1 .. Len(y) : y[i] = x[i + 1]
  PROVE  Line(t, y, h, r, n)
<1>1. Len(s) \in Nat /\ Len(x) \in Nat /\ Len(t) \in Nat /\ Len(y) \in Nat
  BY LenProperties
<1>2. /\ 1 \in 1 .. Len(x)
      /\ \A i \in 1 .. Len(y) : i + 1 \in 1 .. Len(x) /\ 1 < i + 1
      /\ \A i \in 1 .. Len(t) : i \in 1 .. Len(s) \/ i = Len(s) + 1
  BY <1>1, SMTT(30)
<1>3. Rising(t)
  <2> SUFFICES ASSUME NEW i \in 1 .. Len(t), NEW j \in 1 .. Len(t), i < j PROVE t[i] < t[j]
    BY DEF Rising
  <2>1. i \in 1 .. Len(s)
    BY <1>1
  <2>2. CASE j \in 1 .. Len(s)
    BY <2>1, <2>2, Zenon DEF Line, Rising
  <2>3. CASE j = Len(s) + 1
    BY <1>2, <2>1, <2>3, Zenon DEF Line, Ahead
  <2> QED
    BY <1>2, <2>2, <2>3
<1>4. Rising(y)
  <2> SUFFICES ASSUME NEW i \in 1 .. Len(y), NEW j \in 1 .. Len(y), i < j PROVE y[i] < y[j]
    BY DEF Rising
  <2>1. i + 1 \in 1 .. Len(x) /\ j + 1 \in 1 .. Len(x)
    BY <1>2
  <2>2. i + 1 < j + 1
    BY <1>1
  <2>3. y[i] = x[i + 1] /\ y[j] = x[j + 1]
    BY Zenon
  <2> QED
    BY <2>1, <2>2, <2>3, Zenon DEF Line, Rising
<1>5. Ahead(t, y)
  <2> SUFFICES ASSUME NEW i \in 1 .. Len(t), NEW j \in 1 .. Len(y) PROVE t[i] < y[j]
    BY DEF Ahead
  <2>1. j + 1 \in 1 .. Len(x) /\ 1 < j + 1 /\ y[j] = x[j + 1]
    BY <1>2, Zenon
  <2>2. CASE i \in 1 .. Len(s)
    BY <2>1, <2>2, Zenon DEF Line, Ahead
  <2>3. CASE i = Len(s) + 1
    BY <1>2, <2>1, <2>3, Zenon DEF Line, Rising
  <2> QED
    BY <1>2, <2>2, <2>3
<1>6. Ahead(t, h) /\ Ahead(t, r)
  BY <1>1, <1>2, Zenon DEF Line, Ahead
<1>7. Ahead(y, h) /\ Ahead(y, r)
  BY <1>1, <1>2, Zenon DEF Line, Ahead
<1>8. Within(t, n) /\ Within(y, n)
  BY <1>1, <1>2, Zenon DEF Line, Within
<1> QED
  BY <1>3, <1>4, <1>5, <1>6, <1>7, <1>8, Zenon DEF Line

\* forwardFrames takes all there is in the rx ring.
LEMMA LineReceive ==
  ASSUME NEW s, NEW x, NEW r, NEW n, Line(s, x, <<>>, r, n)
  PROVE  Line(s, x, r, <<>>, n)
BY EmptyType DEF Line, Rising, Ahead, Within

\* A position beyond the first a.
LEMMA Offset ==
  ASSUME NEW a \in Nat, NEW k \in Nat, NEW i \in 1 .. a + k, i > a
  PROVE  \E m \in 1 .. k : i = a + m
<1>1. i - a \in 1 .. k /\ i = a + (i - a)
  OBVIOUS
<1> QED
  BY <1>1

\* It moves the first of what it took to the tx ring and drops the others.
LEMMA LineForward ==
  ASSUME NEW s \in Seq(Nat), NEW x \in Seq(Nat), NEW h \in Seq(Nat), NEW r \in Seq(Nat),
         NEW n \in Nat, Line(s, x, h, r, n),
         NEW y \in Seq(Nat), NEW k \in Nat, k <= Len(h), Len(y) = Len(x) + k,
         \A i \in 1 .. Len(x) : y[i] = x[i], \A i \in 1 .. k : y[Len(x) + i] = h[i]
  PROVE  Line(s, y, <<>>, r, n)
<1>1. Len(x) \in Nat /\ Len(y) \in Nat /\ Len(h) \in Nat
  BY LenProperties, Zenon
<1>2. ASSUME NEW i \in 1 .. Len(y)
      PROVE  \/ i \in 1 .. Len(x) /\ y[i] = x[i]
             \/ \E m \in 1 .. Len(h) : i = Len(x) + m /\ y[i] = h[m]
  <2>a. i \in Int
    BY <1>1
  <2>1. CASE i <= Len(x)
    BY <1>1, <2>1, SMTT(30)
  <2>2. CASE i > Len(x)
    <3>1. i \in 1 .. Len(x) + k
      OBVIOUS
    <3>2. PICK m \in 1 .. k : i = Len(x) + m
      BY <1>1, <2>2, <3>1, Offset, Zenon
    <3>3. m \in 1 .. Len(h)
      BY <1>1
    <3> QED
      BY <3>2, <3>3
  <2> QED
    BY <1>1, <2>a, <2>1, <2>2
<1>3. Rising(y)
  <2> SUFFICES ASSUME NEW i \in 1 .. Len(y), NEW j \in 1 .. Len(y), i < j PROVE y[i] < y[j]
    BY DEF Rising
  <2>1. CASE i \in 1 .. Len(x) /\ j \in 1 .. Len(x)
    BY <2>1, Zenon DEF Line, Rising
  <2>2. CASE i \in 1 .. Len(x) /\ j \notin 1 .. Len(x)
    BY <1>2, <2>2, Zenon DEF Line, Ahead
  <2>3. CASE i \notin 1 .. Len(x)
    <3>1. j \notin 1 .. Len(x)
      BY <1>1, <2>3
    <3>2. PICK a \in 1 .. Len(h) : i = Len(x) + a /\ y[i] = h[a]
      BY <1>2, <2>3, Zenon
    <3>3. PICK b \in 1 .. Len(h) : j = Len(x) + b /\ y[j] = h[b]
      BY <1>2, <3>1
    <3>4. a < b
      BY <1>1, <3>2, <3>3
    <3> QED
      BY <3>2, <3>3, <3>4, Zenon DEF Line, Rising
  <2> QED
    BY <2>1, <2>2, <2>3, Zenon
<1>4. Ahead(s, y) /\ Ahead(y, r)
  BY <1>2, Zenon DEF Line, Ahead
<1>5. Within(y, n)
  BY <1>2, Zenon DEF Line, Within
<1> QED
  BY <1>3, <1>4, <1>5, EmptyType DEF Line, Rising, Ahead, Within

\* The next packet arrives.
LEMMA LineDeliver ==
  ASSUME NEW s \in Seq(Nat), NEW x \in Seq(Nat), NEW h \in Seq(Nat), NEW r \in Seq(Nat),
         NEW n \in Nat, Line(s, x, h, r, n),
         NEW z \in Seq(Nat), Len(z) = Len(r) + 1, z[Len(r) + 1] = n + 1,
         \A i \in 1 .. Len(r) : z[i] = r[i]
  PROVE  Line(s, x, h, z, n + 1)
<1>1. Len(r) \in Nat /\ Len(z) \in Nat
  BY LenProperties
<1>2. \A i \in 1 .. Len(z) : i \in 1 .. Len(r) \/ i = Len(r) + 1
  BY <1>1
<1>3. \A m \in 1 .. n : m < n + 1 /\ m \in 1 .. n + 1
  OBVIOUS
<1>4. Rising(z)
  <2> SUFFICES ASSUME NEW i \in 1 .. Len(z), NEW j \in 1 .. Len(z), i < j PROVE z[i] < z[j]
    BY DEF Rising
  <2>1. i \in 1 .. Len(r)
    BY <1>1
  <2>2. CASE j \in 1 .. Len(r)
    BY <2>1, <2>2, Zenon DEF Line, Rising
  <2>3. CASE j = Len(r) + 1
    <3>1. r[i] \in 1 .. n
      BY <2>1 DEF Line, Within
    <3> QED
      BY <1>3, <2>1, <2>3, <3>1, Zenon
  <2> QED
    BY <1>2, <2>2, <2>3, Zenon
<1>5. Ahead(s, z) /\ Ahead(x, z) /\ Ahead(h, z)
  BY <1>2, <1>3, Zenon DEF Line, Ahead, Within
<1>6. Within(s, n + 1) /\ Within(x, n + 1) /\ Within(h, n + 1)
  BY <1>3, Zenon DEF Line, Within
<1>7. Within(z, n + 1)
  <2> SUFFICES ASSUME NEW i \in 1 .. Len(z) PROVE z[i] \in 1 .. n + 1
    BY DEF Within
  <2>1. CASE i \in 1 .. Len(r)
    BY <1>3, <2>1, Zenon DEF Line, Within
  <2>2. CASE i = Len(r) + 1
    BY <2>2
  <2> QED
    BY <1>2, <2>1, <2>2, Zenon
<1> QED
  BY <1>4, <1>5, <1>6, <1>7, Zenon DEF Line

-----------------------------------------------------------------------------
(* The line of packets in a state of the switch *)

\* The packets in some frames.
Contents(mem, frames) == [i \in 1 .. Len(frames) |-> mem[frames[i]]]

\* What forwardFrames has received from port p and not yet copied.
Pending(p) == IF pc = "forward" /\ cur = p THEN inDescs ELSE <<>>

Flow(p, o) ==
  Line(sent[o], Contents(umem[o], txRing[o]), Contents(umem[p], Pending(p)),
       Contents(umem[p], rxRing[p]), arrived[p])

\* Its frames are marked free again, and thus in no ring, until it returns.
Held == pc = "forward" => Range(inDescs) \subseteq freeRXDescs[cur]

\* The packets in a ring of frames.
LEMMA ContentsType ==
  ASSUME NEW S \in SUBSET AllFrames, NEW frames \in Seq(S), NEW mem \in [AllFrames -> Nat]
  PROVE  /\ Contents(mem, frames) \in Seq(Nat) /\ Len(Contents(mem, frames)) = Len(frames)
         /\ \A i \in 1 .. Len(frames) : Contents(mem, frames)[i] = mem[frames[i]]
<1>1. Len(frames) \in Nat /\ \A i \in 1 .. Len(frames) : frames[i] \in AllFrames
  BY LenProperties, ElementOfSeq
<1>2. Contents(mem, frames) \in [1 .. Len(frames) -> Nat]
  BY <1>1 DEF Contents
<1>3. Contents(mem, frames) \in Seq(Nat)
  BY <1>1, <1>2, SeqDef, SMTT(30)
<1>4. Len(Contents(mem, frames)) = Len(frames)
  BY <1>1, <1>2, <1>3, LenProperties
<1> QED
  BY <1>3, <1>4 DEF Contents

\* Frames that are not written keep their packets.
LEMMA ContentsSame ==
  ASSUME NEW S \in SUBSET AllFrames, NEW frames \in Seq(S), NEW mem, NEW mem2,
         \A f \in Range(frames) : mem2[f] = mem[f]
  PROVE  Contents(mem2, frames) = Contents(mem, frames)
<1>1. \A i \in 1 .. Len(frames) : frames[i] \in Range(frames)
  BY LenProperties DEF Range
<1> QED
  BY <1>1 DEF Contents

\* No frames, no packets.
LEMMA ContentsEmpty == \A mem : Contents(mem, <<>>) = <<>>
BY EmptyType DEF Contents

\* The types of what the line is made of.
LEMMA FlowTypes ==
  ASSUME Shape, NEW p \in Ports
  PROVE  /\ umem[p] \in [AllFrames -> Nat] /\ sent[p] \in Seq(Nat) /\ arrived[p] \in Nat
         /\ rxRing[p] \in Seq(RxFrames) /\ txRing[p] \in Seq(TxFrames)
         /\ Pending(p) \in Seq(RxFrames) /\ nic[p] \in Seq(RxFrames)
         /\ RxFrames \in SUBSET AllFrames /\ TxFrames \in SUBSET AllFrames
         /\ Range(rxRing[p]) \subseteq RxFrames /\ Range(txRing[p]) \subseteq TxFrames
         /\ Range(Pending(p)) \subseteq RxFrames
<1>1. Pending(p) \in Seq(RxFrames)
  BY EmptyType, Zenon DEF Pending, Shape, LoopShape
<1>2. /\ umem[p] \in [AllFrames -> Nat] /\ sent[p] \in Seq(Nat) /\ arrived[p] \in Nat
      /\ rxRing[p] \in Seq(RxFrames) /\ txRing[p] \in Seq(TxFrames)
      /\ nic[p] \in Seq(RxFrames)
  BY DEF Shape, DataShape, RxShape, TxShape
<1>3. RxFrames \in SUBSET AllFrames /\ TxFrames \in SUBSET AllFrames
  BY Halves, Zenon
<1> QED
  BY <1>1, <1>2, <1>3, RangeOfSeq, Zenon

\* Every step keeps the frames forwardFrames reads marked free.
LEMMA HeldStep == Shape /\ Held /\ [Next]_vars => Held'
<1> SUFFICES ASSUME Shape, Held, [Next]_vars PROVE Held'
  OBVIOUS
<1>1. CASE ReceivePort
  <2>1. CASE "POLLIN" \in revents[cur]
    <3>1. /\ cur' = cur /\ inDescs' = rxRing[cur]
          /\ freeRXDescs' = [freeRXDescs EXCEPT ![cur] = freeRXDescs[cur] \cup Range(rxRing[cur])]
      BY <1>1, <2>1, ReceiveEffect, Zenon DEF ReceivePort
    <3>2. freeRXDescs'[cur] = freeRXDescs[cur] \cup Range(rxRing[cur])
      BY <3>1, Zenon DEF Shape, RxShape, LoopShape
    <3> QED
      BY <3>1, <3>2, Zenon DEF Held
  <2>2. CASE "POLLIN" \notin revents[cur]
    BY <1>1, <2>2, Zenon DEF ReceivePort, Held
  <2> QED
    BY <2>1, <2>2, Zenon
<1>2. CASE FillPort \/ Poll \/ PollInterrupted \/ ForwardPort \/ CompletePort
  BY <1>2 DEF FillPort, Poll, PollInterrupted, ForwardPort, CompletePort, Held
<1>3. CASE KernelNext /\ UNCHANGED <<pc, cur, revents, inDescs>>
  <2>1. UNCHANGED freeRXDescs
    BY <1>3, Zenon DEF KernelNext, KernelTakeFill, KernelDeliver, KernelSend, KernelComplete
  <2> QED
    BY <1>3, <2>1, Zenon DEF Held
<1>4. CASE UNCHANGED vars
  BY <1>4, Zenon DEF vars, socketVars, Held
<1> QED
  BY <1>1, <1>2, <1>3, <1>4, Zenon DEF Next, LoopNext

\* The kernel sends: the head of the tx ring becomes the last of sent.
LEMMA FlowSend ==
  ASSUME Shape, Shape', NEW p \in Ports, NEW o \in Ports, Flow(p, o), KernelSend(o),
         UNCHANGED <<pc, cur, revents, inDescs>>
  PROVE  Flow(p, o)'
<1> DEFINE s == sent[o]
           x == Contents(umem[o], txRing[o])
           h == Contents(umem[p], Pending(p))
           r == Contents(umem[p], rxRing[p])
           t == Append(s, umem[o][Head(txRing[o])])
           y == Contents(umem[o], Tail(txRing[o]))
<1>1. /\ umem[o] \in [AllFrames -> Nat] /\ s \in Seq(Nat) /\ txRing[o] \in Seq(TxFrames)
      /\ TxFrames \in SUBSET AllFrames /\ txRing[o] # <<>> /\ arrived[p] \in Nat
  BY FlowTypes, Zenon DEF KernelSend
<1>2. /\ x \in Seq(Nat) /\ Len(x) = Len(txRing[o])
      /\ \A i \in 1 .. Len(txRing[o]) : x[i] = umem[o][txRing[o][i]]
  BY <1>1, ContentsType, Zenon
<1>3. h \in Seq(Nat) /\ r \in Seq(Nat)
  BY FlowTypes, ContentsType, Zenon
<1>4. /\ Tail(txRing[o]) \in Seq(TxFrames) /\ Len(Tail(txRing[o])) = Len(txRing[o]) - 1
      /\ Head(txRing[o]) \in TxFrames
  BY <1>1, TailType
<1>5. /\ y \in Seq(Nat) /\ Len(y) = Len(txRing[o]) - 1
      /\ \A i \in 1 .. Len(y) : y[i] = umem[o][Tail(txRing[o])[i]]
  BY <1>1, <1>4, ContentsType, Zenon
<1>6. Len(txRing[o]) \in Nat /\ Len(txRing[o]) # 0
  BY <1>1, LenProperties, EmptySeq
<1>7. \A i \in 1 .. Len(y) : y[i] = x[i + 1]
  <2> SUFFICES ASSUME NEW i \in 1 .. Len(y) PROVE y[i] = x[i + 1]
    OBVIOUS
  <2>1. i \in 1 .. Len(txRing[o]) - 1 /\ i + 1 \in 1 .. Len(txRing[o])
    BY <1>5, <1>6
  <2>2. Tail(txRing[o])[i] = txRing[o][i + 1]
    BY <1>1, <1>4, <1>6, <2>1, HeadTailProperties, Zenon
  <2> QED
    BY <1>2, <1>5, <2>1, <2>2, Zenon
<1>8. x[1] = umem[o][Head(txRing[o])]
  <2>1. 1 \in 1 .. Len(txRing[o])
    BY <1>6
  <2>2. Head(txRing[o]) = txRing[o][1]
    BY <1>1
  <2> QED
    BY <1>2, <2>1, <2>2, Zenon
<1>9. umem[o][Head(txRing[o])] \in Nat
  BY <1>1, <1>4, Zenon
<1>10. /\ t \in Seq(Nat) /\ Len(t) = Len(s) + 1
       /\ \A i \in 1 .. Len(s) : t[i] = s[i]
       /\ t[Len(s) + 1] = umem[o][Head(txRing[o])]
  BY <1>1, <1>9, AppendProperties
<1>11. Line(s, x, h, r, arrived[p])
  BY Zenon DEF Flow
<1>12. Line(t, y, h, r, arrived[p])
  <2> HIDE DEF s, x, h, r, t, y
  <2>1. Len(x) # 0 /\ t[Len(s) + 1] = x[1] /\ Len(y) = Len(x) - 1
    BY <1>2, <1>5, <1>6, <1>8, <1>10, SMTT(30)
  <2> QED
    BY <1>1, <1>2, <1>3, <1>5, <1>7, <1>10, <1>11, <2>1, LineSend, ZenonT(30)
<1>13. /\ sent'[o] = t /\ txRing'[o] = Tail(txRing[o])
       /\ UNCHANGED <<umem, rxRing, arrived>> /\ Pending(p)' = Pending(p)
  BY DEF KernelSend, Pending, Shape, DataShape, TxShape
<1> QED
  BY <1>12, <1>13, Zenon DEF Flow

\* forwardFrames receives: the rx ring becomes what is pending.
LEMMA FlowReceive ==
  ASSUME Shape, NEW p \in Ports, NEW o \in Ports, Flow(p, o), ReceivePort
  PROVE  Flow(p, o)'
<1>1. /\ UNCHANGED <<umem, txRing, sent, arrived, cur>> /\ pc = "receive"
      /\ Pending(p) = <<>>
  BY Zenon DEF ReceivePort, kernelVars, Pending
<1>2. CASE "POLLIN" \in revents[cur] /\ cur = p
  <2>1. inDescs' = rxRing[p] /\ pc' = "forward" /\ rxRing' = [rxRing EXCEPT ![p] = <<>>]
    BY <1>2, ReceiveEffect, Zenon
  <2>2. rxRing'[p] = <<>> /\ Pending(p)' = rxRing[p]
    BY <1>1, <1>2, <2>1, Zenon DEF Pending, Shape, RxShape
  <2>3. Line(sent[o], Contents(umem[o], txRing[o]), <<>>, Contents(umem[p], rxRing[p]),
             arrived[p])
    BY <1>1, ContentsEmpty, Zenon DEF Flow
  <2>4. Line(sent[o], Contents(umem[o], txRing[o]), Contents(umem[p], rxRing[p]), <<>>,
             arrived[p])
    BY <2>3, LineReceive, Zenon
  <2> QED
    BY <1>1, <2>2, <2>4, ContentsEmpty, Zenon DEF Flow
<1>3. CASE ~("POLLIN" \in revents[cur] /\ cur = p)
  <2>1. rxRing'[p] = rxRing[p] /\ Pending(p)' = <<>>
    <3>1. CASE "POLLIN" \in revents[cur]
      <4>1. rxRing' = [rxRing EXCEPT ![cur] = <<>>]
        BY <3>1, ReceiveEffect, Zenon
      <4> QED
        BY <1>1, <1>3, <3>1, <4>1, Zenon DEF Pending, Shape, RxShape
    <3>2. CASE "POLLIN" \notin revents[cur]
      BY <3>2, Zenon DEF ReceivePort, Pending
    <3> QED
      BY <3>1, <3>2, Zenon
  <2> QED
    BY <1>1, <2>1, Zenon DEF Flow
<1> QED
  BY <1>2, <1>3, Zenon

\* forwardFrames copies into frames of o that are in no ring: the packets that
\* wait in its tx ring stay as they are.
LEMMA FlowForward ==
  ASSUME Shape, Shape', NEW p \in Ports, NEW o \in Ports, o = Other(p), o # p,
         TxOwned(o), Flow(p, o), ForwardPort
  PROVE  Flow(p, o)'
<1>1. /\ pc = "forward" /\ pc' = "complete" /\ UNCHANGED <<rxRing, sent, arrived>>
      /\ Pending(p)' = <<>>
  BY Zenon DEF ForwardPort, kernelVars, Pending
<1>2. PICK d \in Seq(TxFrames) :
        /\ Range(d) \subseteq freeTXDescs[Other(cur)] /\ Len(d) <= Len(inDescs)
        /\ txRing' = [txRing EXCEPT ![Other(cur)] = txRing[Other(cur)] \o d]
        /\ umem' \in [Ports -> [AllFrames -> Nat]]
        /\ umem'[cur] = umem[cur]
        /\ \A f \in AllFrames \ Range(d) : umem'[Other(cur)][f] = umem[Other(cur)][f]
        /\ \A i \in 1 .. Len(d) : umem'[Other(cur)][d[i]] = umem[cur][inDescs[i]]
  BY ForwardEffect, Zenon
<1>3. Range(d) \subseteq TxFrames
  BY RangeOfSeq
<1>4. CASE cur = p
  <2> DEFINE x == Contents(umem[o], txRing[o])
             h == Contents(umem[p], inDescs)
             r == Contents(umem[p], rxRing[p])
             y == Contents(umem'[o], txRing[o] \o d)
  <2>1. /\ txRing[o] \in Seq(TxFrames) /\ Range(txRing[o]) \subseteq TxFrames
        /\ TxFrames \in SUBSET AllFrames /\ RxFrames \in SUBSET AllFrames
        /\ inDescs \in Seq(RxFrames)
        /\ umem[o] \in [AllFrames -> Nat] /\ umem[p] \in [AllFrames -> Nat]
        /\ umem'[o] \in [AllFrames -> Nat] /\ umem'[p] = umem[p]
        /\ txRing'[o] = txRing[o] \o d
        /\ sent[o] \in Seq(Nat) /\ arrived[p] \in Nat
    BY <1>2, <1>4, FlowTypes, Zenon DEF Shape, LoopShape, TxShape
  <2>2. /\ x \in Seq(Nat) /\ Len(x) = Len(txRing[o])
        /\ \A i \in 1 .. Len(txRing[o]) : x[i] = umem[o][txRing[o][i]]
    BY <2>1, ContentsType, Zenon
  <2>3. /\ h \in Seq(Nat) /\ Len(h) = Len(inDescs)
        /\ \A i \in 1 .. Len(inDescs) : h[i] = umem[p][inDescs[i]]
    BY <2>1, ContentsType, Zenon
  <2>4. r \in Seq(Nat)
    BY FlowTypes, ContentsType, Zenon
  <2>5. /\ txRing[o] \o d \in Seq(TxFrames) /\ Len(txRing[o] \o d) = Len(txRing[o]) + Len(d)
        /\ \A i \in 1 .. Len(txRing[o]) + Len(d) :
             (txRing[o] \o d)[i] = IF i <= Len(txRing[o]) THEN txRing[o][i]
                                   ELSE d[i - Len(txRing[o])]
    BY <2>1, ConcatProperties
  <2>6. /\ y \in Seq(Nat) /\ Len(y) = Len(txRing[o]) + Len(d)
        /\ \A i \in 1 .. Len(txRing[o]) + Len(d) : y[i] = umem'[o][(txRing[o] \o d)[i]]
    <3>1. /\ y \in Seq(Nat) /\ Len(y) = Len(txRing[o] \o d)
          /\ \A i \in 1 .. Len(txRing[o] \o d) : y[i] = umem'[o][(txRing[o] \o d)[i]]
      BY <2>1, <2>5, ContentsType, Zenon
    <3> HIDE DEF y
    <3> QED
      BY <2>5, <3>1, Zenon
  <2>7. Len(txRing[o]) \in Nat /\ Len(d) \in Nat /\ Len(inDescs) \in Nat
    BY <2>1, LenProperties, Zenon
  <2>8. Range(d) \cap Range(txRing[o]) = {}
    BY <1>2, <1>3, <1>4, <2>1, Zenon DEF TxOwned
  <2>9. ASSUME NEW i \in 1 .. Len(txRing[o]) PROVE y[i] = x[i]
    <3>1. i \in 1 .. Len(txRing[o]) + Len(d) /\ i <= Len(txRing[o])
      BY <2>7
    <3>2. y[i] = umem'[o][txRing[o][i]]
      BY <2>5, <2>6, <3>1, Zenon
    <3>3. txRing[o][i] \in Range(txRing[o])
      BY <2>1, LenProperties, Zenon DEF Range
    <3>4. umem'[o][txRing[o][i]] = umem[o][txRing[o][i]]
      BY <1>2, <1>4, <2>1, <2>8, <3>3, Zenon
    <3> QED
      BY <2>2, <3>2, <3>4, Zenon
  <2>10. ASSUME NEW i \in 1 .. Len(d) PROVE y[Len(txRing[o]) + i] = h[i]
    <3>1. /\ Len(txRing[o]) + i \in 1 .. Len(txRing[o]) + Len(d)
          /\ ~ (Len(txRing[o]) + i <= Len(txRing[o]))
          /\ (Len(txRing[o]) + i) - Len(txRing[o]) = i
          /\ i \in 1 .. Len(inDescs)
      <4>1. PICK a \in Nat, b \in Nat, c \in Nat :
              a = Len(txRing[o]) /\ b = Len(d) /\ c = Len(inDescs)
        BY <2>7, Zenon
      <4>2. b <= c
        BY <1>2, <4>1, Zenon
      <4>3. i \in 1 .. b
        BY <4>1, Zenon
      <4>4. /\ a + i \in 1 .. a + b /\ ~ (a + i <= a) /\ (a + i) - a = i /\ i \in 1 .. c
        BY <4>2, <4>3
      <4> QED
        BY <4>1, <4>4, Zenon
    <3> HIDE DEF y, h
    <3>2. (txRing[o] \o d)[Len(txRing[o]) + i] = d[(Len(txRing[o]) + i) - Len(txRing[o])]
      BY <2>5, <3>1, Zenon
    <3>3. y[Len(txRing[o]) + i] = umem'[o][(txRing[o] \o d)[Len(txRing[o]) + i]]
      BY <2>6, <3>1, Zenon
    <3>4. umem'[o][d[i]] = h[i]
      BY <1>2, <1>4, <2>3, <3>1, Zenon
    <3> QED
      BY <3>1, <3>2, <3>3, <3>4, Zenon
  <2>11. Line(sent[o], x, h, r, arrived[p])
    BY <1>1, <1>4, Zenon DEF Flow, Pending
  <2>12. Line(sent[o], y, <<>>, r, arrived[p])
    <3> HIDE DEF x, h, r, y
    <3>1. Len(d) \in Nat /\ Len(d) <= Len(h) /\ Len(y) = Len(x) + Len(d)
      BY <1>2, <2>2, <2>3, <2>6, <2>7, Zenon
    <3>2. \A i \in 1 .. Len(x) : y[i] = x[i]
      BY <2>2, <2>9, Zenon
    <3>3. \A i \in 1 .. Len(d) : y[Len(x) + i] = h[i]
      BY <2>2, <2>10, Zenon
    <3> QED
      BY <2>1, <2>2, <2>3, <2>4, <2>6, <2>11, <3>1, <3>2, <3>3, LineForward, ZenonT(30)
  <2> QED
    BY <1>1, <2>1, <2>12, ContentsEmpty, Zenon DEF Flow
<1>5. CASE cur # p
  <2>1. cur = o /\ Other(cur) = p
    BY <1>5, Zenon DEF Shape, LoopShape, Other, Ports
  <2>2. /\ umem'[o] = umem[o] /\ txRing'[o] = txRing[o] /\ Pending(p) = <<>>
    BY <1>2, <1>5, <2>1, Zenon DEF Shape, TxShape, Pending
  <2>3. \A f \in Range(rxRing[p]) : umem'[p][f] = umem[p][f]
    BY <1>2, <1>3, <2>1, FlowTypes, Halves, Zenon
  <2>4. Contents(umem'[p], rxRing[p]) = Contents(umem[p], rxRing[p])
    BY <2>3, FlowTypes, ContentsSame, Zenon
  <2> QED
    BY <1>1, <2>2, <2>4, ContentsEmpty DEF Flow
<1> QED
  BY <1>4, <1>5, Zenon

\* A packet is written into a frame of the driver, which is neither in the rx
\* ring nor one of those that forwardFrames still reads.
LEMMA FlowDeliver ==
  ASSUME Shape, NEW p \in Ports, NEW o \in Ports, o # p, RxOwned(p), Held, Flow(p, o),
         NEW k \in Ports, KernelDeliver(k), UNCHANGED <<pc, cur, revents, inDescs>>
  PROVE  Flow(p, o)'
<1>1. /\ UNCHANGED <<txRing, sent>> /\ Pending(p)' = Pending(p)
      /\ Head(nic[k]) \in RxFrames /\ Head(nic[k]) \in Range(nic[k])
  <2>1. nic[k] \in Seq(RxFrames) /\ nic[k] # <<>>
    BY DEF KernelDeliver, Shape, RxShape
  <2>2. Head(nic[k]) \in RxFrames /\ Range(nic[k]) = Range(Tail(nic[k])) \cup {Head(nic[k])}
    BY <2>1, TailType, Zenon
  <2> QED
    BY <2>2, Zenon DEF KernelDeliver, Pending
<1>2. /\ umem'[k] = [umem[k] EXCEPT ![Head(nic[k])] = arrived[k] + 1]
      /\ \A q \in Ports : q # k => /\ umem'[q] = umem[q] /\ rxRing'[q] = rxRing[q]
                                   /\ arrived'[q] = arrived[q]
      /\ arrived'[k] = arrived[k] + 1
      /\ rxRing'[k] = Append(rxRing[k], Head(nic[k]))
  BY Zenon DEF KernelDeliver, Shape, DataShape, RxShape
<1>3. \A f \in AllFrames : f # Head(nic[k]) => umem'[k][f] = umem[k][f]
  BY <1>2, Zenon DEF Shape, DataShape
<1>4. Contents(umem'[o], txRing[o]) = Contents(umem[o], txRing[o])
  <2>1. \A f \in Range(txRing[o]) : umem'[o][f] = umem[o][f]
    <3>1. CASE k = o
      <4>1. Range(txRing[o]) \subseteq AllFrames /\ Head(nic[k]) \notin Range(txRing[o])
        BY <1>1, FlowTypes, Halves, Zenon
      <4> QED
        BY <1>3, <3>1, <4>1, Zenon
    <3>2. CASE k # o
      BY <1>2, <3>2, Zenon
    <3> QED
      BY <3>1, <3>2, Zenon
  <2> QED
    BY <2>1, FlowTypes, ContentsSame, Zenon
<1>5. CASE k = p
  <2> DEFINE g == Head(nic[p])
             x == Contents(umem[o], txRing[o])
             h == Contents(umem[p], Pending(p))
             r == Contents(umem[p], rxRing[p])
             z == Contents(umem'[p], Append(rxRing[p], g))
  <2>1. /\ rxRing[p] \in Seq(RxFrames) /\ RxFrames \in SUBSET AllFrames
        /\ umem[p] \in [AllFrames -> Nat] /\ g \in RxFrames /\ arrived[p] \in Nat
        /\ g \notin Range(rxRing[p]) /\ sent[o] \in Seq(Nat)
    BY <1>1, <1>5, FlowTypes, Zenon DEF RxOwned
  <2>2. umem'[p] \in [AllFrames -> Nat] /\ umem'[p][g] = arrived[p] + 1
    <3>1. g \in AllFrames /\ arrived[p] + 1 \in Nat
      BY <2>1
    <3>2. umem'[p] = [umem[p] EXCEPT ![g] = arrived[p] + 1]
      BY <1>2, <1>5, Zenon
    <3> QED
      BY <2>1, <3>1, <3>2, Zenon
  <2>3. Contents(umem'[p], Pending(p)) = h
    <3>1. g \notin Range(Pending(p))
      <4>1. CASE pc = "forward" /\ cur = p
        BY <1>1, <1>5, <2>1, <4>1 DEF Pending, Held, RxOwned
      <4>2. CASE ~ (pc = "forward" /\ cur = p)
        BY <4>2, EmptyType, Zenon DEF Pending
      <4> QED
        BY <4>1, <4>2, SMTT(30)
    <3>2. \A f \in Range(Pending(p)) : umem'[p][f] = umem[p][f]
      BY <1>3, <1>5, <3>1, FlowTypes, Zenon
    <3> QED
      BY <3>2, FlowTypes, ContentsSame, Zenon
  <2>4. x \in Seq(Nat) /\ h \in Seq(Nat)
    BY FlowTypes, ContentsType, Zenon
  <2>5. /\ r \in Seq(Nat) /\ Len(r) = Len(rxRing[p])
        /\ \A i \in 1 .. Len(rxRing[p]) : r[i] = umem[p][rxRing[p][i]]
    BY <2>1, ContentsType, Zenon
  <2>6. /\ Append(rxRing[p], g) \in Seq(RxFrames)
        /\ Len(Append(rxRing[p], g)) = Len(rxRing[p]) + 1
        /\ \A i \in 1 .. Len(rxRing[p]) : Append(rxRing[p], g)[i] = rxRing[p][i]
        /\ Append(rxRing[p], g)[Len(rxRing[p]) + 1] = g
    BY <2>1, AppendProperties
  <2>7. /\ z \in Seq(Nat) /\ Len(z) = Len(rxRing[p]) + 1
        /\ \A i \in 1 .. Len(rxRing[p]) + 1 : z[i] = umem'[p][Append(rxRing[p], g)[i]]
    <3>1. /\ z \in Seq(Nat) /\ Len(z) = Len(Append(rxRing[p], g))
          /\ \A i \in 1 .. Len(Append(rxRing[p], g)) : z[i] = umem'[p][Append(rxRing[p], g)[i]]
      BY <2>1, <2>2, <2>6, ContentsType, Zenon
    <3> HIDE DEF z, g
    <3> QED
      BY <2>6, <3>1, Zenon
  <2>8. Len(rxRing[p]) \in Nat
    BY <2>1, LenProperties, Zenon
  <2>9. z[Len(rxRing[p]) + 1] = arrived[p] + 1
    <3>1. Len(rxRing[p]) + 1 \in 1 .. Len(rxRing[p]) + 1
      BY <2>8
    <3> QED
      BY <2>2, <2>6, <2>7, <3>1, Zenon
  <2>10. ASSUME NEW i \in 1 .. Len(rxRing[p]) PROVE z[i] = r[i]
    <3>1. i \in 1 .. Len(rxRing[p]) + 1
      BY <2>8
    <3>2. rxRing[p][i] \in Range(rxRing[p]) /\ rxRing[p][i] \in AllFrames
      BY <2>1, LenProperties, ElementOfSeq, Zenon DEF Range
    <3>3. umem'[p][rxRing[p][i]] = umem[p][rxRing[p][i]]
      BY <1>3, <1>5, <2>1, <3>2, Zenon
    <3> QED
      BY <2>5, <2>6, <2>7, <3>1, <3>3, Zenon
  <2>11. Line(sent[o], x, h, r, arrived[p])
    BY Zenon DEF Flow
  <2>12. Line(sent[o], x, h, z, arrived[p] + 1)
    <3> HIDE DEF g, x, h, r, z
    <3>1. /\ Len(z) = Len(r) + 1 /\ z[Len(r) + 1] = arrived[p] + 1
          /\ \A i \in 1 .. Len(r) : z[i] = r[i]
      BY <2>5, <2>7, <2>9, <2>10, Zenon
    <3> QED
      BY <2>1, <2>4, <2>5, <2>7, <2>11, <3>1, LineDeliver, Zenon
  <2> QED
    BY <1>1, <1>2, <1>4, <1>5, <2>3, <2>12, Zenon DEF Flow
<1>6. CASE k # p
  BY <1>1, <1>2, <1>4, <1>6, Zenon DEF Flow
<1> QED
  BY <1>5, <1>6

\* Every step keeps the line of packets in order.
LEMMA FlowStep ==
  ASSUME Shape, Shape', [Next]_vars, Held, NEW p \in Ports, NEW o \in Ports, o = Other(p),
         o # p, RxOwned(p), TxOwned(o), Flow(p, o)
  PROVE  Flow(p, o)'
<1>u. ASSUME UNCHANGED <<sent[o], umem[o], txRing[o], umem[p], rxRing[p], arrived[p]>>,
             Pending(p)' = Pending(p)
      PROVE  Flow(p, o)'
  BY <1>u, Zenon DEF Flow
<1>1. CASE FillPort \/ Poll \/ PollInterrupted \/ CompletePort
  <2>1. UNCHANGED <<sent, umem, txRing, rxRing, arrived>>
    BY <1>1, Zenon DEF FillPort, Poll, PollInterrupted, CompletePort, socketVars, rings, kernelVars
  <2>2. pc # "forward" /\ pc' # "forward"
    BY <1>1, Zenon DEF FillPort, Poll, PollInterrupted, CompletePort
  <2> QED
    BY <1>u, <2>1, <2>2, Zenon DEF Pending
<1>2. CASE ReceivePort
  BY <1>2, FlowReceive
<1>3. CASE ForwardPort
  BY <1>3, FlowForward
<1>4. CASE KernelNext /\ UNCHANGED <<pc, cur, revents, inDescs>>
  <2>1. Pending(p)' = Pending(p)
    BY <1>4, Zenon DEF Pending
  <2>2. ASSUME NEW k \in Ports, KernelTakeFill(k) PROVE Flow(p, o)'
    BY <1>u, <2>1, <2>2, Zenon DEF KernelTakeFill
  <2>3. ASSUME NEW k \in Ports, NEW f \in AllFrames, KernelComplete(k, f) PROVE Flow(p, o)'
    BY <1>u, <2>1, <2>3, Zenon DEF KernelComplete
  <2>4. ASSUME NEW k \in Ports, KernelDeliver(k) PROVE Flow(p, o)'
    BY <1>4, <2>4, FlowDeliver, Zenon
  <2>5. ASSUME NEW k \in Ports, KernelSend(k) PROVE Flow(p, o)'
    <3>1. CASE k = o
      BY <1>4, <2>5, <3>1, FlowSend, Zenon
    <3>2. CASE k # o
      BY <1>u, <2>1, <2>5, <3>2, Zenon DEF KernelSend, Shape, TxShape, DataShape
    <3> QED
      BY <3>1, <3>2, Zenon
  <2> QED
    BY <1>4, <2>2, <2>3, <2>4, <2>5, Zenon DEF KernelNext
<1>5. CASE UNCHANGED vars
  BY <1>u, <1>5, Zenon DEF vars, socketVars, rings, kernelVars, Pending
<1> QED
  BY <1>1, <1>2, <1>3, <1>4, <1>5, Zenon DEF Next, LoopNext

\* For any number of frames and any ring sizes, the packets leave a port in the
\* order in which they arrived at the other one and none leaves twice: no copy
\* of forwardFrames and no packet that arrives meanwhile overwrites one that is
\* still to be forwarded or sent.
THEOREM GoSwitchOrder == Spec => []InOrder
<1> DEFINE Ordered ==
             /\ Held
             /\ \A p \in Ports : RxOwned(p) /\ TxOwned(p) /\ Flow(p, Other(p))
<1>1. Init => Ordered
  <2> SUFFICES ASSUME Init PROVE Ordered
    BY Zenon
  <2>1. Held
    BY DEF Init, Held
  <2>2. ASSUME NEW p \in Ports PROVE Flow(p, Other(p))
    <3>1. /\ sent[Other(p)] = <<>> /\ txRing[Other(p)] = <<>> /\ Pending(p) = <<>>
          /\ rxRing[p] = <<>>
      BY Halves, Zenon DEF Init, SocketInit, Pending
    <3>2. Flow(p, Other(p)) = Line(<<>>, <<>>, <<>>, <<>>, arrived[p])
      BY <3>1, ContentsEmpty, Zenon DEF Flow
    <3>3. 1 .. Len(<<>>) = {}
      BY EmptyType
    <3>4. \A n : Rising(<<>>) /\ Ahead(<<>>, <<>>) /\ Within(<<>>, n)
      BY <3>3, Zenon DEF Rising, Ahead, Within
    <3> QED
      BY <3>2, <3>4, Zenon DEF Line
  <2> QED
    BY <2>1, <2>2, RxInit, TxInit, Zenon
<1>2. Shape /\ Shape' /\ Ordered /\ [Next]_vars => Ordered'
  <2> SUFFICES ASSUME Shape, Shape', Ordered, [Next]_vars PROVE Ordered'
    OBVIOUS
  <2>1. Held'
    BY HeldStep, Zenon
  <2>2. ASSUME NEW p \in Ports PROVE RxOwned(p)' /\ TxOwned(p)' /\ Flow(p, Other(p))'
    BY RxStep, TxStep, FlowStep, Halves, Zenon
  <2> QED
    BY <2>1, <2>2, Zenon
<1>3. Shape /\ Ordered => InOrder
  <2> SUFFICES ASSUME Shape, Ordered, NEW p \in Ports
               PROVE  /\ \A i \in DOMAIN sent[p] : sent[p][i] # 0
                      /\ \A i, j \in DOMAIN sent[p] : i < j => sent[p][i] < sent[p][j]
    BY Zenon DEF InOrder
  <2>1. PICK q \in Ports : Other(q) = p
    BY Zenon DEF Other, Ports
  <2>2. Rising(sent[p]) /\ Within(sent[p], arrived[q]) /\ arrived[q] \in Nat
    BY <2>1, FlowTypes, Zenon DEF Flow, Line
  <2>3. DOMAIN sent[p] = 1 .. Len(sent[p])
    BY FlowTypes, LenProperties, Zenon
  <2>4. \A i, j \in 1 .. Len(sent[p]) : i < j => sent[p][i] < sent[p][j]
    BY <2>2, Zenon DEF Rising
  <2>5. ASSUME NEW i \in 1 .. Len(sent[p]) PROVE sent[p][i] # 0
    <3>1. PICK n \in Nat : n = arrived[q]
      BY <2>2, Zenon
    <3>2. sent[p][i] \in 1 .. n
      BY <2>2, <3>1, Zenon DEF Within
    <3> QED
      BY <3>2
  <2> QED
    BY <2>3, <2>4, <2>5, Zenon
<1> HIDE DEF Ordered
<1> QED
  BY <1>1, <1>2, <1>3, ShapeInit, ShapeStep, PTL DEF Spec

=============================================================================
