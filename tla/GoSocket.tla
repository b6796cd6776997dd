------------------------------- MODULE GoSocket -------------------------------
(***************************************************************************)
(* The AF_XDP sockets of go-approach/xdp.go, one per port, and the         *)
(* kernel's side of them.  Unlike the C program a socket keeps no stack of *)
(* free frames but two bit maps, freeRXDescs for the first                 *)
(* FillRingNumDescs frames and freeTXDescs for the others, and it reads    *)
(* the shared ring indices afresh in every call.                           *)
(*                                                                         *)
(* A ring is the sequence of the frames between its consumer and producer  *)
(* indices.  A frame's content is the number of the packet in it.          *)
(***************************************************************************)
EXTENDS Integers, Sequences, FiniteSets, Functions

CONSTANTS
  in, out,                  \* the two ports, inXsk and outXsk
  NumFrames,                \* frames of a socket's UMEM
  FillRingNumDescs,         \* slots of the four rings
  CompletionRingNumDescs,
  RxRingNumDescs,
  TxRingNumDescs,
  MaxPackets,               \* bound: packets that arrive at each port
  MaxSent                   \* bound: frames the kernel sends through each port

Ports == {in, out}    \* one socket each
Other(p) == IF p = in THEN out ELSE in

\* Packets for small instances: a burst one way.
OneWay == [p \in Ports |-> IF p = in THEN 3 ELSE 0]

ASSUME OptionsAssumption ==
  /\ in # out
  /\ {FillRingNumDescs, CompletionRingNumDescs, RxRingNumDescs, TxRingNumDescs,
      NumFrames} \subseteq Nat \ {0}
  /\ FillRingNumDescs < NumFrames
  /\ MaxPackets \in [Ports -> Nat] /\ MaxSent \in Nat

VARIABLES
  fillRing, rxRing, txRing, completionRing,
  freeRXDescs, freeTXDescs,    \* the frames marked true
  numFilled, numTransmitted,   \* the socket's counters
  umem,                        \* the packet in each frame, 0 for none
  nic,                         \* frames the driver took from the fill ring
  sending,                     \* frames the kernel took from the tx ring
  arrived,                     \* packets that have arrived at the port
  sent                         \* packets that left through the port, in order

kernelVars == <<nic, sending, arrived, sent>>
rings == <<fillRing, rxRing, txRing, completionRing>>
socketVars == <<rings, freeRXDescs, freeTXDescs, numFilled, numTransmitted, umem, kernelVars>>

\* GetDescs(n, true) looks for frames below cap(getRXDescs), GetDescs(n, false)
\* for the frames above.
RxFrames == 0 .. FillRingNumDescs - 1
TxFrames == FillRingNumDescs .. NumFrames - 1
AllFrames == 0 .. NumFrames - 1

Capped(n, limit) == IF n > limit THEN limit ELSE n
First(seq, n) == SubSeq(seq, 1, Capped(n, Len(seq)))

\* The members of S, lowest first: the order in which a loop over the bit maps
\* meets them.
Ascending(S) ==
  [i \in 1 .. Cardinality(S) |->
     CHOOSE f \in S : Cardinality({g \in S : g < f}) = i - 1]

\* What NewSocket leaves: empty rings, every frame marked free in both maps.
SocketInit ==
  /\ fillRing = [p \in Ports |-> <<>>]
  /\ rxRing = [p \in Ports |-> <<>>]
  /\ txRing = [p \in Ports |-> <<>>]
  /\ completionRing = [p \in Ports |-> <<>>]
  /\ freeRXDescs = [p \in Ports |-> AllFrames]
  /\ freeTXDescs = [p \in Ports |-> AllFrames]
  /\ numFilled = [p \in Ports |-> 0]
  /\ numTransmitted = [p \in Ports |-> 0]
  /\ umem = [p \in Ports |-> [f \in AllFrames |-> 0]]
  /\ nic = [p \in Ports |-> <<>>]
  /\ sending = [p \in Ports |-> {}]
  /\ arrived = [p \in Ports |-> 0]
  /\ sent = [p \in Ports |-> <<>>]

-----------------------------------------------------------------------------
(* The socket's operations *)

NumFreeFillSlots(p) == FillRingNumDescs - Len(fillRing[p])
NumFreeTxSlots(p) == TxRingNumDescs - Len(txRing[p])
NumReceived(p) == Len(rxRing[p])
NumCompleted(p) == Len(completionRing[p])

\* The lowest n frames marked free, the receiving or the sending half.
GetDescs(p, n, rx) ==
  LET free == IF rx THEN freeRXDescs[p] \cap RxFrames ELSE freeTXDescs[p] \cap TxFrames
      most == IF rx THEN FillRingNumDescs
              ELSE Capped(FillRingNumDescs, CompletionRingNumDescs)
  IN  First(Ascending(free), Capped(n, most))

\* Mutant: the frames stay marked free.
Fill_StillFree(p, frames) ==
  LET descs == First(frames, NumFreeFillSlots(p))
  IN  /\ fillRing' = [fillRing EXCEPT ![p] = @ \o descs]
      /\ numFilled' = [numFilled EXCEPT ![p] = @ + Len(descs)]
      /\ UNCHANGED freeRXDescs

Fill(p, frames) ==
  LET descs == First(frames, NumFreeFillSlots(p))
  IN  /\ fillRing' = [fillRing EXCEPT ![p] = @ \o descs]
      /\ freeRXDescs' = [freeRXDescs EXCEPT ![p] = @ \ Range(descs)]
      /\ numFilled' = [numFilled EXCEPT ![p] = @ + Len(descs)]

\* What Receive(num) returns.
Descs(p, num) == First(rxRing[p], num)

\* Mutant: the consumer index is not advanced.
Receive_NotReleased(p, num) ==
  /\ freeRXDescs' = [freeRXDescs EXCEPT ![p] = @ \cup Range(Descs(p, num))]
  /\ numFilled' = [numFilled EXCEPT ![p] = @ - Len(Descs(p, num))]
  /\ UNCHANGED rxRing

\* Its effect on the socket.
Receive(p, num) ==
  /\ rxRing' = [rxRing EXCEPT ![p] = SubSeq(@, Len(Descs(p, num)) + 1, Len(@))]
  /\ freeRXDescs' = [freeRXDescs EXCEPT ![p] = @ \cup Range(Descs(p, num))]
  /\ numFilled' = [numFilled EXCEPT ![p] = @ - Len(Descs(p, num))]

\* Transmit up to its counter: the ring and the bit map.  Its sendto succeeds,
\* is repeated on EINTR or is given up on EAGAIN and EBUSY.
PushTx(p, frames) ==
  LET descs == First(frames, NumFreeTxSlots(p))
  IN  /\ txRing' = [txRing EXCEPT ![p] = @ \o descs]
      /\ freeTXDescs' = [freeTXDescs EXCEPT ![p] = @ \ Range(descs)]

\* Complete(n) up to its counter.
PopCompleted(p, n) ==
  /\ completionRing' = [completionRing EXCEPT ![p] = SubSeq(@, n + 1, Len(@))]
  /\ freeTXDescs' = [freeTXDescs EXCEPT ![p] = @ \cup Range(First(completionRing[p], n))]

\* Poll(timeout): the events it waits for ...
PollEvents(p) ==
  (IF numFilled[p] > 0 THEN {"POLLIN"} ELSE {})
    \cup (IF numTransmitted[p] > 0 THEN {"POLLOUT"} ELSE {})

\* ... it does not wait if there are none, otherwise until one is there ...
PollReturns(p) ==
  \/ PollEvents(p) = {}
  \/ "POLLIN" \in PollEvents(p) /\ rxRing[p] # <<>>
  \/ "POLLOUT" \in PollEvents(p) /\ NumFreeTxSlots(p) > 0

\* ... and then takes back what has been sent.
PollCompletes(p) ==
  IF PollEvents(p) = {} THEN UNCHANGED <<completionRing, freeTXDescs, numTransmitted>>
  ELSE /\ PopCompleted(p, NumCompleted(p))
       /\ numTransmitted' = [numTransmitted EXCEPT ![p] = @ - NumCompleted(p)]

-----------------------------------------------------------------------------
(* The kernel *)

KernelTakeFill(p) ==
  /\ fillRing[p] # <<>>
  /\ fillRing' = [fillRing EXCEPT ![p] = Tail(@)]
  /\ nic' = [nic EXCEPT ![p] = Append(@, Head(fillRing[p]))]
  /\ UNCHANGED <<rxRing, txRing, completionRing, freeRXDescs, freeTXDescs, numFilled,
                 numTransmitted, umem, sending, arrived, sent>>

\* The next packet arrives and is written into the oldest frame of the driver.
KernelDeliver(p) ==
  /\ arrived[p] < MaxPackets[p]
  /\ nic[p] # <<>> /\ Len(rxRing[p]) < RxRingNumDescs
  /\ arrived' = [arrived EXCEPT ![p] = @ + 1]
  /\ umem' = [umem EXCEPT ![p][Head(nic[p])] = arrived'[p]]
  /\ rxRing' = [rxRing EXCEPT ![p] = Append(@, Head(nic[p]))]
  /\ nic' = [nic EXCEPT ![p] = Tail(@)]
  /\ UNCHANGED <<fillRing, txRing, completionRing, freeRXDescs, freeTXDescs, numFilled,
                 numTransmitted, sending, sent>>

\* The kernel sends the oldest tx entry, once its completion has a slot.
KernelSend(p) ==
  /\ txRing[p] # <<>> /\ Len(sent[p]) < MaxSent
  /\ Cardinality(sending[p]) + Len(completionRing[p]) < CompletionRingNumDescs
  /\ sent' = [sent EXCEPT ![p] = Append(@, umem[p][Head(txRing[p])])]
  /\ sending' = [sending EXCEPT ![p] = @ \cup {Head(txRing[p])}]
  /\ txRing' = [txRing EXCEPT ![p] = Tail(@)]
  /\ UNCHANGED <<fillRing, rxRing, completionRing, freeRXDescs, freeTXDescs, numFilled,
                 numTransmitted, umem, nic, arrived>>

KernelComplete(p, f) ==
  /\ f \in sending[p]
  /\ sending' = [sending EXCEPT ![p] = @ \ {f}]
  /\ completionRing' = [completionRing EXCEPT ![p] = Append(@, f)]
  /\ UNCHANGED <<fillRing, rxRing, txRing, freeRXDescs, freeTXDescs, numFilled,
                 numTransmitted, umem, nic, arrived, sent>>

KernelNext ==
  \E p \in Ports : \/ KernelTakeFill(p) \/ KernelDeliver(p) \/ KernelSend(p)
                   \/ \E f \in AllFrames : KernelComplete(p, f)

\* The kernel keeps sending what is queued and reporting what it has sent.
KernelFairness ==
  \A p \in Ports : /\ WF_socketVars(KernelSend(p))
                   /\ \A f \in AllFrames : WF_socketVars(KernelComplete(p, f))

-----------------------------------------------------------------------------
\* Sequences s and t without repetitions and without a common element.
DistinctSeqs(seqs) ==
  \A i, j \in DOMAIN seqs : \A m \in DOMAIN seqs[i], n \in DOMAIN seqs[j] :
    seqs[i][m] = seqs[j][n] => i = j /\ m = n

\* The values of the rings, the bit maps, the counters and the frames.
SocketTypeOK ==
  \A p \in Ports :
    /\ fillRing[p] \in Seq(RxFrames) /\ Len(fillRing[p]) <= FillRingNumDescs
    /\ rxRing[p] \in Seq(RxFrames) /\ Len(rxRing[p]) <= RxRingNumDescs
    /\ txRing[p] \in Seq(TxFrames) /\ Len(txRing[p]) <= TxRingNumDescs
    /\ completionRing[p] \in Seq(TxFrames)
    /\ Len(completionRing[p]) <= CompletionRingNumDescs
    /\ freeRXDescs[p] \subseteq AllFrames /\ freeTXDescs[p] \subseteq AllFrames
    /\ umem[p] \in [AllFrames -> Nat]
    /\ nic[p] \in Seq(RxFrames) /\ sending[p] \subseteq TxFrames
    /\ arrived[p] \in 0 .. MaxPackets[p]

\* The frames that the kernel holds or that are in a ring.
InUse(p) ==
  UNION {Range(fillRing[p]), Range(nic[p]), Range(rxRing[p]), Range(txRing[p]), sending[p],
         Range(completionRing[p])}

\* A frame of the receiving half is marked free exactly when it is neither in
\* the fill ring, nor with the driver, nor in the rx ring, and it is in one of
\* them at most once: Fill never hands a frame to the kernel twice.
RxOwnership ==
  \A p \in Ports :
    /\ DistinctSeqs(<<fillRing[p], nic[p], rxRing[p]>>)
    /\ freeRXDescs[p] \cap RxFrames
         = RxFrames \ (Range(fillRing[p]) \cup Range(nic[p]) \cup Range(rxRing[p]))

\* A frame of the sending half is marked free exactly when it is neither in the
\* tx ring, nor being sent, nor in the completion ring, and in one of them at
\* most once: GetDescs never offers a frame that is still to be sent.
TxOwnership ==
  \A p \in Ports :
    /\ DistinctSeqs(<<txRing[p], completionRing[p]>>)
    /\ sending[p] \cap (Range(txRing[p]) \cup Range(completionRing[p])) = {}
    /\ freeTXDescs[p] \cap TxFrames
         = TxFrames \ (Range(txRing[p]) \cup sending[p] \cup Range(completionRing[p]))

\* Every frame of every socket has exactly one owner.
FramesOwned == RxOwnership /\ TxOwnership

\* numFilled and numTransmitted, which decide whether poll() is asked for
\* POLLIN and POLLOUT, count exactly the frames handed to the kernel that
\* Receive and Complete have not collected.  The comments on NumFilled and
\* NumTransmitted say less, "descriptors on the Fill ring queue which have not
\* yet been consumed by the kernel" and the same of the Tx ring: a descriptor
\* the kernel has consumed is still counted, while it is with the driver and
\* while it waits in the rx or the completion ring.  The greater number is the
\* one the poll flags need.
CountersExact ==
  \A p \in Ports :
    /\ numFilled[p] = Len(fillRing[p]) + Len(nic[p]) + Len(rxRing[p])
    /\ numTransmitted[p] = Len(txRing[p]) + Cardinality(sending[p]) + Len(completionRing[p])

\* What leaves through a port arrived at another one, in the same order, and
\* no packet leaves twice: forwardFrames may drop packets, not reorder, repeat
\* or overwrite them.
InOrder ==
  \A p \in Ports :
    /\ \A i \in DOMAIN sent[p] : sent[p][i] # 0
    /\ \A i, j \in DOMAIN sent[p] : i < j => sent[p][i] < sent[p][j]

=============================================================================
