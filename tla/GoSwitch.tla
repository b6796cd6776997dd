------------------------------- MODULE GoSwitch -------------------------------
(***************************************************************************)
(* The packet loop of the Go switch, launchswitch in                       *)
(* go-approach/examples/switchTSN-david/switch.go: one goroutine refills   *)
(* both sockets, waits in poll(), forwards in each direction and collects  *)
(* completed transmissions.  (examples/l2fwd runs the same loop.)          *)
(***************************************************************************)
EXTENDS GoSocket, FiniteSets

VARIABLES
  pc,        \* "fill", "poll", "receive", "forward" or "complete"
  cur,       \* the port the loop is at
  revents,   \* what the last poll() returned for each port
  inDescs    \* frames received and not yet forwarded

vars == <<socketVars, pc, cur, revents, inDescs>>

Init ==
  /\ SocketInit
  /\ pc = "fill" /\ cur = in
  /\ revents = [p \in Ports |-> {}]
  /\ inDescs = <<>>

\* The first statement of the loop for port in, then the second for port out.
FillPort ==
  /\ pc = "fill"
  /\ Fill(cur, GetDescs(cur, NumFreeFillSlots(cur), TRUE))
  /\ cur' = Other(cur)
  /\ pc' = IF cur = in THEN "fill" ELSE "poll"
  /\ UNCHANGED <<rxRing, txRing, completionRing, freeTXDescs, numTransmitted, umem,
                 kernelVars, revents, inDescs>>

\* What poll() has to report of a port: POLLOUT is asked for while
\* NumTransmitted() > 0 and reported while the tx ring has a free slot.
Ready(p) ==
  (IF rxRing[p] # <<>> THEN {"POLLIN"} ELSE {})
    \cup (IF numTransmitted[p] > 0 /\ NumFreeTxSlots(p) > 0 THEN {"POLLOUT"} ELSE {})

\* poll() with no timeout returns once something is ready.
Poll ==
  /\ pc = "poll"
  /\ \E p \in Ports : Ready(p) # {}
  /\ revents' = [p \in Ports |-> Ready(p)]
  /\ pc' = "receive"
  /\ UNCHANGED <<socketVars, cur, inDescs>>

\* poll() returns EINTR: continue.
PollInterrupted ==
  /\ pc = "poll"
  /\ pc' = "fill"
  /\ UNCHANGED <<socketVars, cur, revents, inDescs>>

\* forwardFrames: input.Receive(input.NumReceived()), if POLLIN is set.
ReceivePort ==
  /\ pc = "receive"
  /\ IF "POLLIN" \in revents[cur]
     THEN /\ inDescs' = Descs(cur, NumReceived(cur))
          /\ Receive(cur, NumReceived(cur))
          /\ pc' = "forward"
     ELSE /\ pc' = "complete"
          /\ UNCHANGED <<rxRing, freeRXDescs, numFilled, inDescs>>
  /\ UNCHANGED <<fillRing, txRing, completionRing, freeTXDescs, numTransmitted, umem,
                 kernelVars, cur, revents>>

\* The rest of forwardFrames: take free frames of the output, drop what exceeds
\* them, copy frame by frame and transmit.
ForwardPort ==
  LET output == Other(cur)
      outDescs == First(GetDescs(output, NumFreeTxSlots(output), FALSE), Len(inDescs))
  IN  /\ pc = "forward"
      /\ umem' = [umem EXCEPT ![output] =
                    [f \in AllFrames |->
                       IF f \in Range(outDescs)
                       THEN umem[cur][inDescs[CHOOSE i \in DOMAIN outDescs : outDescs[i] = f]]
                       ELSE @[f]]]
      /\ PushTx(output, outDescs)
      /\ numTransmitted' = [numTransmitted EXCEPT ![output] = @ + Len(outDescs)]
      /\ inDescs' = <<>>
      /\ pc' = "complete"
      /\ UNCHANGED <<fillRing, rxRing, completionRing, freeRXDescs, numFilled,
                     kernelVars, cur, revents>>

\* Mutant: completions are collected only when there was a packet to forward.
CompletePort_OnInput ==
  /\ pc = "complete"
  /\ IF {"POLLIN", "POLLOUT"} \subseteq revents[cur]
     THEN /\ PopCompleted(cur, NumCompleted(cur))
          /\ numTransmitted' = [numTransmitted EXCEPT ![cur] = @ - NumCompleted(cur)]
     ELSE UNCHANGED <<completionRing, freeTXDescs, numTransmitted>>
  /\ cur' = Other(cur)
  /\ pc' = IF cur = in THEN "receive" ELSE "fill"
  /\ UNCHANGED <<fillRing, rxRing, txRing, freeRXDescs, numFilled, umem, kernelVars,
                 revents, inDescs>>

\* Mutant: the counter is left alone.
CompletePort_NotCounted ==
  /\ pc = "complete"
  /\ IF "POLLOUT" \in revents[cur]
     THEN PopCompleted(cur, NumCompleted(cur))
     ELSE UNCHANGED <<completionRing, freeTXDescs>>
  /\ cur' = Other(cur)
  /\ pc' = IF cur = in THEN "receive" ELSE "fill"
  /\ UNCHANGED <<fillRing, rxRing, txRing, freeRXDescs, numFilled, numTransmitted, umem,
                 kernelVars, revents, inDescs>>

\* Complete(NumCompleted()), if POLLOUT is set; then the other port's turn.
CompletePort ==
  /\ pc = "complete"
  /\ IF "POLLOUT" \in revents[cur]
     THEN /\ PopCompleted(cur, NumCompleted(cur))
          /\ numTransmitted' = [numTransmitted EXCEPT ![cur] = @ - NumCompleted(cur)]
     ELSE UNCHANGED <<completionRing, freeTXDescs, numTransmitted>>
  /\ cur' = Other(cur)
  /\ pc' = IF cur = in THEN "receive" ELSE "fill"
  /\ UNCHANGED <<fillRing, rxRing, txRing, freeRXDescs, numFilled, umem, kernelVars,
                 revents, inDescs>>

LoopNext == FillPort \/ Poll \/ ReceivePort \/ ForwardPort \/ CompletePort

Next == \/ LoopNext
        \/ PollInterrupted
        \/ KernelNext /\ UNCHANGED <<pc, cur, revents, inDescs>>

Spec == Init /\ [][Next]_vars

\* The goroutine keeps running; poll() is not interrupted for ever.
FairSpec == Spec /\ WF_vars(LoopNext) /\ SF_vars(Poll) /\ KernelFairness

-----------------------------------------------------------------------------
\* The values the loop's variables may hold, and the sockets' type invariant.
TypeOK ==
  /\ SocketTypeOK
  /\ pc \in {"fill", "poll", "receive", "forward", "complete"}
  /\ cur \in Ports
  /\ revents \in [Ports -> SUBSET {"POLLIN", "POLLOUT"}]
  /\ inDescs \in Seq(RxFrames)

\* Every frame queued for transmission is eventually free again, whether or not
\* more packets arrive, and every packet received is eventually taken.
Served ==
  \A p \in Ports :
    /\ \A f \in TxFrames : f \in Range(txRing[p]) ~> f \in freeTXDescs[p]
    /\ \A f \in RxFrames : f \in Range(rxRing[p]) ~> f \in freeRXDescs[p]

=============================================================================
