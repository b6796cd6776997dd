----------------------------- MODULE GoSwitchChan -----------------------------
(***************************************************************************)
(* The Go switch with a goroutine per burst,                               *)
(* examples/switchTSN-david/switch_bi_chan.go.  Five kinds of goroutine    *)
(* share the two sockets without a lock: one per port that does nothing    *)
(* but refill it, one per port that polls and, for every POLLIN, starts    *)
(* another that runs forwardFrames and sends its count over the unbuffered *)
(* channel results, and main, which adds the counts up.                    *)
(*                                                                         *)
(* Every call on a socket is one step here; the calls of two goroutines    *)
(* may interleave inside as well, which only adds behaviours.              *)
(***************************************************************************)
EXTENDS GoSocket, FiniteSets

CONSTANT MaxForwarders    \* bound: goroutines started for each port

VARIABLES
  pc,               \* where the polling goroutine of each port is
  events,           \* fds[p].Events
  watched,          \* the Events a goroutine's poll() was entered with
  revents,          \* fds[p].Revents
  rxDescs,          \* the slice of a socket that every Receive writes into
  forwarders,       \* the goroutines started for a port: where each is, and its count
  numFramesTotal

chanVars == <<pc, events, watched, revents, rxDescs, forwarders, numFramesTotal>>
vars == <<socketVars, chanVars>>

Init ==
  /\ SocketInit
  /\ pc = [p \in Ports |-> "arm"]
  /\ events = [p \in Ports |-> {}]
  /\ watched = [p \in Ports |-> events]
  /\ revents = [p \in Ports |-> {}]
  /\ rxDescs = [p \in Ports |-> <<>>]
  /\ forwarders = [p \in Ports |-> <<>>]
  /\ numFramesTotal = 0

\* for { Fill(GetDescs(NumFreeFillSlots(), true)) }
FillPort(p) ==
  /\ Fill(p, GetDescs(p, NumFreeFillSlots(p), TRUE))
  /\ UNCHANGED <<rxRing, txRing, completionRing, freeTXDescs, numTransmitted, umem,
                 kernelVars, chanVars>>

\* fds[p].Events for the next poll, fds[p].Revents = 0, and the entry of poll(),
\* which copies the Events of both descriptors.
Arm(p) ==
  /\ pc[p] = "arm"
  /\ events' = [events EXCEPT ![p] =
                  {"POLLIN"} \cup (IF numTransmitted[p] > 0 THEN {"POLLOUT"} ELSE {})]
  /\ watched' = [watched EXCEPT ![p] = events']
  /\ revents' = [revents EXCEPT ![p] = {}]
  /\ pc' = [pc EXCEPT ![p] = "poll"]
  /\ UNCHANGED <<socketVars, rxDescs, forwarders, numFramesTotal>>

\* What the poll() of p's goroutine reports of fds[q].
Ready(p, q) ==
  {e \in watched[p][q] : \/ e = "POLLIN" /\ rxRing[q] # <<>>
                         \/ e = "POLLOUT" /\ NumFreeTxSlots(q) > 0}

\* poll(fds[:]) of p's goroutine writes both Revents.
Poll(p) ==
  /\ pc[p] = "poll"
  /\ \E q \in Ports : Ready(p, q) # {}
  /\ revents' = [q \in Ports |-> Ready(p, q)]
  /\ pc' = [pc EXCEPT ![p] = "spawn"]
  /\ UNCHANGED <<socketVars, events, watched, rxDescs, forwarders, numFramesTotal>>

\* EINTR: continue.
PollInterrupted(p) ==
  /\ pc[p] = "poll"
  /\ pc' = [pc EXCEPT ![p] = "arm"]
  /\ UNCHANGED <<socketVars, events, watched, revents, rxDescs, forwarders, numFramesTotal>>

\* On POLLIN a goroutine for the burst is started; on POLLOUT completed frames
\* are taken back.
Spawn(p) ==
  /\ pc[p] = "spawn"
  /\ IF "POLLIN" \in revents[p]
     THEN /\ Len(forwarders[p]) < MaxForwarders
          /\ forwarders' = [forwarders EXCEPT ![p] = Append(@, [at |-> "receive", n |-> 0])]
     ELSE UNCHANGED forwarders
  /\ IF "POLLOUT" \in revents[p]
     THEN /\ PopCompleted(p, NumCompleted(p))
          /\ numTransmitted' = [numTransmitted EXCEPT ![p] = @ - NumCompleted(p)]
     ELSE UNCHANGED <<completionRing, freeTXDescs, numTransmitted>>
  /\ pc' = [pc EXCEPT ![p] = "arm"]
  /\ UNCHANGED <<fillRing, rxRing, txRing, freeRXDescs, numFilled, umem, kernelVars,
                 events, watched, revents, rxDescs, numFramesTotal>>

\* inDescs := input.Receive(input.NumReceived()): a slice of the socket's buffer.
ReceiveBurst(p, g) ==
  LET descs == Descs(p, NumReceived(p))
  IN  /\ forwarders[p][g].at = "receive"
      /\ Receive(p, NumReceived(p))
      /\ rxDescs' = [rxDescs EXCEPT ![p] = descs \o SubSeq(@, Len(descs) + 1, Len(@))]
      /\ forwarders' = [forwarders EXCEPT ![p][g] = [at |-> "forward", n |-> Len(descs)]]
      /\ UNCHANGED <<fillRing, txRing, completionRing, freeTXDescs, numTransmitted, umem,
                     kernelVars, pc, events, watched, revents, numFramesTotal>>

\* The rest of forwardFrames.
ForwardBurst(p, g) ==
  LET output == Other(p)
      inDescs == First(rxDescs[p], forwarders[p][g].n)
      outDescs == First(GetDescs(output, NumFreeTxSlots(output), FALSE), Len(inDescs))
  IN  /\ forwarders[p][g].at = "forward"
      /\ umem' = [umem EXCEPT ![output] =
                    [f \in AllFrames |->
                       IF f \in Range(outDescs)
                       THEN umem[p][inDescs[CHOOSE i \in DOMAIN outDescs : outDescs[i] = f]]
                       ELSE @[f]]]
      /\ PushTx(output, outDescs)
      /\ numTransmitted' = [numTransmitted EXCEPT ![output] = @ + Len(outDescs)]
      /\ forwarders' = [forwarders EXCEPT ![p][g] = [at |-> "results", n |-> Len(outDescs)]]
      /\ UNCHANGED <<fillRing, rxRing, completionRing, freeRXDescs, numFilled, kernelVars,
                     pc, events, watched, revents, rxDescs, numFramesTotal>>

\* main receives from results and the goroutine ends.
AddResult(p, g) ==
  /\ forwarders[p][g].at = "results"
  /\ numFramesTotal' = numFramesTotal + forwarders[p][g].n
  /\ forwarders' = [forwarders EXCEPT ![p][g] = [at |-> "done", n |-> 0]]
  /\ UNCHANGED <<socketVars, pc, events, watched, revents, rxDescs>>

Next ==
  \/ \E p \in Ports :
       \/ FillPort(p) \/ Arm(p) \/ Poll(p) \/ PollInterrupted(p) \/ Spawn(p)
       \/ \E g \in DOMAIN forwarders[p] :
            ReceiveBurst(p, g) \/ ForwardBurst(p, g) \/ AddResult(p, g)
  \/ KernelNext /\ UNCHANGED chanVars

Spec == Init /\ [][Next]_vars

-----------------------------------------------------------------------------
\* The switch "transmits any frames received on any of them on the other network
\* link": what leaves through a port is a packet that arrived at the other one,
\* and no packet leaves twice.
ForwardsReceived ==
  \A p \in Ports :
    /\ \A i \in DOMAIN sent[p] : sent[p][i] # 0
    /\ \A i, j \in DOMAIN sent[p] : i # j => sent[p][i] # sent[p][j]
=============================================================================
