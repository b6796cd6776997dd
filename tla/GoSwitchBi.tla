------------------------------ MODULE GoSwitchBi ------------------------------
(***************************************************************************)
(* The Go switch with a goroutine per port,                                *)
(* go-approach/examples/switchTSN-david/switch_bi.go (switch_sync_bad.go   *)
(* differs in polling one descriptor per goroutine).  The goroutine of a   *)
(* port fills, receives from and completes its own socket and transmits on *)
(* the other one; nothing synchronises them, and both poll the shared      *)
(* array fds.  numTransmitted is written by both: an addition reads it,    *)
(* and writes it in a later step.                                          *)
(*                                                                         *)
(* The bit maps, rings and frames a forward touches are not those a        *)
(* concurrent Complete touches (a frame is free or completed, never both), *)
(* so each of the two is one step up to its counter.                       *)
(***************************************************************************)
EXTENDS GoSocket, FiniteSets

VARIABLES
  pc,        \* where the goroutine of each port is
  events,    \* fds[p].Events
  watched,   \* the Events a goroutine's poll() was entered with
  revents,   \* fds[p].Revents
  inDescs,   \* frames a goroutine has received and not yet forwarded
  addend,    \* what a goroutine is about to add to a numTransmitted
  read       \* and the value it has read

goVars == <<pc, events, watched, revents, inDescs, addend, read>>
vars == <<socketVars, goVars>>

Init ==
  /\ SocketInit
  /\ pc = [p \in Ports |-> "fill"]
  /\ events = [p \in Ports |-> {}]
  /\ watched = [p \in Ports |-> events]
  /\ revents = [p \in Ports |-> {}]
  /\ inDescs = [p \in Ports |-> <<>>]
  /\ addend = [p \in Ports |-> 0]
  /\ read = [p \in Ports |-> 0]

Goto(p, label) == pc' = [pc EXCEPT ![p] = label]

FillPort(p) ==
  /\ pc[p] = "fill"
  /\ Fill(p, GetDescs(p, NumFreeFillSlots(p), TRUE))
  /\ Goto(p, "arm")
  /\ UNCHANGED <<rxRing, txRing, completionRing, freeTXDescs, numTransmitted, umem,
                 kernelVars, events, watched, revents, inDescs, addend,
                 read>>

\* fds[p].Events for the next poll, fds[p].Revents = 0, and the entry of poll(),
\* which copies the Events of both descriptors.
Arm(p) ==
  /\ pc[p] = "arm"
  /\ events' = [events EXCEPT ![p] =
                  {"POLLIN"} \cup (IF numTransmitted[p] > 0 THEN {"POLLOUT"} ELSE {})]
  /\ watched' = [watched EXCEPT ![p] = events']
  /\ revents' = [revents EXCEPT ![p] = {}]
  /\ Goto(p, "poll")
  /\ UNCHANGED <<socketVars, inDescs, addend, read>>

\* What the poll() of p's goroutine reports of fds[q].
Ready(p, q) ==
  {e \in watched[p][q] : \/ e = "POLLIN" /\ rxRing[q] # <<>>
                         \/ e = "POLLOUT" /\ NumFreeTxSlots(q) > 0}

\* poll() keeps its copy no longer than it runs.
LeavePoll(p) == watched' = [watched EXCEPT ![p] = [q \in Ports |-> {}]]

\* poll(fds[:]) watches both descriptors and writes both Revents.
Poll(p) ==
  /\ pc[p] = "poll"
  /\ \E q \in Ports : Ready(p, q) # {}
  /\ revents' = [q \in Ports |-> Ready(p, q)]
  /\ LeavePoll(p)
  /\ Goto(p, "receive")
  /\ UNCHANGED <<socketVars, events, inDescs, addend, read>>

\* EINTR: continue.
PollInterrupted(p) ==
  /\ pc[p] = "poll"
  /\ LeavePoll(p)
  /\ Goto(p, "fill")
  /\ UNCHANGED <<socketVars, events, revents, inDescs, addend, read>>

ReceivePort(p) ==
  /\ pc[p] = "receive"
  /\ IF "POLLIN" \in revents[p]
     THEN /\ inDescs' = [inDescs EXCEPT ![p] = Descs(p, NumReceived(p))]
          /\ Receive(p, NumReceived(p))
          /\ Goto(p, "forward")
     ELSE /\ Goto(p, "complete")
          /\ UNCHANGED <<rxRing, freeRXDescs, numFilled, inDescs>>
  /\ UNCHANGED <<fillRing, txRing, completionRing, freeTXDescs, numTransmitted, umem,
                 kernelVars, events, watched, revents, addend, read>>

\* The rest of forwardFrames, up to output.numTransmitted += len(descs).
ForwardPort(p) ==
  LET output == Other(p)
      outDescs == First(GetDescs(output, NumFreeTxSlots(output), FALSE), Len(inDescs[p]))
  IN  /\ pc[p] = "forward"
      /\ umem' = [umem EXCEPT ![output] =
                    [f \in AllFrames |->
                       IF f \in Range(outDescs)
                       THEN umem[p][inDescs[p][CHOOSE i \in DOMAIN outDescs : outDescs[i] = f]]
                       ELSE @[f]]]
      /\ PushTx(output, outDescs)
      /\ addend' = [addend EXCEPT ![p] = Len(outDescs)]
      /\ inDescs' = [inDescs EXCEPT ![p] = <<>>]
      /\ Goto(p, "readOut")
      /\ UNCHANGED <<fillRing, rxRing, completionRing, freeRXDescs, numFilled,
                     numTransmitted, kernelVars, events, watched, revents, read>>

\* Complete(NumCompleted()), if POLLOUT is set, up to numTransmitted -= n.
CompletePort(p) ==
  /\ pc[p] = "complete"
  /\ IF "POLLOUT" \in revents[p]
     THEN /\ PopCompleted(p, NumCompleted(p))
          /\ addend' = [addend EXCEPT ![p] = -NumCompleted(p)]
          /\ Goto(p, "readIn")
     ELSE /\ Goto(p, "fill")
          /\ UNCHANGED <<completionRing, freeTXDescs, addend>>
  /\ UNCHANGED <<fillRing, rxRing, txRing, freeRXDescs, numFilled, numTransmitted, umem,
                 kernelVars, events, watched, revents, inDescs, read>>

\* The socket whose counter a goroutine is adding to.
Counting(p) == IF pc[p] \in {"readOut", "writeOut"} THEN Other(p) ELSE p

\* The addition reads the counter ...
ReadTransmitted(p) ==
  /\ pc[p] \in {"readOut", "readIn"}
  /\ read' = [read EXCEPT ![p] = numTransmitted[Counting(p)]]
  /\ Goto(p, IF pc[p] = "readOut" THEN "writeOut" ELSE "writeIn")
  /\ UNCHANGED <<socketVars, events, watched, revents, inDescs, addend>>

\* ... and writes it.
WriteTransmitted(p) ==
  /\ pc[p] \in {"writeOut", "writeIn"}
  /\ numTransmitted' = [numTransmitted EXCEPT ![Counting(p)] = read[p] + addend[p]]
  /\ addend' = [addend EXCEPT ![p] = 0]
  /\ read' = [read EXCEPT ![p] = 0]
  /\ Goto(p, IF pc[p] = "writeOut" THEN "complete" ELSE "fill")
  /\ UNCHANGED <<rings, freeRXDescs, freeTXDescs, numFilled, umem, kernelVars, events,
                 watched, revents, inDescs>>

Next == \/ \E p \in Ports :
             \/ FillPort(p) \/ Arm(p) \/ Poll(p) \/ PollInterrupted(p)
             \/ ReceivePort(p) \/ ForwardPort(p) \/ CompletePort(p)
             \/ ReadTransmitted(p) \/ WriteTransmitted(p)
        \/ KernelNext /\ UNCHANGED goVars

Spec == Init /\ [][Next]_vars

-----------------------------------------------------------------------------
\* The values the goroutines' variables may hold, and the sockets' invariant.
TypeOK ==
  /\ SocketTypeOK
  /\ pc \in [Ports -> {"fill", "arm", "poll", "receive", "forward", "complete", "readOut",
                       "writeOut", "readIn", "writeIn"}]
  /\ events \in [Ports -> SUBSET {"POLLIN", "POLLOUT"}]
  /\ watched \in [Ports -> [Ports -> SUBSET {"POLLIN", "POLLOUT"}]]
  /\ revents \in [Ports -> SUBSET {"POLLIN", "POLLOUT"}]
  /\ \A p \in Ports : inDescs[p] \in Seq(RxFrames)
  /\ addend \in [Ports -> Int] /\ read \in [Ports -> Int]

\* "NumTransmitted returns how many descriptors are there on the Tx ring queue
\* which have not yet been consumed by the kernel": as long as neither goroutine
\* is in the middle of counting, entries of the tx ring are noticed.
TransmissionsCounted ==
  \A p \in Ports :
    (/\ txRing[p] # <<>>
     /\ pc[p] \notin {"readIn", "writeIn"}
     /\ pc[Other(p)] \notin {"readOut", "writeOut"})
      => numTransmitted[p] > 0
=============================================================================
