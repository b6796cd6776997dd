------------------------------ MODULE GoExamples ------------------------------
(***************************************************************************)
(* The examples of the Go library with one socket: dumpframes prints the   *)
(* frames it receives, sendudp and senddnsqueries send a frame they have   *)
(* prepared over and over.  They wait in the socket's own Poll, which also *)
(* takes completions back.                                                 *)
(*                                                                         *)
(* rebroadcast sends the frames it receives back, in the UMEM frame they   *)
(* were received into.  Receive has marked these frames free in            *)
(* freeRXDescs; Transmit marks them in freeTXDescs only.                   *)
(***************************************************************************)
EXTENDS GoSocket, FiniteSets

VARIABLES
  prog,       \* the program that runs
  pc,         \* "prepare", "fill", "poll", "receive" or "send"
  numRx,      \* what Poll returned
  rxDescs,    \* rebroadcast: frames received and not yet sent back
  dumped      \* packets printed

exampleVars == <<prog, pc, numRx, rxDescs, dumped>>
vars == <<socketVars, exampleVars>>

Senders == {"sendudp", "senddnsqueries"}
xsk == in    \* the socket

InitOf(programs) ==
  /\ SocketInit
  /\ prog \in programs
  /\ pc = IF prog \in Senders THEN "prepare" ELSE "fill"
  /\ numRx = 0 /\ rxDescs = <<>> /\ dumped = <<>>

Init == InitOf(Senders \cup {"dumpframes"})

\* Mutant: only what fits into the tx ring now is prepared.
Prepare_OneFrame ==
  /\ pc = "prepare"
  /\ umem' = [umem EXCEPT ![xsk] =
                [f \in AllFrames |-> IF f \in Range(GetDescs(xsk, 1, FALSE)) THEN 1 ELSE @[f]]]
  /\ pc' = "send"
  /\ UNCHANGED <<rings, freeRXDescs, freeTXDescs, numFilled, numTransmitted, kernelVars,
                 prog, numRx, rxDescs, dumped>>

\* "Fill all the frames in UMEM with the pre-generated packet": the frames of
\* GetDescs(math.MaxInt32, false).
Prepare ==
  /\ pc = "prepare"
  /\ umem' = [umem EXCEPT ![xsk] =
                [f \in AllFrames |->
                   IF f \in Range(GetDescs(xsk, NumFrames, FALSE)) THEN 1 ELSE @[f]]]
  /\ pc' = "send"
  /\ UNCHANGED <<rings, freeRXDescs, freeTXDescs, numFilled, numTransmitted, kernelVars,
                 prog, numRx, rxDescs, dumped>>

\* The senders' loop: as many frames as the tx ring has room for.
SendFrames ==
  LET descs == GetDescs(xsk, NumFreeTxSlots(xsk), FALSE)
  IN  /\ pc = "send"
      /\ PushTx(xsk, descs)
      /\ numTransmitted' = [numTransmitted EXCEPT ![xsk] = @ + Len(descs)]
      /\ pc' = "poll"
      /\ UNCHANGED <<fillRing, rxRing, completionRing, freeRXDescs, numFilled, umem,
                     kernelVars, prog, numRx, rxDescs, dumped>>

\* The receivers' loop: refill ...
FillSocket ==
  /\ pc = "fill"
  /\ Fill(xsk, GetDescs(xsk, NumFreeFillSlots(xsk), TRUE))
  /\ pc' = "poll"
  /\ UNCHANGED <<rxRing, txRing, completionRing, freeTXDescs, numTransmitted, umem,
                 kernelVars, prog, numRx, rxDescs, dumped>>

\* ... wait (senddnsqueries for a millisecond at most) ...
PollSocket ==
  /\ pc = "poll"
  /\ PollReturns(xsk) \/ prog = "senddnsqueries"
  /\ PollCompletes(xsk)
  /\ numRx' = IF PollEvents(xsk) = {} THEN 0 ELSE NumReceived(xsk)
  /\ pc' = CASE prog \in Senders -> "send"
             [] prog = "rebroadcast" /\ numRx' = 0 -> "fill"
             [] OTHER -> "receive"
  /\ UNCHANGED <<fillRing, rxRing, txRing, freeRXDescs, numFilled, umem, kernelVars, prog,
                 rxDescs, dumped>>

\* ... and print what Poll announced.
DumpFrames ==
  LET descs == Descs(xsk, numRx)
  IN  /\ pc = "receive"
      /\ IF numRx > 0 THEN Receive(xsk, numRx)
         ELSE UNCHANGED <<rxRing, freeRXDescs, numFilled>>
      /\ dumped' = dumped \o [i \in DOMAIN descs |-> umem[xsk][descs[i]]]
      /\ numRx' = 0
      /\ pc' = "fill"
      /\ UNCHANGED <<fillRing, txRing, completionRing, freeTXDescs, numTransmitted, umem,
                     kernelVars, prog, rxDescs>>

\* rebroadcast takes what Poll announced ...
ReceiveFrames ==
  /\ pc = "receive"
  /\ rxDescs' = Descs(xsk, numRx)
  /\ Receive(xsk, numRx)
  /\ pc' = "send"
  /\ UNCHANGED <<fillRing, txRing, completionRing, freeTXDescs, numTransmitted, umem,
                 kernelVars, prog, numRx, dumped>>

\* ... and sends it from the frames it is in.
SendBack ==
  /\ pc = "send"
  /\ PushTx(xsk, rxDescs)
  /\ numTransmitted' = [numTransmitted EXCEPT
                          ![xsk] = @ + Len(First(rxDescs, NumFreeTxSlots(xsk)))]
  /\ rxDescs' = <<>> /\ numRx' = 0
  /\ pc' = "fill"
  /\ UNCHANGED <<fillRing, rxRing, completionRing, freeRXDescs, numFilled, umem, kernelVars,
                 prog, dumped>>

Next == \/ Prepare \/ SendFrames \/ FillSocket \/ PollSocket \/ DumpFrames
        \/ KernelNext /\ UNCHANGED exampleVars

Spec == Init /\ [][Next]_vars

RebroadcastNext == \/ FillSocket \/ PollSocket \/ ReceiveFrames \/ SendBack
                   \/ KernelNext /\ UNCHANGED exampleVars

RebroadcastSpec == InitOf({"rebroadcast"}) /\ [][RebroadcastNext]_vars

-----------------------------------------------------------------------------
\* The values the program's variables may hold, and the sockets' invariant.
TypeOK ==
  /\ SocketTypeOK
  /\ prog \in Senders \cup {"dumpframes"}
  /\ pc \in {"prepare", "fill", "poll", "receive", "send"}
  /\ numRx \in 0 .. RxRingNumDescs
  /\ \A i \in DOMAIN dumped : dumped[i] \in Nat

\* sendudp and senddnsqueries never send a frame they have not prepared, and
\* dumpframes prints every packet that was received, once and in order.
ExamplesRight ==
  /\ prog \in Senders => \A i \in DOMAIN sent[xsk] : sent[xsk][i] = 1
  /\ prog = "dumpframes" => \A i \in DOMAIN dumped : dumped[i] = i

\* "GetDescs returns up to n descriptors which are not currently in use": none
\* of them is in a ring or with the kernel.
GetDescsNotInUse ==
  \A rx \in BOOLEAN : Range(GetDescs(xsk, NumFrames, rx)) \cap InUse(xsk) = {}
=============================================================================
