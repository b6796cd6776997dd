--------------------------------- MODULE MCGo ---------------------------------
(***************************************************************************)
(* The programs that use the Go socket, in one instance: an initial state  *)
(* chooses the program.  The one-goroutine switch has the sockets of       *)
(* GoSwitch, the others those of the variables y1 to y13; the variables of *)
(* the programs that were not chosen keep their initial values.            *)
(***************************************************************************)
EXTENDS GoSwitch

VARIABLES
  program,                                                       \* what runs
  y1, y2, y3, y4, y5, y6, y7, y8, y9, y10, y11, y12, y13,        \* its sockets
  biPc, events, watched, biRevents, biInDescs, addend, read,     \* GoSwitchBi
  prog, exPc, numRx, rxDescs, dumped                             \* GoExamples

Bi == INSTANCE GoSwitchBi WITH
  fillRing <- y1, rxRing <- y2, txRing <- y3, completionRing <- y4, freeRXDescs <- y5, freeTXDescs <- y6,
  numFilled <- y7, numTransmitted <- y8, umem <- y9, nic <- y10, sending <- y11, arrived <- y12, sent <- y13,
  pc <- biPc, revents <- biRevents, inDescs <- biInDescs
Ex == INSTANCE GoExamples WITH
  fillRing <- y1, rxRing <- y2, txRing <- y3, completionRing <- y4, freeRXDescs <- y5, freeTXDescs <- y6,
  numFilled <- y7, numTransmitted <- y8, umem <- y9, nic <- y10, sending <- y11, arrived <- y12, sent <- y13,
  pc <- exPc

sockVars == <<y1, y2, y3, y4, y5, y6, y7, y8, y9, y10, y11, y12, y13>>
biVars == <<biPc, events, watched, biRevents, biInDescs, addend, read>>
exVars == <<prog, exPc, numRx, rxDescs, dumped>>
mcVars == <<program, vars, sockVars, biVars, exVars>>

\* A burst one way and a packet the other way.
Burst == [p \in {in, out} |-> IF p = in THEN 3 ELSE 1]

MCInit ==
  /\ Init /\ Bi!Init /\ Ex!Init
  /\ \/ program \in {"switch", "switch_bi"} /\ prog = "dumpframes"
     \/ program = "example"

\* A goroutine's poll() returns EINTR.
Interrupted == \E p \in {in, out} : biPc[p] = "poll" /\ biPc'[p] = "fill"

\* The two-goroutine switch: a burst one way, or a packet each way; signals
\* come until the second packet of the burst does.
Few ==
  /\ y12'[out] = 0 \/ y12'[in] + y12'[out] <= 2
  /\ Interrupted => y12[in] < 2

\* The examples use one port.
OnePort == y12'[out] = 0

MCNext ==
  /\ \/ program = "switch" /\ Next /\ UNCHANGED <<sockVars, biVars, exVars>>
     \/ program = "switch_bi" /\ Bi!Next /\ Few /\ UNCHANGED <<vars, exVars>>
     \/ program = "example" /\ Ex!Next /\ OnePort /\ UNCHANGED <<vars, biVars>>
  /\ UNCHANGED program

MCSpec == MCInit /\ [][MCNext]_mcVars

\* The two-goroutine switch and the examples: every frame has one owner, in
\* every order of the goroutines' and the kernel's steps; the switch forwards
\* in order, the examples count exactly, send what they prepared and print
\* what they received.
OthersRight ==
  /\ program # "switch" => Bi!FramesOwned
  /\ program = "switch_bi" => Bi!TypeOK /\ Bi!InOrder
  /\ program = "example" => Ex!TypeOK /\ Ex!CountersExact /\ Ex!ExamplesRight
=============================================================================
