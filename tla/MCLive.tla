-------------------------------- MODULE MCLive --------------------------------
(***************************************************************************)
(* What must eventually happen in the packet loop of the C switch and in   *)
(* the loop of the Go switch.  An initial state chooses which of them      *)
(* runs; the variables of the other keep their initial values.             *)
(***************************************************************************)
EXTENDS XskSwitch

CONSTANTS in, out

VARIABLES
  which,
  fillRing, rxRing, txRing, completionRing, freeRXDescs, freeTXDescs, numFilled, numTransmitted, umem,
  goNic, sending, arrived, sent, goPc, cur, revents, inDescs    \* GoSwitch

\* One slot per ring, two packets one way and one the other.
Go == INSTANCE GoSwitch WITH
        NumFrames <- 2, FillRingNumDescs <- 1, CompletionRingNumDescs <- 1, RxRingNumDescs <- 1, TxRingNumDescs <- 1,
        MaxPackets <- [p \in {in, out} |-> IF p = in THEN 2 ELSE 1], MaxSent <- 9, nic <- goNic, pc <- goPc

-----------------------------------------------------------------------------
goVars == <<fillRing, rxRing, txRing, completionRing, freeRXDescs, freeTXDescs, numFilled, numTransmitted, umem,
            goNic, sending, arrived, sent, goPc, cur, revents, inDescs>>
liveVars == <<which, vars, goVars>>

\* Frames are alike, so one order of them on the stack is enough.
OneOrder == CHOOSE all \in [1 .. NUM_FRAMES -> Frames] : {all[i] : i \in 1 .. NUM_FRAMES} = Frames

LiveInit ==
  /\ which \in {"switch", "go"}
  /\ Go!Init /\ Init
  /\ umem_frame_addr = SubSeq(OneOrder, 1, NUM_FRAMES - FQ_SIZE)

LiveNext ==
  /\ \/ which = "switch" /\ Next /\ UNCHANGED goVars
     \/ which = "go" /\ Go!Next /\ UNCHANGED vars
  /\ UNCHANGED which

\* The fairness of XskSwitch's FairSpec and of GoSwitch, each owed only by the
\* one that runs.  No packet is owed to either.
SwitchFairness ==
  /\ WF_vars(which = "switch" /\ AppNext)
  /\ SF_vars(which = "switch" /\ PollReady)
  /\ WF_vars(which = "switch" /\ KernelTakeFill)
  /\ WF_vars(which = "switch" /\ KernelTakeTx)
  /\ \A f \in Frames : WF_vars(which = "switch" /\ KernelComplete(f))
  /\ SF_vars(which = "switch" /\ SendTo /\ wakeup' = TX_BUDGET)
GoFairness ==
  /\ WF_goVars(which = "go" /\ Go!LoopNext)
  /\ SF_goVars(which = "go" /\ Go!Poll)
  /\ \A p \in {in, out} :
       /\ WF_goVars(which = "go" /\ Go!KernelSend(p) /\ UNCHANGED <<goPc, cur, revents, inDescs>>)
       /\ \A f \in Go!TxFrames :
            WF_goVars(which = "go" /\ Go!KernelComplete(p, f) /\ UNCHANGED <<goPc, cur, revents, inDescs>>)

LiveSpec == LiveInit /\ [][LiveNext]_liveVars /\ SwitchFairness /\ GoFairness

-----------------------------------------------------------------------------
\* See GoSwitch: what is queued gets free again, what is received is taken.
Served == Go!Served
=============================================================================
