------------------------------ MODULE XskSwitch ------------------------------
(***************************************************************************)
(* The packet loop of the AF_XDP switch, switchtsn/af_xdp_david_new.c      *)
(* (af_xdp_user.c runs the same loop): the thread inside rx_and_process    *)
(* and the kernel exchange UMEM frames over the fill (fq), rx, tx and      *)
(* completion (cq) rings, while a stack of free frames lives in the        *)
(* socket's umem_frame_addr array.                                         *)
(*                                                                         *)
(* A ring is the sequence of its entries between the shared consumer and   *)
(* producer indices.  What the program knows of a ring is what libbpf      *)
(* caches: fq_free and tx_free are cached_cons - cached_prod of the two    *)
(* producer rings, rx_avail is cached_prod - cached_cons of the rx ring.   *)
(* The two rings of XskRing justify that view index by index.              *)
(***************************************************************************)
EXTENDS Integers, Sequences, FiniteSets

CONSTANTS
  Frames,          \* the frames of the UMEM (their addresses i * FRAME_SIZE)
  INVALID_UMEM_FRAME,  \* UINT64_MAX, the address of no frame
  FQ_SIZE,         \* slots of the fill ring
  RX_SIZE,         \* slots of the rx ring
  TX_SIZE,         \* slots of the tx ring
  CQ_SIZE,         \* slots of the completion ring
  RX_BATCH_SIZE,   \* most packets one call of handle_receive_packets takes
  NIC_SIZE,        \* most fill entries the driver holds at a time
  TX_BUDGET,       \* most tx entries the kernel sends per wake-up
  xsk_poll_mode    \* --poll-mode: wait in poll() before each batch

NUM_FRAMES == Cardinality(Frames)

ASSUME FramesAssumption == IsFiniteSet(Frames) /\ INVALID_UMEM_FRAME \notin Frames

ASSUME SizesAssumption ==
  /\ FQ_SIZE \in Nat \ {0}
  /\ RX_SIZE \in Nat \ {0}
  /\ TX_SIZE \in Nat \ {0}
  /\ CQ_SIZE \in Nat \ {0}
  /\ RX_BATCH_SIZE \in Nat \ {0}
  /\ NIC_SIZE \in Nat \ {0}
  /\ TX_BUDGET \in Nat \ {0}

\* xsk_configure_socket moves FQ_SIZE frames from the stack to the fill ring.
ASSUME EnoughToFill == FQ_SIZE <= NUM_FRAMES

ASSUME ModeAssumption == xsk_poll_mode \in BOOLEAN

VARIABLES
  umem_frame_addr,  \* the stack of free frames, umem_frame_free its length
  fq, fq_free,      \* fill ring and its cached free slots
  nic,              \* frames the driver took from the fill ring
  rx, rx_avail,     \* rx ring and its cached available entries
  tx, tx_free,      \* tx ring and its cached free slots
  ktx,              \* frames the kernel is sending
  cq,               \* completion ring
  wakeup,           \* tx entries the kernel may still send after a sendto
  outstanding_tx,   \* xsk->outstanding_tx
  pc,               \* where the thread is
  rcvd,             \* entries peeked and not yet released from rx
  idx,              \* entries of the batch already processed
  stock_frames,     \* slots the batch refills
  completed,        \* entries peeked and not yet released from cq
  global_exit       \* set by the SIGINT handler

appVars == <<umem_frame_addr, fq_free, rx_avail, tx_free, outstanding_tx, pc,
             rcvd, idx, stock_frames, completed>>
vars == <<umem_frame_addr, fq, fq_free, nic, rx, rx_avail, tx, tx_free, ktx, cq,
          wakeup, outstanding_tx, pc, rcvd, idx, stock_frames, completed,
                 global_exit>>

Least(a, b) == IF a < b THEN a ELSE b

-----------------------------------------------------------------------------
(* The ring operations of libbpf/src/xsk.h on the cached view. *)

\* Mutant: the refresh forgets the entries the kernel has not consumed.
xsk_prod_nb_free_IgnoresUsed(cached, used, size, nb) ==
  IF cached >= nb THEN cached ELSE size

\* Free slots of a producer ring of `size' slots, `used' of them taken: the
\* cached number when it is enough for nb, a fresh one otherwise.
xsk_prod_nb_free(cached, used, size, nb) ==
  IF cached >= nb THEN cached ELSE size - used

\* Available entries of a consumer ring before the cap: the cached number, or
\* a fresh one when the cache is exhausted.
xsk_cons_nb_avail(cached, produced) ==
  IF cached = 0 THEN produced ELSE cached

-----------------------------------------------------------------------------
(* The frame allocator. *)

\* What n calls of xsk_alloc_umem_frame return, in order.
AllocFrames(n) ==
  [i \in 1 .. n |-> IF i <= Len(umem_frame_addr)
                    THEN umem_frame_addr[Len(umem_frame_addr) + 1 - i]
                    ELSE INVALID_UMEM_FRAME]

\* The stack those n calls leave.
StackAfterAlloc(n) ==
  SubSeq(umem_frame_addr, 1,
         Len(umem_frame_addr) - Least(n, Len(umem_frame_addr)))

xsk_free_umem_frame(addr) == umem_frame_addr' = Append(umem_frame_addr, addr)

-----------------------------------------------------------------------------
(* xsk_configure_socket has pushed every frame on the stack (all, in some      *)
(* order of their addresses) and filled the whole fill ring from its top.      *)
Init ==
  /\ \E all \in [1 .. NUM_FRAMES -> Frames] :
        /\ \A i, j \in 1 .. NUM_FRAMES : all[i] = all[j] => i = j
        /\ umem_frame_addr = SubSeq(all, 1, NUM_FRAMES - FQ_SIZE)
        /\ fq = [i \in 1 .. FQ_SIZE |-> all[NUM_FRAMES + 1 - i]]
  /\ fq_free = 0
  /\ nic = <<>>
  /\ rx = <<>> /\ rx_avail = 0
  /\ tx = <<>> /\ tx_free = TX_SIZE
  /\ ktx = {}
  /\ cq = <<>>
  /\ wakeup = 0
  /\ outstanding_tx = 0
  /\ pc = "loop"
  /\ rcvd = 0 /\ idx = 0 /\ stock_frames = 0 /\ completed = 0
  /\ global_exit = FALSE

-----------------------------------------------------------------------------
(* rx_and_process *)

\* Mutant: the loop does not look at global_exit.
LoopTest_IgnoresExit ==
  /\ pc = "loop"
  /\ pc' = IF xsk_poll_mode THEN "poll" ELSE "peek"
  /\ UNCHANGED <<umem_frame_addr, fq, fq_free, nic, rx, rx_avail, tx, tx_free,
                 ktx, cq, wakeup, outstanding_tx, rcvd, idx, stock_frames,
                 completed, global_exit>>

\* while (!global_exit): leave, wait in poll(), or go straight to a batch.
LoopTest ==
  /\ pc = "loop"
  /\ pc' = IF global_exit THEN "closed"
           ELSE IF xsk_poll_mode THEN "poll" ELSE "peek"
  /\ UNCHANGED <<umem_frame_addr, fq, fq_free, nic, rx, rx_avail, tx, tx_free,
                 ktx, cq, wakeup, outstanding_tx, rcvd, idx, stock_frames,
                 completed, global_exit>>

\* poll() returns because the rx ring has an entry (POLLIN).
PollReady ==
  /\ pc = "poll"
  /\ rx # <<>>
  /\ pc' = "peek"
  /\ UNCHANGED <<umem_frame_addr, fq, fq_free, nic, rx, rx_avail, tx, tx_free,
                 ktx, cq, wakeup, outstanding_tx, rcvd, idx, stock_frames,
                 completed, global_exit>>

\* poll() fails, for one with EINTR: `continue'.
PollFails ==
  /\ pc = "poll"
  /\ pc' = "loop"
  /\ UNCHANGED <<umem_frame_addr, fq, fq_free, nic, rx, rx_avail, tx, tx_free,
                 ktx, cq, wakeup, outstanding_tx, rcvd, idx, stock_frames,
                 completed, global_exit>>

-----------------------------------------------------------------------------
(* handle_receive_packets *)

\* rcvd = xsk_ring_cons__peek(&xsk->rx, RX_BATCH_SIZE, &idx_rx)
PeekRx ==
  /\ pc = "peek"
  /\ LET entries == xsk_cons_nb_avail(rx_avail, Len(rx))
         n == Least(entries, RX_BATCH_SIZE)
     IN  /\ rcvd' = n
         /\ rx_avail' = entries - n
         /\ pc' = IF n = 0 THEN "loop" ELSE "stock"
  /\ idx' = 0
  /\ UNCHANGED <<umem_frame_addr, fq, fq_free, nic, rx, tx, tx_free, ktx, cq,
                 wakeup, outstanding_tx, stock_frames, completed, global_exit>>

\* Mutant: the cached room of the fill ring is never refreshed.
StockFrames_CachedOnly ==
  /\ pc = "stock"
  /\ stock_frames' = fq_free
  /\ pc' = IF stock_frames' > 0 THEN "reserve" ELSE "process"
  /\ UNCHANGED <<umem_frame_addr, fq, fq_free, nic, rx, rx_avail, tx, tx_free, ktx, cq,
                 wakeup, outstanding_tx, rcvd, idx, completed, global_exit>>

\* stock_frames = xsk_prod_nb_free(fq, xsk_umem_free_frames(xsk))
StockFrames ==
  /\ pc = "stock"
  /\ fq_free' = xsk_prod_nb_free(fq_free, Len(fq), FQ_SIZE, Len(umem_frame_addr))
  /\ stock_frames' = fq_free'
  /\ pc' = IF stock_frames' > 0 THEN "reserve" ELSE "process"
  /\ UNCHANGED <<umem_frame_addr, fq, nic, rx, rx_avail, tx, tx_free, ktx, cq,
                 wakeup, outstanding_tx, rcvd, idx, completed, global_exit>>

\* xsk_ring_prod__reserve(fq, stock_frames); a short reservation enters the
\* retry loop the code expects never to run.
ReserveFill ==
  /\ pc = "reserve"
  /\ LET free == xsk_prod_nb_free(fq_free, Len(fq), FQ_SIZE, stock_frames)
     IN  IF free >= stock_frames
         THEN fq_free' = free - stock_frames /\ pc' = "fill"
         ELSE fq_free' = free /\ pc' = "retry"
  /\ UNCHANGED <<umem_frame_addr, fq, nic, rx, rx_avail, tx, tx_free, ktx, cq,
                 wakeup, outstanding_tx, rcvd, idx, stock_frames, completed,
                 global_exit>>

\* Write stock_frames allocated addresses into the reserved slots and submit.
SubmitFill ==
  /\ pc = "fill"
  /\ fq' = fq \o AllocFrames(stock_frames)
  /\ umem_frame_addr' = StackAfterAlloc(stock_frames)
  /\ pc' = "process"
  /\ UNCHANGED <<fq_free, nic, rx, rx_avail, tx, tx_free, ktx, cq, wakeup,
                 outstanding_tx, rcvd, idx, stock_frames, completed, global_exit>>

\* Mutant: the frame of a packet that is not answered is not freed.
DropPacket_Leaks ==
  /\ pc = "process" /\ idx < rcvd
  /\ idx' = idx + 1
  /\ UNCHANGED <<umem_frame_addr, fq, fq_free, nic, rx, rx_avail, tx, tx_free,
                 ktx, cq, wakeup, outstanding_tx, pc, rcvd, stock_frames,
                 completed, global_exit>>

\* One packet for which process_packet returns false because it is no echo
\* request: the frame goes back to the stack.
DropPacket ==
  /\ pc = "process" /\ idx < rcvd
  /\ xsk_free_umem_frame(rx[idx + 1])
  /\ idx' = idx + 1
  /\ UNCHANGED <<fq, fq_free, nic, rx, rx_avail, tx, tx_free, ktx, cq, wakeup,
                 outstanding_tx, pc, rcvd, stock_frames, completed, global_exit>>

\* Mutant: a queued reply is freed as well.
ReplyPacket_AlsoFreed ==
  /\ pc = "process" /\ idx < rcvd
  /\ LET free == xsk_prod_nb_free(tx_free, Len(tx), TX_SIZE, 1)
     IN  \/ /\ free >= 1
            /\ tx' = Append(tx, rx[idx + 1])
            /\ tx_free' = free - 1
            /\ outstanding_tx' = outstanding_tx + 1
         \/ free < 1 /\ tx_free' = free /\ UNCHANGED <<tx, outstanding_tx>>
  /\ xsk_free_umem_frame(rx[idx + 1])
  /\ idx' = idx + 1
  /\ UNCHANGED <<fq, fq_free, nic, rx, rx_avail, ktx, cq, wakeup, pc, rcvd,
                 stock_frames, completed, global_exit>>

\* One echo request: rewritten in place and queued for transmission when
\* xsk_ring_prod__reserve(&xsk->tx, 1) finds a slot, dropped otherwise.
ReplyPacket ==
  /\ pc = "process" /\ idx < rcvd
  /\ LET free == xsk_prod_nb_free(tx_free, Len(tx), TX_SIZE, 1)
     IN  \/ /\ free >= 1
            /\ tx' = Append(tx, rx[idx + 1])
            /\ tx_free' = free - 1
            /\ outstanding_tx' = outstanding_tx + 1
            /\ UNCHANGED umem_frame_addr
         \/ /\ free < 1
            /\ tx_free' = free
            /\ xsk_free_umem_frame(rx[idx + 1])
            /\ UNCHANGED <<tx, outstanding_tx>>
  /\ idx' = idx + 1
  /\ UNCHANGED <<fq, fq_free, nic, rx, rx_avail, ktx, cq, wakeup, pc, rcvd,
                 stock_frames, completed, global_exit>>

\* xsk_ring_cons__release(&xsk->rx, rcvd), then the test that opens complete_tx.
ReleaseRx ==
  /\ pc = "process"
  /\ idx = rcvd
  /\ rx' = SubSeq(rx, rcvd + 1, Len(rx))
  /\ rcvd' = 0 /\ idx' = 0
  /\ pc' = IF outstanding_tx = 0 THEN "loop" ELSE "sendto"
  /\ UNCHANGED <<umem_frame_addr, fq, fq_free, nic, rx_avail, tx, tx_free, ktx,
                 cq, wakeup, outstanding_tx, stock_frames, completed, global_exit>>

-----------------------------------------------------------------------------
(* complete_tx *)

\* Mutant: the kernel is never woken.
SendTo_NoWakeup ==
  /\ pc = "sendto"
  /\ pc' = "complete"
  /\ UNCHANGED <<umem_frame_addr, fq, fq_free, nic, rx, rx_avail, tx, tx_free,
                 ktx, cq, wakeup, outstanding_tx, rcvd, idx, stock_frames,
                 completed, global_exit>>

\* sendto(fd, NULL, 0, MSG_DONTWAIT, NULL, 0) wakes the kernel's tx side; its
\* result is ignored, and the call may have failed.
SendTo ==
  /\ pc = "sendto"
  /\ wakeup' \in {wakeup, TX_BUDGET}
  /\ pc' = "complete"
  /\ UNCHANGED <<umem_frame_addr, fq, fq_free, nic, rx, rx_avail, tx, tx_free,
                 ktx, cq, outstanding_tx, rcvd, idx, stock_frames, completed,
                 global_exit>>

\* completed = xsk_ring_cons__peek(cq, size of cq, &idx_cq): every entry.
PeekCompleted ==
  /\ pc = "complete"
  /\ completed' = Len(cq)
  /\ pc' = IF completed' > 0 THEN "free" ELSE "loop"
  /\ UNCHANGED <<umem_frame_addr, fq, fq_free, nic, rx, rx_avail, tx, tx_free,
                 ktx, cq, wakeup, outstanding_tx, rcvd, idx, stock_frames,
                 global_exit>>

\* Mutant: outstanding_tx is not lowered.
FreeCompleted_NotCounted ==
  /\ pc = "free"
  /\ umem_frame_addr' = umem_frame_addr \o SubSeq(cq, 1, completed)
  /\ cq' = SubSeq(cq, completed + 1, Len(cq))
  /\ completed' = 0
  /\ pc' = "loop"
  /\ UNCHANGED <<fq, fq_free, nic, rx, rx_avail, tx, tx_free, ktx, wakeup,
                 outstanding_tx, rcvd, idx, stock_frames, global_exit>>

\* Free the completed frames, release the entries, lower outstanding_tx.
FreeCompleted ==
  /\ pc = "free"
  /\ umem_frame_addr' = umem_frame_addr \o SubSeq(cq, 1, completed)
  /\ cq' = SubSeq(cq, completed + 1, Len(cq))
  /\ outstanding_tx' = outstanding_tx - Least(completed, outstanding_tx)
  /\ completed' = 0
  /\ pc' = "loop"
  /\ UNCHANGED <<fq, fq_free, nic, rx, rx_avail, tx, tx_free, ktx, wakeup, rcvd,
                 idx, stock_frames, global_exit>>

-----------------------------------------------------------------------------
(* The signal handler exit_application. *)
ExitApplication ==
  /\ ~global_exit
  /\ pc # "closed"
  /\ global_exit' = TRUE
  /\ UNCHANGED <<appVars, fq, nic, rx, tx, ktx, cq, wakeup>>

-----------------------------------------------------------------------------
(* The kernel's side of the socket, as the program relies on it. *)

\* The driver takes a fill entry; an address outside the UMEM is discarded.
KernelTakeFill ==
  /\ pc # "closed"
  /\ fq # <<>>
  /\ Len(nic) < NIC_SIZE
  /\ fq' = Tail(fq)
  /\ nic' = IF Head(fq) \in Frames THEN Append(nic, Head(fq)) ELSE nic
  /\ UNCHANGED <<appVars, rx, tx, ktx, cq, wakeup, global_exit>>

\* A packet arrives for the socket: the oldest frame of the driver carries it.
KernelDeliver ==
  /\ pc # "closed"
  /\ nic # <<>>
  /\ Len(rx) < RX_SIZE
  /\ rx' = Append(rx, Head(nic))
  /\ nic' = Tail(nic)
  /\ UNCHANGED <<appVars, fq, tx, ktx, cq, wakeup, global_exit>>

\* A woken kernel takes a tx entry once its completion slot is guaranteed.
KernelTakeTx ==
  /\ pc # "closed"
  /\ wakeup > 0
  /\ tx # <<>>
  /\ Cardinality(ktx) + Len(cq) < CQ_SIZE
  /\ ktx' = ktx \cup {Head(tx)}
  /\ tx' = Tail(tx)
  /\ wakeup' = wakeup - 1
  /\ UNCHANGED <<appVars, fq, nic, rx, cq, global_exit>>

\* A transmission ends; they may end in any order.
KernelComplete(f) ==
  /\ pc # "closed"
  /\ f \in ktx
  /\ ktx' = ktx \ {f}
  /\ cq' = Append(cq, f)
  /\ UNCHANGED <<appVars, fq, nic, rx, tx, wakeup, global_exit>>

-----------------------------------------------------------------------------
AppNext ==
  \/ LoopTest \/ PollReady \/ PeekRx \/ StockFrames \/ ReserveFill
  \/ SubmitFill \/ DropPacket \/ ReplyPacket \/ ReleaseRx \/ SendTo
  \/ PeekCompleted \/ FreeCompleted

KernelTx == KernelTakeTx \/ \E f \in Frames : KernelComplete(f)

Next ==
  \/ AppNext
  \/ PollFails
  \/ ExitApplication
  \/ KernelTakeFill
  \/ KernelDeliver
  \/ KernelTx

Spec == Init /\ [][Next]_vars

\* The thread keeps running, and poll() does not fail for ever while packets
\* wait; SIGINT and a failing poll() are never owed.
AppFairness == WF_vars(AppNext) /\ SF_vars(PollReady)

\* The driver keeps taking fill entries and sending; not every sendto fails.
KernelFairness ==
  /\ WF_vars(KernelTakeFill)
  /\ WF_vars(KernelTakeTx)
  /\ \A f \in Frames : WF_vars(KernelComplete(f))
  /\ SF_vars(SendTo /\ wakeup' = TX_BUDGET)

FairSpec == Spec /\ AppFairness /\ KernelFairness

-----------------------------------------------------------------------------
(* The frames in a sequence past its first k entries. *)
FramesFrom(s, k) == {s[i] : i \in k + 1 .. Len(s)} \cap Frames
DistinctFrom(s, k) ==
  \A i, j \in k + 1 .. Len(s) : s[i] = s[j] /\ s[i] \in Frames => i = j

(* The seven places a frame can be. *)
Stacked == FramesFrom(umem_frame_addr, 0)
Filled == FramesFrom(fq, 0)
Held == FramesFrom(nic, 0)
Received == FramesFrom(rx, idx)   \* not yet dealt with
Queued == FramesFrom(tx, 0)
Sending == ktx
Completed == FramesFrom(cq, 0)

pcs == {"loop", "poll", "peek", "stock", "reserve", "retry", "fill", "process",
        "sendto", "complete", "free", "closed"}

\* The values each field of the socket, each ring and each local may hold.
TypeOK ==
  /\ umem_frame_addr \in Seq(Frames)
  /\ fq \in Seq(Frames \cup {INVALID_UMEM_FRAME}) /\ fq_free \in 0 .. FQ_SIZE
  /\ nic \in Seq(Frames)
  /\ rx \in Seq(Frames) /\ rx_avail \in 0 .. RX_SIZE
  /\ tx \in Seq(Frames) /\ tx_free \in 0 .. TX_SIZE
  /\ ktx \in SUBSET Frames
  /\ cq \in Seq(Frames)
  /\ wakeup \in 0 .. TX_BUDGET
  /\ outstanding_tx \in Nat
  /\ pc \in pcs
  /\ rcvd \in 0 .. RX_BATCH_SIZE /\ idx \in 0 .. rcvd
  /\ stock_frames \in 0 .. FQ_SIZE
  /\ completed \in Nat
  /\ global_exit \in BOOLEAN

\* No place holds the same frame twice (INVALID_UMEM_FRAME is no frame).
NoDuplicates ==
  /\ DistinctFrom(umem_frame_addr, 0)
  /\ DistinctFrom(fq, 0)
  /\ DistinctFrom(nic, 0)
  /\ DistinctFrom(rx, idx)
  /\ DistinctFrom(tx, 0)
  /\ DistinctFrom(cq, 0)

\* No frame is in two places.
Exclusive ==
  /\ Stacked \cap (Filled \cup Held \cup Received \cup Queued \cup Sending \cup Completed) = {}
  /\ Filled \cap (Held \cup Received \cup Queued \cup Sending \cup Completed) = {}
  /\ Held \cap (Received \cup Queued \cup Sending \cup Completed) = {}
  /\ Received \cap (Queued \cup Sending \cup Completed) = {}
  /\ Queued \cap (Sending \cup Completed) = {}
  /\ Sending \cap Completed = {}

\* No frame is lost.
Conserved ==
  Frames \subseteq Stacked \cup Filled \cup Held \cup Received \cup Queued
                     \cup Sending \cup Completed

\* The UMEM is partitioned: every frame is in exactly one place, once, so it is
\* never handed to the kernel twice, never on the stack while the kernel uses
\* it, and never leaked by handle_receive_packets and complete_tx.
FrameOwnership == NoDuplicates /\ Exclusive /\ Conserved

\* outstanding_tx counts exactly the frames between the tx ring and their
\* collection from the completion ring; complete_tx's clamp never bites.
OutstandingExact ==
  outstanding_tx = Len(tx) + Cardinality(ktx) + Len(cq)

\* The slots the thread believes free are free, the reserved ones included, so
\* neither producer ring is ever overrun although the cached counts are stale.
NoOverrun ==
  /\ Len(fq) + fq_free <= FQ_SIZE
  /\ pc = "fill" => Len(fq) + fq_free + stock_frames <= FQ_SIZE
  /\ Len(tx) + tx_free <= TX_SIZE

\* What was peeked is still in the ring, so no entry is read or released that
\* the kernel has not produced.
PeekedPresent ==
  /\ rcvd + rx_avail <= Len(rx)
  /\ completed <= Len(cq)

\* "This should not happen, but just in case": the loop that retries a failed
\* reservation (and never ends unless rcvd = stock_frames) is never entered.
NeverRetry == pc # "retry"

\* The thread stays within what the rings hold, on both ends of each.
RingsRespected == NoOverrun /\ PeekedPresent /\ NeverRetry

\* assert(xsk->umem_frame_free < NUM_FRAMES) holds at every call of
\* xsk_free_umem_frame.
FreeAssertion ==
  /\ pc = "process" /\ idx < rcvd => Len(umem_frame_addr) < NUM_FRAMES
  /\ pc = "free" => Len(umem_frame_addr) + completed <= NUM_FRAMES

\* Only frames of the UMEM are handed to the driver.
NoInvalidFill == \A i \in 1 .. Len(fq) : fq[i] # INVALID_UMEM_FRAME

\* The frames the socket can receive with: in the fill ring, with the driver,
\* or received and not yet dealt with.
InReach == Filled \cup Held \cup Received

\* Only a received batch refills the fill ring and collects completions, so a
\* switch without a frame in reach has stopped for ever: it cannot get one
\* back.  It happens only when the transmit side is that far behind: all but at
\* most one batch of the frames are then in the tx ring, being sent or in the
\* completion ring.  No frame that could be used for receiving is left on the
\* stack by the refill.
StarvedBySending ==
  [][/\ InReach # {} /\ InReach' = {}
          => outstanding_tx' + RX_BATCH_SIZE >= NUM_FRAMES
     /\ InReach = {} => InReach' = {}]_vars

\* complete_tx "ensures that any outstanding TX operations are completed and
\* their associated memory is freed": a queued frame gets back to the stack,
\* or the thread ends.
TxRecycled ==
  \A f \in Frames :
    f \in Queued ~> f \in Stacked \/ pc = "closed"

\* That holds as long as batches are received again and again, however late
\* the kernel sends and completes and whatever sendto calls fail.
RecycledWhileReceiving == []<>(rcvd > 0) => TxRecycled

\* After SIGINT the thread leaves rx_and_process, unless it is caught in
\* poll(): there it stays when no packet ever comes, because the signal is
\* handled by main and need not interrupt it.
ExitsEventually ==
  <>[](pc = "poll" /\ rx = <<>>) \/ (global_exit ~> pc = "closed")

-----------------------------------------------------------------------------
(* What the inductive proofs need besides the properties above. *)

\* Where the locals of handle_receive_packets and complete_tx are live.  The
\* fill ring's cached room is used up by each refill, so a refill follows a
\* refresh and starts with a frame of the stack.
Control ==
  /\ pc \notin {"stock", "reserve", "fill", "process"} => rcvd = 0 /\ idx = 0
  /\ pc \in {"stock", "reserve", "fill"} => idx = 0
  /\ pc # "free" => completed = 0
  /\ pc = "reserve" => fq_free = stock_frames
  /\ pc # "reserve" => fq_free = 0
  /\ pc \in {"reserve", "fill"} => stock_frames > 0 /\ umem_frame_addr # <<>>

\* The kernel's own bounds.
KernelBounds ==
  /\ Len(nic) <= NIC_SIZE
  /\ Len(rx) <= RX_SIZE
  /\ Cardinality(ktx) + Len(cq) <= CQ_SIZE

\* A full fill ring has a frame to give.
FullHasFrame == Len(fq) = FQ_SIZE => Filled # {}

\* A refill belongs to a batch.  Past it there is a frame to receive into, or
\* the stack holds only what this batch has freed.
Fed ==
  /\ pc \in {"stock", "reserve", "fill"} => rcvd > 0
  /\ pc = "process" => \/ Filled \cup Held \cup FramesFrom(rx, rcvd) # {}
                       \/ Len(umem_frame_addr) <= idx

=============================================================================
