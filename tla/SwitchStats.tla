----------------------------- MODULE SwitchStats -----------------------------
(***************************************************************************)
(* The statistics of af_xdp_david_new.c: the switch thread adds to the     *)
(* counters of a socket while the statistics thread reads, prints and      *)
(* copies them.  Neither takes a lock.  Every counter is one aligned word, *)
(* so a read sees some value it had; the compiler may order the reads.     *)
(***************************************************************************)
EXTENDS Integers

CONSTANTS Lens,          \* lengths of packets
          MaxBatch,      \* bound on a received batch
          MaxPackets,    \* bound on the packets received
          MaxLines       \* bound on the reports

ASSUME StatsAssumption == Lens \subseteq Nat /\ MaxBatch \in Nat

Counters == {"rx_packets", "rx_bytes", "tx_packets", "tx_bytes"}

VARIABLES stats,      \* the counters of the socket
          batch,      \* packets of the batch yet to be processed, and its size
          previous,   \* previous_stats of stats_poll
          read,       \* the differences of the line being printed
          got,        \* the counters that were read, or copied, already
          poll,       \* the statistics thread: "sleep", "print", "copy"
          shown,      \* total of the differences printed so far
          lines

statVars == <<stats, batch, previous, read, got, poll, shown, lines>>

Zero == [c \in Counters |-> 0]

StatsInit ==
  /\ stats = Zero
  /\ batch = [left |-> 0, rcvd |-> 0]
  /\ previous = Zero
  /\ read = Zero
  /\ got = {}
  /\ poll = "sleep"
  /\ shown = Zero
  /\ lines = 0

-----------------------------------------------------------------------------
(* The switch thread *)

PeekBatch ==
  /\ batch.rcvd = 0
  /\ \E n \in 1..MaxBatch :
       /\ stats.rx_packets + n <= MaxPackets
       /\ batch' = [left |-> n, rcvd |-> n]
  /\ UNCHANGED <<stats, previous, read, got, poll, shown, lines>>

\* A packet that is sent back is counted as sent, then its bytes are as
\* received.  The claims are about each counter alone: one step adds to all.
CountPacket ==
  /\ batch.left > 0
  /\ \E len \in Lens, sent \in BOOLEAN :
       stats' = [c \in Counters |->
                   stats[c] + CASE c = "rx_bytes" -> len
                                [] c = "tx_bytes" /\ sent -> len
                                [] c = "tx_packets" /\ sent -> 1
                                [] OTHER -> 0]
  /\ batch' = [batch EXCEPT !.left = @ - 1]
  /\ UNCHANGED <<previous, read, got, poll, shown, lines>>

CountBatch ==
  /\ batch.rcvd > 0 /\ batch.left = 0
  /\ stats' = [stats EXCEPT !["rx_packets"] = @ + batch.rcvd]
  /\ batch' = [batch EXCEPT !.rcvd = 0]
  /\ UNCHANGED <<previous, read, got, poll, shown, lines>>

-----------------------------------------------------------------------------
(* The statistics thread *)

Wake ==
  /\ poll = "sleep"
  /\ lines < MaxLines
  /\ poll' = "print"
  /\ UNCHANGED <<stats, batch, previous, read, got, shown, lines>>

\* One counter is read and its difference to the previous line taken.
ReadCounter(c) ==
  /\ poll = "print"
  /\ c \notin got
  /\ read' = [read EXCEPT ![c] = stats[c] - previous[c]]
  /\ got' = got \cup {c}
  /\ UNCHANGED <<stats, batch, previous, poll, shown, lines>>

\* The line is out and the copy of the counters begins.
stats_print_StaleCopy ==
  /\ poll = "print"
  /\ got = Counters
  /\ shown' = [c \in Counters |-> shown[c] + read[c]]
  /\ lines' = lines + 1
  /\ read' = Zero
  /\ got' = {}
  /\ poll' = "sleep"
  /\ UNCHANGED <<stats, batch, previous>>

stats_print ==
  /\ poll = "print"
  /\ got = Counters
  /\ shown' = [c \in Counters |-> shown[c] + read[c]]
  /\ lines' = lines + 1
  /\ read' = Zero
  /\ got' = {}
  /\ poll' = "copy"
  /\ UNCHANGED <<stats, batch, previous>>

\* previous_stats = xsk->stats copies the words one after the other.
CopyCounter(c) ==
  /\ poll = "copy"
  /\ c \notin got
  /\ previous' = [previous EXCEPT ![c] = stats[c]]
  /\ got' = got \cup {c}
  /\ UNCHANGED <<stats, batch, read, poll, shown, lines>>

Copied ==
  /\ poll = "copy"
  /\ got = Counters
  /\ read' = Zero
  /\ got' = {}
  /\ poll' = "sleep"
  /\ UNCHANGED <<stats, batch, previous, shown, lines>>

StatsNext ==
  \/ PeekBatch \/ CountPacket \/ CountBatch
  \/ Wake \/ stats_print \/ Copied
  \/ \E c \in Counters : ReadCounter(c) \/ CopyCounter(c)

StatsSpec == StatsInit /\ [][StatsNext]_statVars

-----------------------------------------------------------------------------
(* Properties *)

\* The lines of the statistics thread never report a packet or a byte twice,
\* and no difference is negative (it would wrap to a huge rate): what was
\* counted between a line and the copy after it is lost from the lines, never
\* added to them.
NeverOverReported ==
  /\ \A c \in Counters : shown[c] <= stats[c] /\ previous[c] <= stats[c]
  /\ poll = "print" => \A c \in got : read[c] >= 0 /\ shown[c] + read[c] <= stats[c]

-----------------------------------------------------------------------------
(* The inductive invariant behind it: outside a copy the lines up to now    *)
(* sum to no more than the previous counters, and a copy brings each of the *)
(* previous counters past the line just printed.                            *)

StatsTypeOK ==
  /\ stats \in [Counters -> Nat]
  /\ previous \in [Counters -> Nat]
  /\ shown \in [Counters -> Nat]
  /\ read \in [Counters -> Int]
  /\ got \in SUBSET Counters
  /\ batch \in [left : Nat, rcvd : Nat]
  /\ poll \in {"sleep", "print", "copy"}

StatsInv ==
  /\ StatsTypeOK
  /\ \A c \in Counters : previous[c] <= stats[c] /\ shown[c] <= stats[c]
  /\ poll = "sleep" => got = {}
  /\ poll # "copy" => \A c \in Counters : shown[c] <= previous[c]
  /\ poll = "copy" => \A c \in got : shown[c] <= previous[c]
  /\ poll = "print" => \A c \in got : read[c] >= 0 /\ previous[c] + read[c] <= stats[c]

=============================================================================
