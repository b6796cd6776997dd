----------------------------- MODULE PerfBuffer -----------------------------
(***************************************************************************)
(* libbpf's perf buffer: one memory-mapped ring per CPU, written by the    *)
(* kernel while perf_buffer__poll reads it.  Part one sets the buffers up, *)
(* and any call may fail; part two reads records that may wrap around the  *)
(* end of the ring.                                                        *)
(***************************************************************************)
EXTENDS Integers, SequencesExt

CONSTANTS CpuCnt,       \* rings, on CPUs 1 .. CpuCnt
          mmap_size,    \* cells of a ring; the model's cell is a record's part
          Sizes,        \* sizes of samples
          MaxRecords    \* bound on the records the kernel writes to the rings

Cpus == 1..CpuCnt
LostSize == 1

VARIABLES state,      \* "new", "setup", "polling", "error", "freed"
          held,       \* the resources the buffer holds
          ring,       \* per CPU: the cells, and the head and tail of the header page
          written,    \* per CPU: the records the kernel wrote
          lost,       \* per CPU: samples that did not fit since the last record
          buf_size,   \* per CPU: size of the copy buffer
          reader,     \* the local variables of perf_buffer__poll
          delivered   \* per CPU: what the callbacks were given

perfVars == <<state, held, ring, written, lost, buf_size, reader, delivered>>

Idle == [at |-> "idle", todo |-> <<>>, cpu |-> 0, head |-> 0, tail |-> 0, size |-> 0, copy |-> <<>>]

PerfInit ==
  /\ state = "new"
  /\ held = {}
  /\ ring = [c \in Cpus |-> [mem |-> [i \in 0..mmap_size - 1 |-> <<0, 0>>], head |-> 0, tail |-> 0]]
  /\ written = [c \in Cpus |-> <<>>]
  /\ lost = [c \in Cpus |-> 0]
  /\ buf_size = [c \in Cpus |-> 0]
  /\ reader = Idle
  /\ delivered = [c \in Cpus |-> <<>>]

-----------------------------------------------------------------------------
(* __perf_buffer__new *)

\* What is acquired, in this order.
PerCpu == <<"cpu_buf", "fd", "base", "enabled", "element", "watched">>
Acquisitions ==
  <<<<"pb", 0>>, <<"epoll", 0>>, <<"events", 0>>, <<"cpu_bufs", 0>>>> \o
    FlattenSeq([c \in Cpus |-> [n \in DOMAIN PerCpu |-> <<PerCpu[n], c>>]])

NextAcquisition == SelectInSeq(Acquisitions, LAMBDA r : r \notin held)

\* Closing the perf event takes it out of the epoll set.
perf_buffer__free_cpu_buf(h, c) ==
  h \ {<<"base", c>>, <<"enabled", c>>, <<"fd", c>>, <<"watched", c>>, <<"cpu_buf", c>>}

\* A cpu_buf is in cpu_bufs once perf_buffer__open_cpu_buf succeeded.
Opened(h) == {c \in Cpus : <<"enabled", c>> \in h}

\* Mutant: the event stays in the program's map.
perf_buffer__free_KeepsElement(h) ==
  LET bufs == FoldSet(LAMBDA c, g : perf_buffer__free_cpu_buf(g, c), h, Opened(h))
  IN bufs \ {<<"cpu_bufs", 0>>, <<"epoll", 0>>, <<"events", 0>>, <<"pb", 0>>}

perf_buffer__free(h) ==
  LET bufs == FoldSet(LAMBDA c, g : perf_buffer__free_cpu_buf(g \ {<<"element", c>>}, c), h, Opened(h))
  IN bufs \ {<<"cpu_bufs", 0>>, <<"epoll", 0>>, <<"events", 0>>, <<"pb", 0>>}

\* The one that failed to open is freed by perf_buffer__open_cpu_buf.
Unwound(r) ==
  perf_buffer__free(IF r[1] \in {"fd", "base", "enabled"} THEN perf_buffer__free_cpu_buf(held, r[2]) ELSE held)

perf_buffer__new ==
  /\ state \in {"new", "setup"}
  /\ LET r == Acquisitions[NextAcquisition]
     IN \/ /\ held' = held \cup {r}
           /\ state' = IF r = <<"watched", CpuCnt>> THEN "polling" ELSE "setup"
        \/ held' = Unwound(r) /\ state' = "error"
  /\ UNCHANGED <<ring, written, lost, buf_size, reader, delivered>>

Free ==
  /\ state = "polling" /\ reader = Idle
  /\ held' = perf_buffer__free(held)
  /\ state' = "freed"
  /\ UNCHANGED <<ring, written, lost, buf_size, reader, delivered>>

-----------------------------------------------------------------------------
(* The kernel: a record is written whole when it fits, else it is counted as *)
(* lost, and the count goes before the next record that fits.               *)

Fits(c, recs) ==
  FoldSeq(LAMBDA x, n : x.size + n, 0, recs) <= mmap_size - (ring[c].head - ring[c].tail)

Put(c, recs) ==
  LET first == Len(written[c])
      cells == FlattenSeq([n \in DOMAIN recs |-> [p \in 1..recs[n].size |-> <<first + n, p>>]])
      r == ring[c]
  IN /\ ring' = [ring EXCEPT ![c].head = @ + Len(cells),
                             ![c].mem = [i \in DOMAIN @ |->
                                LET k == ((i - r.head) % mmap_size) + 1
                                IN IF k <= Len(cells) THEN cells[k] ELSE @[i]]]
     /\ written' = [written EXCEPT ![c] = @ \o recs]

\* bpf_perf_event_output of a sample.
Output(c) ==
  /\ <<"element", c>> \in held
  /\ FoldFunction(LAMBDA s, n : Len(s) + n, 0, written) < MaxRecords /\ lost[c] < MaxRecords
  /\ \E s \in Sizes :
       LET recs == (IF lost[c] > 0 THEN <<[type |-> "LOST", size |-> LostSize, n |-> lost[c]]>> ELSE <<>>)
                     \o <<[type |-> "SAMPLE", size |-> s, n |-> 1]>>
       IN \/ Fits(c, recs) /\ Put(c, recs) /\ lost' = [lost EXCEPT ![c] = 0]
          \/ /\ ~Fits(c, recs)
             /\ lost' = [lost EXCEPT ![c] = @ + 1]
             /\ UNCHANGED <<ring, written>>
  /\ UNCHANGED <<state, held, buf_size, reader, delivered>>

-----------------------------------------------------------------------------
(* perf_buffer__poll *)

\* epoll_wait names the rings that have records, in any order; then each is
\* processed, from where ring_buffer_read_head finds its head.
perf_buffer__poll ==
  /\ state = "polling" /\ reader.at = "idle"
  /\ \E s \in SetToSeqs({c \in Cpus : ring[c].head # ring[c].tail}) :
       s # <<>> /\ reader' = [reader EXCEPT !.at = "start", !.todo = s]
  /\ UNCHANGED <<state, held, ring, written, lost, buf_size, delivered>>

ReadHead ==
  /\ reader.at = "start"
  /\ LET c == Head(reader.todo)
     IN reader' = [reader EXCEPT !.at = "loop", !.todo = Tail(@), !.cpu = c,
                                 !.head = ring[c].head, !.tail = ring[c].tail]
  /\ UNCHANGED <<state, held, ring, written, lost, buf_size, delivered>>

\* The cells of a record that starts at a tail.
InPlace(c, tail, size) == [i \in 1..size |-> ring[c].mem[(tail + i - 1) % mmap_size]]

\* A record that wraps is put together in the copy buffer, which may have to
\* grow; failing that the loop ends with an error.
len_first(tail) == mmap_size - (tail % mmap_size)
TwoParts(c, tail, size) ==
  InPlace(c, tail, len_first(tail)) \o [i \in 1..(size - len_first(tail)) |-> ring[c].mem[i - 1]]

NextRecord ==
  /\ reader.at = "loop"
  /\ reader.head # reader.tail
  /\ LET c == reader.cpu
         ehdr == ring[c].mem[reader.tail % mmap_size]
         size == written[c][ehdr[1]].size
     IN IF size > len_first(reader.tail)
        THEN \/ /\ reader' = [reader EXCEPT !.at = "callback", !.size = size, !.copy = TwoParts(c, reader.tail, size)]
                /\ buf_size' = [buf_size EXCEPT ![c] = IF @ < size THEN size ELSE @]
             \/ /\ buf_size[c] < size
                /\ buf_size' = [buf_size EXCEPT ![c] = 0]
                /\ reader' = [reader EXCEPT !.at = "failed"]
        ELSE reader' = [reader EXCEPT !.at = "callback", !.size = size, !.copy = <<>>] /\ UNCHANGED buf_size
  /\ UNCHANGED <<state, held, ring, written, lost, delivered>>

\* The callback looks at the record for as long as it runs: what it got is
\* what is there when it returns, and it may ask to stop.
perf_buffer__process_record ==
  /\ reader.at = "callback"
  /\ LET c == reader.cpu
         rec == IF reader.copy # <<>> THEN reader.copy ELSE InPlace(c, reader.tail, reader.size)
     IN delivered' = [delivered EXCEPT ![c] = Append(@, rec)]
  /\ \E next \in {"loop", "stopped", "failed"} :
       reader' = [reader EXCEPT !.at = next, !.tail = @ + reader.size, !.size = 0, !.copy = <<>>]
  /\ UNCHANGED <<state, held, ring, written, lost, buf_size>>

\* ring_buffer_write_tail, on every way out; an error ends the poll.
WriteTail ==
  /\ \/ reader.at \in {"stopped", "failed"}
     \/ reader.at = "loop" /\ reader.head = reader.tail
  /\ ring' = [ring EXCEPT ![reader.cpu].tail = reader.tail]
  /\ reader' = IF reader.at = "failed" \/ reader.todo = <<>> THEN Idle
               ELSE [Idle EXCEPT !.at = "start", !.todo = reader.todo]
  /\ UNCHANGED <<state, held, written, lost, buf_size, delivered>>

PerfNext ==
  \/ perf_buffer__new \/ Free
  \/ \E c \in Cpus : Output(c)
  \/ perf_buffer__poll \/ ReadHead \/ NextRecord \/ perf_buffer__process_record \/ WriteTail

PerfSpec == PerfInit /\ [][PerfNext]_perfVars

-----------------------------------------------------------------------------
(* Properties *)

\* The callbacks see the records of a ring whole, in order, each once: none is
\* torn by the end of the ring or by what the kernel writes meanwhile, none is
\* skipped when a callback stops the loop or the copy cannot be allocated.
RecordsIntact ==
  \A c \in Cpus :
    /\ Len(delivered[c]) <= Len(written[c])
    /\ \A n \in DOMAIN delivered[c] :
         delivered[c][n] = [p \in 1..written[c][n].size |-> <<n, p>>]

\* A buffer that failed to be set up, or was freed, holds nothing: no event is
\* left in the map of the program, open, or mapped.
PerfReleased == state \in {"error", "freed"} => held = {}

=============================================================================
