# A TLA+ verification of the AF_XDP switch

The repository holds a network switch built on Linux AF_XDP sockets, in two
languages: a C program on top of libbpf (`switchtsn/`) and a Go program on top
of a small socket library (`go-approach/`), with the XDP tutorial programs they
grew out of and the copy of libbpf they are linked with. This directory models
them, checks the models with TLC and proves the central properties with TLAPS.

Contents: 1 the system, 2 modules, 3 runs, 4 proofs, 5 what is not modelled.

## 1. The system

### Parts and how they interact

| Part | State | Operations |
|---|---|---|
| C packet loop, `switchtsn/af_xdp_david_new.c` | stack of free frames (`umem_frame_addr`), `outstanding_tx`, `global_exit`, statistics | `xsk_configure_socket`, `rx_and_process`, `handle_receive_packets`, `process_packet`, `complete_tx`, `exit_application`, the statistics thread |
| C program around it, the same file | XDP program, UMEM, socket | `main` and `thread_func`: set-up, threads, signal, clean-up |
| libbpf rings, `xsk.h` | shared `producer` and `consumer`, `cached_prod`, `cached_cons`, slots | reserve, write, submit; peek, read, release |
| libbpf sockets, `xsk.c` | UMEMs with `refcount`, descriptors, mappings, the program and map of a socket | create and delete, with the unwinding of failures |
| Go socket, `go-approach/xdp.go` | four rings, bit maps `freeRXDescs` and `freeTXDescs`, `numFilled`, `numTransmitted` | `NewSocket`, `Fill`, `Receive`, `Transmit`, `Complete`, `GetDescs`, `Poll`, `Close` |
| Go switches and examples | sockets, the `fds` array of `poll()` | one goroutine, one per port, one per burst; dump, rebroadcast, send |
| Loading library and tools, `common/`, `basic0*/`, `packet03*/` | program on an interface, pinned maps, counters | attach with fall-back, detach, pin, unpin, collect |
| XDP programs, `packet0*/`, `basic0*/` | frames, per-action record | parse, push and pop VLAN tags, checksums, TTL, redirect |
| libbpf core | objects, links, perf buffers, BTF, hash maps | open, load, relocate, attach, poll, deduplicate, dump |
| `testenv/testenv.sh` | namespaces, links, state files | setup, teardown, reset |

The Makefile of `switchtsn/` also builds `af_xdp_user.c`, the same loop between
the same set-up and clean-up, run by `main` itself instead of a thread; what is
shown of the loop and of its set-up is read off the threaded program.

The program and the kernel share the UMEM and exchange frames over four
single-producer single-consumer rings: *fill* (empty frames to the driver),
*rx* (packets to the program), *tx* (packets to the kernel) and *completion*
(sent frames back). Either side runs at any time between two steps of the
other; the only synchronisation is the order in which indices are published.
Several processes share an interface and a directory of pinned maps, and no
lock protects either.

### What is hard here

- A program decides on *cached* indices that the kernel has moved since, and
  indices wrap at 2^32.
- A frame takes different ways back: freed at once when a packet is dropped,
  through three rings when it is answered. A frame lost or doubled on one of
  them shows only after thousands of packets.
- The C loop refills and collects only after it has received something, so a
  switch without a frame to receive into never recovers.
- The Go loop wakes for completions only while a counter is positive, and in
  `switch_bi.go` two goroutines update that counter without a lock.
- Attaching a program, unpinning the old maps and pinning the new ones are
  separate calls; other tools run, fail or are killed in between.
- Dozens of calls of libbpf can fail half way and must give back exactly what
  they took.

`PROJECT.json` lists the hazards, each with its source line and the properties
that cover it.

## 2. Modules

### The switch in C

| Module | Models |
|---|---|
| `XskSwitch` | the packet loop and the kernel's side of its socket |
| `XskUser` | `main` and `thread_func` around it, every call failing, the last `xdp_link_detach` included, SIGINT at any time |
| `SwitchStats` | the statistics thread beside the packet thread |
| `XskSwitchProofs` | theorems about the first two |
| `XskRing`, `RingLinkProofs` | producer and consumer rings index by index; theorems |
| `ProdChannel`, `ConsChannel` | what a ring promises: a bounded channel without indices |
| `XskLib` | creation and deletion of UMEMs and sockets |
| `ComponentProofs` | theorems about `SwitchStats` and `XskLib` |

An action of `XskSwitch` is one stretch of code between two points where the
kernel's progress can make a difference: `PeekRx`, `StockFrames`, `ReserveFill`
and `SubmitFill` are the calls of `handle_receive_packets` in order,
`DropPacket` and `ReplyPacket` one round of its loop, `ReleaseRx` its end;
`SendTo`, `PeekCompleted` and `FreeCompleted` are `complete_tx`. `pc` says which
is next. A ring is the sequence of its entries, and what libbpf caches is kept
as `fq_free`, `tx_free` and `rx_avail`. `XskRing` shows why that view is right:
its two rings keep all four indices modulo a word and an array of slots, and
implement the channels. `process_packet` is modelled by what it does
to the frame; what it writes into a packet is in `XdpPrograms`.

In `XskLib` a resource is a pair of an owner and a kind; `pc` is the call a
creation has reached, with the labels of its unwinding. Another process may
attach or detach a program between any two calls (`OtherProgram`), which marks
the sockets it disturbs.

`main` gives `thread_func` its interface, so the test for a missing `--dev` is
dead and has no action; `--unload` is `Unload`. When the closing
`xdp_link_detach` fails nobody notices: `UserOrder` says that the XDP program is
then the only thing left.

### The switch in Go

| Module | Models |
|---|---|
| `GoSocket` | the calls of `xdp.go` and the kernel's side of each socket |
| `GoSwitch` | `switch.go` (and `l2fwd.go`), one goroutine |
| `GoSwitchProofs`, `GoOrderProofs` | theorems about it: ownership and counters, order |
| `GoSwitchBi` | `switch_bi.go`, a goroutine per port and one `poll()` array |
| `GoSwitchChan` | `switch_bi_chan.go`, a goroutine per burst |
| `GoExamples` | dumpframes, rebroadcast, sendudp, senddnsqueries |
| `GoSetup` | `NewSocket`, `Close`, `program.go` and `main` of each program, with every failure and the deferred calls |

The calls of `GoSocket` are operators on the socket of a port; the other modules
call them in the order of the code. A frame's content is the number of the
packet in it, so a copy into the wrong frame, a frame refilled before it was
copied, and a repeated or reordered packet are all visible in `sent`. In
`GoSwitchBi` an addition to `numTransmitted` is a read and, later, a write.

### Tools and programs

`XdpTools` (theorems in `XdpRouteProofs` and `XdpToolsProofs`) runs any number of processes, each one
of the loaders, the switch, `xdp_stats`, the parameter tool or an unload, on one
interface and one pin directory. Each system call others can see is a step, and
each may fail or be the last one of a killed process; setting up the switch's
socket is three of them, the look-up of the attached program
(`ConfigureSocket`), the attach of libbpf's own program when there is none
(`xsk_load_xdp_prog`) and the entry in the program's map (`xsk_set_bpf_maps`).
`touched` marks processes
behind whose back the interface changed, `overlap` that two were at work on the
pinned maps at once: a loader is at work from its start until its maps are
pinned, the parameter tool while it writes. `XdpPrograms` runs every XDP
program, and the echo responder of the switch, on frames of 16-bit words.
`TestEnv` is the shell script, one or two at once.

### libbpf

State machines: `BpfObject` (load, pin and unpin, close; two objects that share
pins), `ObjectFile` (what an object owns while it is opened, loaded and closed),
`ProgLoad` (the retries of loading a program, and the probes, with the vendor's
file of a device), `BpfLink`, `PerfBuffer`, and `Hashmap`, which implements
`Multimap`. Theorems about
`BpfObject` are in `BpfProofs`, those about `BpfLink` beside the rings' in `RingLinkProofs`.

Algorithms, as operators checked against reference definitions: `ElfObject`
(sections, maps, relocations, calls), `BtfDedup`, `BtfDump`, `BtfData`,
`CoreReloc`, `Netlink`, `ProgTypes`, `ProgInfo`, `Config` (options of the tools,
ring sizes and offsets) and `PinnedMaps`. `Cases` turns them into behaviours: an
input is chosen, then its result computed.

The kernel is external everywhere, and modelled from how the code uses it: it
takes and delivers in order, completes in any order, discards addresses outside
the UMEM, and answers every call with what the code tells apart.

## 3. Runs

Components that do not meet at run time share a run: its initial state chooses
one of them, only that one moves, and each property is claimed where its
component was chosen. `components` uses symmetry, of the two objects, of the two
sockets or scripts and of the two programs to attach, which differ in name only;
its properties are all safety.

| Run | Shows |
|---|---|
| `switch` (`XskUser`) | frame ownership, exact `outstanding_tx`, no ring overrun or read ahead, the allocator's assertion, `main` acquires and releases in order; the loop is out of frames to receive into only when all but a batch of them are in transmission, and then for ever |
| `live` (`MCLive`) | queued frames of the C switch return as long as batches are received, and SIGINT ends the loop unless no packet ever ends its `poll()`; the Go switch frees every frame even when traffic stops |
| `components` (`MCComponents`) | rings implement channels, the hash map a multimap whose growths turn the order of a key's entries round; sockets, objects, links, buffers, Go set-ups and test environments own what they acquired, whichever call fails, up to the limits listed below; statistics never over-report |
| `go` (`MCGo`) | bit maps agree with rings, counters are exact, packets leave in order, once and intact; the same for two goroutines and the examples, as far as they promise it |
| `tools` (`XdpTools`) | nobody's program is replaced without `--force`, a switch is served and leaves nothing, pins are those of the program attached, rates are of one map, the reader follows the pin |
| `packets` (`XdpPrograms`) | no cursor leaves the frame, checksums of IPv4 headers and ICMP messages stay valid and those of UDP and TCP change only by a rewritten port, answers are not answered, tags are popped as pushed |
| `algorithms` (`MCAlgorithms`) | the algorithms above give what their reference definitions say, up to the limits listed below |
| `switch_invalid_fill`, `switch_not_recycled`, `go_bi_counted`, `go_rebroadcast`, `go_chan` | *violated*, see the findings |

### Findings

1. `af_xdp_david_new.c:480`: a refill asks for as many frames as the ring has
   free slots. Once the stack is empty the rest are `INVALID_UMEM_FRAME`, handed
   to the driver. The driver discards them, so no frame is lost, but line 446
   says something else.
2. `af_xdp_david_new.c:462`: completions are collected only after a received
   batch, so the last replies of a burst stay in the completion ring.
3. `xdp.go:464` and `646` in `switch_bi.go`: a lost update of `numTransmitted`;
   it is 0 with a frame on the tx ring and `POLLOUT` is no longer requested.
4. `xdp.go:435`: a received frame that is transmitted from where it is stays
   free for `GetDescs`, and is handed to the kernel while it waits to be sent.
5. `switch_bi_chan.go:196`: goroutines of two bursts share the array `Receive`
   returns; one packet leaves twice and another never.

### Limits of what holds

Some properties hold only up to a limit that is in the code; each is stated with
its limit, and the case beyond it is an input or a behaviour of the model.

- **Starvation** (`StarvedBySending`). The loop refills and collects only after
  it received something. With more than `TX_SIZE + CQ_SIZE + RX_BATCH_SIZE`
  frames the transmit side could never hold them all; the program has 4096
  against 2048 + 2048 + 64. The run keeps that relation, 5 frames against
  2 + 2 + 2, and reaches states without a frame in reach. The property says that
  nothing else leads there, and that there is no way back.
- **Leaving `poll()`** (`ExitsEventually`). SIGINT is handled in `main`'s thread
  and need not interrupt the worker, which stays in `poll(-1)` when no packet
  comes.
- **Go counters** (`CountersExact`). The comments at `xdp.go:711` and `720` call
  `NumFilled` and `NumTransmitted` the descriptors not yet consumed by the
  kernel; they also count frames with the driver and those in the rx and
  completion ring. The larger number is what the poll flags need.
- **Hash map** (`RefinesMultimap`). `hashmap.h:77` says that with
  `HASHMAP_APPEND` a look-up returns the last entry inserted. `hashmap_grow`
  turns every chain round, so after an odd number of growths it returns the
  first. `Multimap` keeps the entries of a key in order, with `Grown` reversing
  it.
- **Objects** (`ObjectConsistent`). The clean-up of a failed load ignores an
  unlink that fails, so that pin stays. `bpf_object__reuse_map` keeps a
  duplicate of the descriptor it opened and leaves the first one open, also after
  the object is closed; it is of another object's map.
- **Test environments** (`EnvsSound`). `get_num` has no lock, and the EXIT trap of
  one script may remove the counter under another's setup. The model has both
  (`raced`); prefixes are distinct up to them. Two scripts on one environment at
  once (`clash`) are outside the claims that follow.
- **Checksums** (`ChecksumsKept`). `xdp_port_rewrite_func` changes the destination
  port of UDP and TCP and not the checksum over it.
- **Functions in `.text`** (`ProgramsLoadRight`). They are copied into a program
  when its calls are relocated and `.text` is relocated in file order, so when it
  stands after its caller the copy's map loads are not relocated.
- **Dumped names and layouts** (`DumpRight`). A duplicate of `a` is printed as
  `a___2`, which may be another type's own name, and names are cut at 255
  characters. A packed struct with bit fields across units is not always
  recognised as packed.
- **CO-RE** (`FieldsRelocated`). `bpf_core_find_cands` allocates bytes for ids of
  four bytes each; the smallest chunk of the allocator has room for six
  candidates, and nothing is claimed from the seventh on. Candidates are compared
  by offset only, so a size, sign or bit width is that of the first.
- **Map annotations** (`BtfReadRight`). The length check at `btf.c:707` notices only
  container names of exactly 256 characters; longer ones are looked up cut.
- **Pinned maps** (`ToolsAsAsked`). `common_libbpf.c:100` ignores a failing
  `bpf_map__reuse_fd`, and hands out the pinned map while the program keeps a map
  of its own. The name compared at line 93 was freed by the call; the model takes
  either outcome of the comparison.
- **Netlink** (`KernelAnswersRead`). A message that does not fit the buffer of 4096
  bytes is dropped, and a dump whose end is lost is waited for.
- **Ring mappings** (`NothingLeaked`) may be left by a failing `xsk_socket__create`
  or `xsk_umem__create`; descriptors and allocations are not.

### Bounds

| Bound | Value | Why it is enough |
|---|---|---|
| C switch | 5 frames, rings and batches of 2 | as in the program, the frames are fewer than tx ring, completion ring and a batch together; every ring fills and empties, the stack runs out, a batch straddles a refill, the tx ring is full while replies are produced |
| C switch, liveness | 3 frames, rings of 1 | symmetry is out; each ring still blocks its producer |
| `NIC_SIZE`; `TX_BUDGET` | 1; 2, and 1 for liveness | the driver holds a frame while others wait; one wake-up does not send everything |
| rings | `WORD` = 8, `Size` = 4 | each index wraps in every relative position |
| socket library | 1 UMEM, 2 sockets, `MaxLost` = 1 | a shared UMEM, one create failing while another socket lives |
| Go | 4 frames, 2 for each half, rings of 2; 2 and rings of 1 for liveness | both halves run out, a receive exceeds the free tx frames |
| `switch_bi` in `MCGo` | 3 packets one way or 1 each way; EINTR until the second packet of a burst | a frame is received into again while both goroutines count; an interrupted `poll()` only repeats the loop |
| `MaxPackets` (Go) | 3 one way and 1 the other; 2 and 1 for liveness | more packets than frames, so frames are reused |
| `MaxSent` | more than a run can send; 5 for the senders | caps the programs that send for ever |
| tools | 3 processes, 140 combinations of tools and options, the two loaders in one order | a reader or an unload beside two loaders in either mode; the theorems have no such bound |
| tools, `MaxPackets`, `MaxInfoFail` | 1 | a counter that differs between two readings, one failure to read the info |
| `MaxFail`, `MaxErrors`, `MaxBad`, `MaxNoMem`, `MaxAgain`, `MaxFailures` | 1 | every single failure at every place; unwinding is sequential |
| test environments | one script with links of every kind, or two scripts with plain links; 2 environments, 3 commands | two setups at once, a reset or a teardown beside a setup, a script killed at every command |
| algorithms | the sizes in each `...Inputs` definition: 2 or 3 compilation units, structs of 3 members, declarations of 4 links, 4 mentions of names, 2 pinned maps, 7 candidates, nesting to the limit of 64 | every two kinds that are treated differently meet; the seventh candidate is the first beyond the allocation |
| `MaxCalls`, `MaxStarts`, `MaxCommands` | 2 or 3 | a call after a failed one, a program started after one that ended |
| `MaxInserts` (hash map) | 5 | two growths, chains of two keys |
| `mmap_size`, `MaxRecords` (perf buffer) | 4, and 3 records in all rings | records that wrap, and one that is lost |
| statistics | 2 packets in batches up to 2, 2 lines | an addition between reading and copying, twice; the theorem has no such bound |

`CHECK_DEADLOCK FALSE` is set where the system may stop: programs end, bounds on
packets and calls are used up, algorithms are done.

### Fairness

- The packet thread or goroutine keeps running (weak fairness of its step).
- `poll()` may fail with EINTR again and again, but not for ever while something
  is ready (strong fairness of its successful return).
- The kernel keeps taking fill entries, sending and completing (weak fairness).
  In C it only sends after a `sendto`, whose failure the code ignores; not every
  one of infinitely many fails (strong fairness). In Go every `poll()` is a
  further wake-up.
- Packets need never arrive. `RecycledWhileReceiving` has them as its hypothesis,
  and `switch_not_recycled` shows that it needs it; `ExitsEventually` leaves out
  a worker that waits in `poll()` for ever.
- `xdp_stats` wakes from its sleep (weak fairness). Other tools owe nothing.
- SIGINT is never owed.

## 4. Proofs

| Theorem | States | For every |
|---|---|---|
| `SwitchShape`, `SwitchOwnership`, `SwitchAssertion`, `SwitchOutstanding` | types and `RingsRespected`; `FrameOwnership`; `FreeAssertion`; `OutstandingExact` | finite UMEM, ring and batch size, both modes |
| `SwitchStarves` | `StarvedBySending` | the same |
| `MainOrder`, `MainImplementsLoop`, `MainSafe`, `MainStarves` | `UserOrder`; `main` implements the packet loop, so its properties hold of the program | the same |
| `StatsHonest` | `NeverOverReported` | lengths and number of packets |
| `ProdRingSafe`, `ConsRingSafe` | types and order of the indices | word that is a multiple of the ring size and at least twice as large |
| `ProdRingRefines`, `ConsRingRefines` | `RefinesProdChannel`, `RefinesConsChannel`: the ring implements the bounded channel | the same |
| `LibLeaksNothing`, `LibServesSockets` | `NothingLeaked`; `SocketsServed` | UMEMs and sockets, and failures |
| `GoSwitchTypes`, `GoSwitchOwnership`, `GoSwitchCounters`, `GoSwitchOrder` | `TypeOK`; `FramesOwned`; `CountersExact`; `InOrder` | numbers of frames and packets, ring sizes |
| `SwitchStaysSound`, `PinsStayRight`, `AttachesKeepOthers` | `SwitchSound`; `PinsRight`; `AttachKeepsOthers` | number of processes with any tools and options |
| `LinksStayOwned` | `LinksOwned` | programs, attach calls, machines, failures |
| `ObjectsStayConsistent` | `FailedLoadClean`, `SharedByName`, `PinnedIsPinned`, `ClosedHoldsNothing` and the action property `UndoesOwn`, which make up `ObjectConsistent` | objects, maps, programs, names shared, failures |

The assumptions are those on the constants, named in the modules that declare
them: `FramesAssumption`, `SizesAssumption`, `EnoughToFill` and `ModeAssumption`
(`XskSwitch`), `RingAssumption`, `StatsAssumption`, `LibAssumption`,
`OptionsAssumption` (`GoSocket`), `ToolsAssumption`, `LinkAssumption` and
`ObjectAssumption` (a hypothesis of its theorem, as `BpfObject` is used by
instances); that 2^32 and a power of two satisfy
`RingAssumption` is how libbpf uses it. The runs evaluate them on their instances.

**C switch.** Three layers. *Shape*: `TypeOK`, `NoOverrun` and `PeekedPresent`
are inductive together with `Control`, which says where the locals are live and
that the fill ring's cached room is 0 except between counting and reserving;
that is why the reservation cannot fail. *Ownership*: each action moves frames
between at most two of seven places; `NoDuplicates`, `Exclusive` and `Conserved`
are inductive together, and the assertion follows by counting. *Counting*:
`OutstandingExact` follows the frames between tx ring and completion, and
`StarvedBySending` adds `FullHasFrame` and `Fed`: past a refill some frame is in
reach of the driver, or the stack holds only what this batch has freed, so that
the frames in transmission are all but a batch. That there is no way back needs
only ownership: every step that puts a frame in reach takes it from a batch.
`Ladder` is the invariant of `main`: what is held is what the call reached says.

**Rings.** `IndexOrder` (`ConsIndexOrder`) says that the differences of
neighbouring indices, taken modulo the word, add up to at most the ring size. It
is inductive by four lemmas on `Plus` and `Minus`. The refinement maps the
indices to sequences, `Entries(ring, from, n)`; its steps rest on two facts:
indices less than a ring size apart have different slots (`Size` divides
`WORD`), so a write spoils no entry in use, and adding to an index at either end
appends to or drops from the sequence. There is one lemma per operation, and each
maps a step of the ring to one of the channel or to a stutter.

**Socket library.** `NothingLeaked` speaks of the moments between calls, so the
invariant `LibInv` says what is held *during* one: `Holdings` bounds what the
creation at work holds by the call it has reached, from above (`MayHold`: nothing
is forgotten by a label of the unwinding) and from below (`MustHold`: what it
hands out is complete). `Counts` ties `refcount` to the sockets and says that a
socket with a descriptor of its own is not the first one of its UMEM, without
which its unwinding could close the UMEM's. `Redirects` says what the set-up of a
socket knows of the attached program from one call to the next, as long as nobody
else changed it.

**Go switch.** `Shape` has the types and sizes, with the room that frames being
sent will need in the completion ring. What `GetDescs` takes, the free frames in
ascending order, is characterised by lemmas on `Ascending`. `RxOwned` and
`TxOwned` are inductive for each port, the counters follow by lengths and
cardinalities. Order needs to see all packets in flight: `Flow` puts what left a
port, what is in its tx ring, what `forwardFrames` holds and what is in the other
port's rx ring into one rising line, and `Held` says that the frames being copied
are marked free but in no ring, so no packet can arrive in them.

**Tools.** The invariant `ToolsInv` is `TypeOK`, `Routes`, `SwitchSound`, `Pins`
and `Rates`. `Routes` says which tool with which options can be at which call.
`Pins` holds until two processes overlap: they take turns, what is pinned is from
one object (also when a loader was killed half way), a process at the pinned maps
has them as far as its loop got (`Progress`), and a loader that ended well finds
its maps pinned while its program is attached (`Done`). `Rates` ties the record
of a reader to the map it has open. One lemma says what each step leaves alone,
one where it takes its process; each part of the invariant then has one lemma for
its steps. `Aimed` says what a switch between the look-up and the map update knows: as
long as nobody touched the interface, the program it found is the attached
one. `AttachesKeepOthers` follows from `Routes`: only `--force` leads to the calls
that remove a program.

**Links.** `LinksOwned` speaks of the events between calls; `LinkInv` also says
what the call in progress did to its event, `pfd`. Every link has its event to
itself (`LinkOK`), every running event and every open one that libbpf opened is
linked except `pfd` (`EventOK`), and `pfd` is the event asked for, linked only
when it is the caller's own and already runs a program (`CallOK`): closing it on
a failure then takes nothing from a link.

**Objects.** `ObjInv` follows each object through its load while others load,
pin and unpin the same names. Maps behind the loop have a descriptor (`HasFds`),
maps ahead are not pinned (`Ahead`); the pins an object made during a load are
exactly those its flags tell of, and its clean-up has removed those behind it
(`OwnPins`, `StillOwn`); a flag is true of the file system until another
object's unlink is noted in `stale` (`FlagTrue`). The unlink of one object is the
only step that can make another's flags wrong, and one lemma shows that it marks
all of them. A pin whose unlink failed keeps its flag and is marked `left`. The rest is one lemma per action, each giving what the object that
moves has then, and `OwnStep` for what the others keep.

### Only model-checked

- liveness (`RecycledWhileReceiving`, `ExitsEventually`, `Served`, `FollowsPin`), which is
  outside the prover's reach;
- the algorithms and the XDP programs: what a recursive definition computes for
  every input takes induction over data;
- the other switches and examples in Go, the rest of libbpf's core (`ObjectFile`,
  `ProgLoad`, `PerfBuffer`, `Hashmap`), `GoSetup` and `TestEnv`, for which no
  proof has been written.

## 5. What is not modelled

- Memory order. Publishing an index is one step after the slots are written;
  `xsk.h` has barriers for it, `xdp.go` has its fences commented out and relies
  on the strong order of x86.
- `poll()` errors other than EINTR in Go and `sendto` errors other than EAGAIN,
  EBUSY and EINTR, which end the process.
- Texts: log messages, the verifier's log beyond its length, printing.
- `af_xdp_user.c` a second time (see 1), and the older C versions of the switch,
  which are outside the build; copies of
  kernel headers; build scripts. `PROJECT.json` gives the reason for each.
- Of the libbpf copy, accessors that only return a field.
