---------------------------- MODULE MCComponents -----------------------------
(***************************************************************************)
(* The components that do not meet at run time, in one instance: an        *)
(* initial state chooses one of them, and only its variables move.  The    *)
(* producer ring, the statistics, the socket library and the links have    *)
(* variables of their own; the others share x1, x2, ..., which stand for   *)
(* the variables of the chosen one, and what a component promises is       *)
(* claimed only where it was chosen.                                       *)
(***************************************************************************)
EXTENDS XskRing, SwitchStats, XskLib, BpfLink, TLC

CONSTANTS none, s1, s2, o1, o2

VARIABLES which,
          x1, x2, x3, x4, x5, x6, x7, x8, x9, x10, x11, x12, x13, x14, x15, x16, x17, x18

-----------------------------------------------------------------------------
(* What the instances are given *)

\* Object files that are no BPF object, and files with every kind of section.
ObjectFiles ==
  [form : {"bpf", "not_bpf", "endian"}, sections : {<<"text", "prog", "rel">>}]
    \cup [form : {"bpf"}, sections : {<<>>, <<"prog", "bad_version">>, <<"map", "data", "tracing", "prog", "rel">>,
                                     <<"prog", "map", ".maps", "data", "rodata", "bss", "rel">>}]

AttachCalls ==
  [kind : {"kprobe", "uprobe"}, ret : BOOLEAN, pid : {-1}]
    \cup [kind : {"uprobe"}, ret : {TRUE}, pid : {5, -2}]
    \cup [kind : {"tracepoint", "raw", "perf_event"}, ret : {FALSE}, pid : {-1}]

\* Kernels with both kinds of probes, with kprobes only, and one whose bit for
\* return probes cannot be read.
WithBoth == [kprobe |-> [type |-> 6, bit |-> 0], uprobe |-> [type |-> 7, bit |-> 1]]
ProbeFiles ==
  {WithBoth,
   [kprobe |-> [type |-> 6, bit |-> 0], uprobe |-> [type |-> -2, bit |-> -2]],
   [kprobe |-> [type |-> 6, bit |-> -5], uprobe |-> [type |-> 7, bit |-> 0]]}

\* Keys a and b share a bucket until the second growth.
KeyHash == [k \in {"a", "b", "c"} |-> CASE k = "a" -> 0 [] k = "b" -> 2 [] k = "c" -> 13]

GoPrograms ==
  {"switch", "switch_bi", "switch_bi_original", "switch_bi_chan", "switch_bi_chan_original", "switch_sync_bad",
   "l2fwd", "rebroadcast", "dumpframes", "sendudp", "senddnsqueries", "reopen"}

\* ProgLoad: the programs to load and the kernels to load them into.
NoRecords == [recs |-> <<>>, size |-> 0]
Info(last) == [recs |-> <<<<5, last>>, <<6, 0>>>>, size |-> 2]

Features == {"name", "global_data", "btf_func", "btf_datasec", "helper"}
Kernels ==
  [permitted : BOOLEAN, knows : {{}, {"name", "btf_func"}, {"global_data", "btf_datasec", "helper"}, Features},
   types : {{"filter"}, {"filter", "xdp", "sk_storage"}, {"filter", "xdp", "kprobe", "of_maps"}},
   words : 1 .. 2, lines : {1, 3}]
Program(type, valid, big, func, line, log_level) ==
  [type |-> type, valid |-> valid, big |-> big, func |-> func, line |-> line, log_level |-> log_level]
Probe(type, valid) == Program(type, valid, FALSE, NoRecords, NoRecords, 0)

Infos == {<<NoRecords, NoRecords>>, <<Info(0), Info(7)>>, <<Info(7), NoRecords>>, <<Info(7), Info(7)>>}
Probed == {k \in Kernels : k.words = 2 /\ k.lines = 1}
Worlds ==
  [call : {"load_program"}, kernel : {k \in Kernels : k.knows = {} /\ (k.words = 2 => "kprobe" \in k.types)},
   prog : {Program(t, v, b, f[1], f[2], g) : t \in {"xdp", "kprobe"}, v \in SUBSET {"xdp", "kprobe"}, b \in BOOLEAN,
                                             f \in Infos, g \in 0 .. 1}]
    \cup [call : {"probe_prog_type"}, prog : {Probe(t, {"xdp", "kprobe"}) : t \in {"xdp", "kprobe"}}, kernel : Probed]
    \cup [call : {"probe_helper"}, prog : {Probe(t, {}) : t \in {"xdp", "kprobe"}}, kernel : Probed,
          dev : [vendor : {"none"}, fw : {TRUE}] \cup [vendor : {"netronome", "other"}, fw : BOOLEAN]]
    \cup [call : {"probe_map_type"}, prog : {Probe(t, {}) : t \in {"xdp", "sk_storage", "of_maps"}}, kernel : Probed]
    \cup [call : {"probe_caps"}, prog : {Probe("filter", {"filter"})}, kernel : Probed]

-----------------------------------------------------------------------------
Ring == INSTANCE XskRing WITH
  producer <- x1, consumer <- x2, cached_prod <- x3, cached_cons <- x4, ring <- x5, idx <- x6,
  item <- x7
Object == INSTANCE BpfObject WITH
  Objects <- {o1, o2}, NumMaps <- 2, NumProgs <- 1, PinByName <- {1}, MaxFail <- 1, MaxCalls <- 2, pc <- x1, i <- x2,
  arg <- x3, whole <- x4, calls <- x5, map <- x6, progfd <- x7, leaked <- x8, pins <- x9, ppins <- x10, maker <- x11,
  stale <- x12, fails <- x13

ASSUME Object!ObjectAssumption

File == INSTANCE ObjectFile WITH
  Files <- ObjectFiles, MinCap <- 4, MaxBad <- 1, MaxPriv <- 2, MaxInst <- 2, file <- x1, opc <- x2, n <- x3,
  heap <- x4, ptr <- x5, fds <- x6, efd <- x7, elf <- x8, buf <- x9, listed <- x10, progs <- x11, mapfd <- x12,
  nr_maps <- x13, loaded <- x14, priv <- x15, cleared <- x16, foreign <- x17, bad <- x18
Load == INSTANCE ProgLoad WITH
  LogBufSize <- 1, MaxAgain <- 1, MaxNoMem <- 1, w <- x1, pc <- x2, cont <- x3, arg <- x4, attr <- x5, try <- x6,
  heap <- x7, open <- x8, fd <- x9, errno <- x10, log <- x11, ret <- x12, caps <- x13, seen <- x14, budget <- x15
Perf == INSTANCE PerfBuffer WITH
  CpuCnt <- 2, mmap_size <- 4, Sizes <- {1, 3}, MaxRecords <- 3, state <- x1, held <- x2, ring <- x3, written <- x4,
  lost <- x5, buf_size <- x6, reader <- x7, delivered <- x8
Hash == INSTANCE Hashmap WITH
  Keys <- {"a", "b", "c"}, Hash <- KeyHash, WordSize <- 4, MaxInserts <- 5, buckets <- x1, cap_bits <- x2, sz <- x3,
  stamp <- x4, ret <- x5
Setup == INSTANCE GoSetup WITH
  Examples <- GoPrograms, MaxStarts <- 2, example <- x1, start <- x2, at <- x3, sub <- x4, how <- x5, defers <- x6,
  kept <- x7, held <- x8, hook <- x9, queues <- x10, xsks <- x11
Env1 == INSTANCE TestEnv WITH
  Scripts <- {s1}, EnvNames <- {"a", "b"}, noEnv <- "", Features <- {{}, {"ipv4", "vlan"}}, MaxCommands <- 3,
  MaxFailures <- 1, sh <- x1, statedir <- x2, current <- x3, highest <- x4, statefile <- x5, netns <- x6, link <- x7,
  dying <- x8, commands <- x9, failures <- x10, raced <- x11, clash <- x12, trouble <- x13
Env2 == INSTANCE TestEnv WITH
  Scripts <- {s1, s2}, EnvNames <- {"a", "b"}, noEnv <- "", Features <- {{}}, MaxCommands <- 3,
  MaxFailures <- 1, sh <- x1, statedir <- x2, current <- x3, highest <- x4, statefile <- x5, netns <- x6, link <- x7,
  dying <- x8, commands <- x9, failures <- x10, raced <- x11, clash <- x12, trouble <- x13

-----------------------------------------------------------------------------
shared == <<x1, x2, x3, x4, x5, x6, x7, x8, x9, x10, x11, x12, x13, x14, x15, x16, x17, x18>>
from16 == <<x16, x17, x18>>
from14 == <<x14, x15, from16>>
from12 == <<x12, x13, from14>>
from9 == <<x9, x10, x11, from12>>
from8 == <<x8, from9>>
from6 == <<x6, x7, from8>>

\* What the chosen component does not use.
Free16 == x16 = none /\ x17 = none /\ x18 = none
Free14 == x14 = none /\ x15 = none /\ Free16
Free12 == x12 = none /\ x13 = none /\ Free14
Free9 == x9 = none /\ x10 = none /\ x11 = none /\ Free12
Free8 == x8 = none /\ Free9
Free6 == x6 = none /\ x7 = none /\ Free8
Free1 == x1 = none /\ x2 = none /\ x3 = none /\ x4 = none /\ x5 = none /\ Free6
ringVars == <<prodVars, item>>
compVars == <<which, ringVars, statVars, libVars, linkVars, shared>>

CompInit ==
  /\ which \in {"prod", "stats", "xsk", "link", "cons", "object", "file", "load", "perf", "hash", "setup",
                "env1", "env2"}
  /\ which # "prod" => ring = [s \in 0 .. Size - 1 |-> CHOOSE e \in Entry : TRUE]
  /\ which # "xsk" => netdev = "none" /\ noexist = FALSE
  /\ which # "link" => sys = WithBoth /\ prog = (CHOOSE p \in LinkProgs : TRUE) /\ loaded = {}
  /\ ProdInit /\ item = None /\ StatsInit /\ LibInit /\ LinkInit
  /\ \/ which \in {"prod", "stats", "xsk", "link"} /\ Free1
     \/ which = "cons" /\ Ring!ConsInit /\ Free8
     \/ which = "object" /\ Object!ObjInit /\ Free14
     \/ which = "file" /\ File!Init
     \/ which = "load" /\ Load!Init /\ Free16
     \/ which = "perf" /\ Perf!PerfInit /\ Free9
     \/ which = "hash" /\ Hash!HashInit /\ Free6
     \/ which = "setup" /\ Setup!Init /\ Free12
     \/ which = "env1" /\ Env1!Init /\ Free14
     \/ which = "env2" /\ Env2!Init /\ Free14

Shared ==
  \/ which = "cons" /\ Ring!ConsNext /\ UNCHANGED from8
  \/ which = "object" /\ Object!ObjNext /\ UNCHANGED from14
  \/ which = "file" /\ File!Next
  \/ which = "load" /\ Load!Next /\ UNCHANGED from16
  \/ which = "perf" /\ Perf!PerfNext /\ UNCHANGED from9
  \/ which = "hash" /\ Hash!HashNext /\ UNCHANGED from6
  \/ which = "setup" /\ Setup!Next /\ UNCHANGED from12
  \/ which = "env1" /\ Env1!Next /\ UNCHANGED from14
  \/ which = "env2" /\ Env2!Next /\ UNCHANGED from14

CompNext ==
  /\ \/ which = "prod" /\ ProdNext /\ UNCHANGED <<item, statVars, libVars, linkVars, shared>>
     \/ which = "stats" /\ StatsNext /\ UNCHANGED <<ringVars, libVars, linkVars, shared>>
     \/ which = "xsk" /\ LibNext /\ UNCHANGED <<ringVars, statVars, linkVars, shared>>
     \/ which = "link" /\ LinkNext /\ UNCHANGED <<ringVars, statVars, libVars, shared>>
     \/ Shared /\ UNCHANGED <<ringVars, statVars, libVars, linkVars>>
  /\ UNCHANGED which

CompSpec == CompInit /\ [][CompNext]_compVars

\* Two objects, two sockets or scripts and two programs differ in name only.
Alike == Permutations({o1, o2}) \cup Permutations({s1, s2}) \cup Permutations(LinkProgs)

-----------------------------------------------------------------------------
(* What the components promise, each where its component was chosen.  The  *)
(* producer ring's RefinesProdChannel, the statistics' NeverOverReported,  *)
(* the socket library's NothingLeaked and SocketsServed and the links'     *)
(* LinksOwned are claimed as they stand.                                   *)

\* The consumer ring of XskRing: the indices stay in ring order across the wrap,
\* and the ring implements its bounded channel.
ConsRefinesChannel ==
  /\ which = "cons" => Ring!Cons!Init
  /\ [](which = "cons" => Ring!ConsIndexOrder)
  /\ [][which = "cons" => Ring!ConsChannelStep]_compVars

\* BpfObject: a failed load leaves no pin it made but those it could not remove,
\* a failed or closed object no descriptor but those of other objects' maps that
\* bpf_object__reuse_map left open; objects that take a map from one name share
\* it, the pinned flag tells where a map is pinned, and the clean-up of a failed
\* load removes no pin of another object.
ObjectConsistent ==
  /\ [](which = "object" =>
          Object!FailedLoadClean /\ Object!SharedByName /\ Object!PinnedIsPinned /\ Object!ClosedHoldsNothing)
  /\ [][which = "object" => Object!UndoesOwn]_compVars

\* ObjectFile: the object points to exactly the live blocks, a closed or failed
\* one leaves no block, descriptor or caller's buffer in use, no descriptor of
\* somebody else is closed and a private value is cleared once.
ObjectReleased ==
  which = "file" =>
    /\ File!PointsToLive /\ File!ClosedLeavesNothing /\ File!BufferReturned
    /\ File!ClosesOwn /\ File!PrivClearedOnce

\* ProgLoad: a call that returned holds nothing but the program, its debug
\* records survived being cut to what the kernel knows, its error is the true
\* reason, and a probe answers what the kernel can do.
LoadsAndProbesRight ==
  which = "load" => Load!LoadHoldsNothing /\ Load!InfoKept /\ Load!ReasonTrue /\ Load!ProbesRight

\* PerfBuffer: callbacks see the records whole, in order and once, and a buffer
\* that failed or was freed holds nothing.
RecordsDelivered == which = "perf" => Perf!RecordsIntact /\ Perf!PerfReleased

\* Hashmap: the chains behave as entries in order under their keys, an order
\* that every growth turns round, at most three entries for every four buckets.
RefinesMultimap ==
  /\ which = "hash" => Hash!Contents!Init
  /\ [](which = "hash" => Hash!LoadBounded)
  /\ [][which = "hash" => Hash!ContentsStep]_compVars

\* GoSetup: a Go program in its loop is connected, no queue is redirected
\* without a socket, the deferred calls leave no program and a failed NewSocket
\* leaves nothing open.
SetupSound ==
  which = "setup" =>
    Setup!Connected /\ Setup!NeverRedirectsToNothing /\ Setup!LeavesNoProgram /\ Setup!FailedSocketClosed

\* TestEnv, scripts at once on different environments: what exists is what the
\* state files say, a setup that reports success is complete, two environments
\* have one prefix only if their counter was read twice before it was written or
\* removed under a setup, and the selected environment exists.
EnvsSound ==
  /\ which = "env1" =>
       Env1!EnvsComplete /\ Env1!SuccessComplete /\ Env1!PrefixesDistinct /\ Env1!CurrentExists
  /\ which = "env2" =>
       Env2!EnvsComplete /\ Env2!SuccessComplete /\ Env2!PrefixesDistinct /\ Env2!CurrentExists

=============================================================================
