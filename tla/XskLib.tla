------------------------------- MODULE XskLib -------------------------------
(***************************************************************************)
(* Set-up and tear-down of AF_XDP sockets, libbpf/src/xsk.c: a program     *)
(* creates and deletes UMEMs and sockets on one interface, any system call *)
(* may fail, and other programs may change the XDP program attached to the *)
(* interface between any two calls.                                        *)
(*                                                                         *)
(* A resource is a pair <<owner, kind>>, the owner a UMEM or a socket.     *)
(* Every socket uses a queue of its own, so a socket stands for its entry  *)
(* of the XSKMAP.  A program stands for its map as well: socket s names    *)
(* the default program xsk_load_xdp_prog loaded for it, "app" is some      *)
(* application's program with an xsks_map, "bare" one without.             *)
(***************************************************************************)
EXTENDS Integers, FiniteSets

CONSTANTS
  Umems, Sockets, NULL,
  MaxLost            \* most calls of socket() that fail in a shared create

Programs == {"app", "bare"} \cup Sockets
Rings == {{"rx", "tx"}, {"rx"}, {"tx"}}

Socket == [umem : Umems, inhibit : BOOLEAN, rings : Rings,
           map : Programs \cup {"none"}]

ASSUME LibAssumption ==
  /\ Umems \cap Sockets = {} /\ IsFiniteSet(Sockets)
  /\ {"none", "app", "bare"} \cap (Umems \cup Sockets) = {}
  /\ NULL \notin Socket

VARIABLES
  pc,        \* "idle", or the call a create or delete has reached
  cur,       \* the UMEM or socket being created
  held,      \* resources of the program
  live,      \* UMEMs and sockets the caller owns
  xsk,       \* struct xsk_socket of each socket, NULL when there is none
  refcount,  \* umem->refcount
  lost,      \* references taken and never given back
  netdev,    \* the attached program, or "none"
  noexist,   \* config.xdp_flags has XDP_FLAGS_UPDATE_IF_NOEXIST
  prog_id,   \* the program bpf_get_link_xdp_id found
  entries,   \* the sockets in each program's xsks_map
  disturbed  \* sockets during whose life another program changed netdev

lib == <<live, xsk, refcount, lost>>
hook == <<netdev, prog_id, entries, disturbed>>
libVars == <<pc, cur, held, lib, hook, noexist>>

LibInit ==
  /\ pc = "idle" /\ cur = "none"
  /\ held = {} /\ live = {}
  /\ xsk = [s \in Sockets |-> NULL]
  /\ refcount = [u \in Umems |-> 0] /\ lost = [u \in Umems |-> 0]
  /\ netdev \in {"none", "app", "bare"}
  /\ noexist \in BOOLEAN
  /\ prog_id = "none"
  /\ entries = [p \in Programs |-> {}]
  /\ disturbed = {}

\* A call that acquires or fails, a clean-up step, and the return to the caller.
Try(at, gets, next, fail) ==
  /\ pc = at
  /\ \/ held' = held \cup gets /\ pc' = next
     \/ held' = held /\ pc' = fail
Release(at, gives, next) == pc = at /\ held' = held \ gives /\ pc' = next
Return == pc' = "idle" /\ cur' = "none"

-----------------------------------------------------------------------------
(* xsk_umem__create and xsk_umem__delete *)

Same == UNCHANGED <<cur, lib, hook, noexist>>

\* calloc may fail at once.
UmemCreate(u) ==
  /\ pc = "idle" /\ u \notin live
  /\ held' = held \cup {<<u, "mem">>}
  /\ cur' = u /\ pc' = "socket_umem"
  /\ UNCHANGED <<lib, hook, noexist>>

UmemSocket == Try("socket_umem", {<<cur, "fd">>}, "register", "out_umem_alloc") /\ Same

\* XDP_UMEM_REG, the two ring sizes and the mmap offsets.
UmemRegister == Try("register", {}, "mmap_fill", "out_umem_socket") /\ Same

UmemMapFill == Try("mmap_fill", {<<cur, "fill">>}, "mmap_comp", "out_umem_socket") /\ Same

\* The last mmap; success hands the UMEM to the caller.
UmemMapComp ==
  /\ pc = "mmap_comp"
  /\ \/ held' = held \cup {<<cur, "comp">>} /\ live' = live \cup {cur} /\ Return
     \/ held' = held /\ live' = live /\ pc' = "out_umem_mmap" /\ cur' = cur
  /\ UNCHANGED <<xsk, refcount, lost, hook, noexist>>

\* out_mmap unmaps `map', by now MAP_FAILED: the fill ring stays mapped.
UmemOutMmap == Release("out_umem_mmap", {}, "out_umem_socket") /\ Same

UmemOutSocket == Release("out_umem_socket", {<<cur, "fd">>}, "out_umem_alloc") /\ Same

UmemOutAlloc ==
  /\ pc = "out_umem_alloc" /\ held' = held \ {<<cur, "mem">>}
  /\ Return
  /\ UNCHANGED <<lib, hook, noexist>>

\* -EBUSY while referenced; the rings are unmapped if the offsets can be read.
UmemDelete(u) ==
  /\ pc = "idle" /\ u \in live
  /\ refcount[u] = 0
  /\ \E mapped \in {{}, {<<u, "fill">>, <<u, "comp">>}} :
       held' = held \ (mapped \cup {<<u, "fd">>, <<u, "mem">>})
  /\ live' = live \ {u}
  /\ UNCHANGED <<pc, cur, xsk, refcount, lost, hook, noexist>>

-----------------------------------------------------------------------------
(* xsk_socket__create *)

\* calloc, then -EBUSY for a shared UMEM unless the caller loads the program.
SocketCreate(s, u, inh, rg) ==
  /\ pc = "idle" /\ s \notin live /\ u \in live
  /\ cur' = s
  /\ held' = held \cup {<<s, "mem">>}
  /\ xsk' = [xsk EXCEPT ![s] = [umem |-> u, inhibit |-> inh, rings |-> rg, map |-> "none"]]
  /\ pc' = IF refcount[u] > 0 /\ ~inh THEN "out_alloc" ELSE "socket"
  /\ UNCHANGED <<live, refcount, lost, hook, noexist>>

\* refcount++ > 0: a further socket gets an fd of its own.  When socket()
\* fails, the reference just taken is not given back.
SocketFd ==
  LET u == xsk[cur].umem IN
  /\ pc = "socket"
  /\ refcount' = [refcount EXCEPT ![u] = @ + 1]
  /\ \/ /\ refcount[u] = 0
        /\ held' = held /\ pc' = "configure" /\ lost' = lost
     \/ /\ refcount[u] > 0
        /\ held' = held \cup {<<cur, "fd">>} /\ pc' = "configure" /\ lost' = lost
     \/ /\ refcount[u] > 0 /\ lost[u] < MaxLost
        /\ held' = held /\ pc' = "out_alloc"
        /\ lost' = [lost EXCEPT ![u] = @ + 1]
  /\ UNCHANGED <<cur, live, xsk, hook, noexist>>

\* Interface index, ring sizes, mmap offsets.
SocketConfigure == Try("configure", {}, "mmap_rx", "out_socket") /\ Same

Mapping(r) == {<<cur, r>>} \cap ({cur} \X xsk[cur].rings)

\* Each ring is mapped only when it was asked for.
SocketMapRx == Try("mmap_rx", Mapping("rx"), "mmap_tx", "out_socket") /\ Same

SocketMapTx == Try("mmap_tx", Mapping("tx"), "bind", "out_mmap_rx") /\ Same

SocketBind ==
  Try("bind", {}, IF xsk[cur].inhibit THEN "done" ELSE "get_id", "out_mmap_tx") /\ Same

-----------------------------------------------------------------------------
(* xsk_setup_xdp_prog *)

SetMapOf(p) == xsk' = [xsk EXCEPT ![cur].map = p]
SameLib == UNCHANGED <<cur, live, refcount, lost, noexist, disturbed>>

GetLinkXdpId ==
  /\ pc = "get_id"
  /\ \/ pc' = "out_mmap_tx" /\ prog_id' = prog_id
     \/ prog_id' = netdev /\ pc' = IF netdev = "none" THEN "create_map" ELSE "get_prog"
  /\ UNCHANGED <<held, xsk, netdev, entries>> /\ SameLib

\* xsk_create_bpf_maps, whose size xsk_get_max_queues asks the driver for.
CreateMap ==
  /\ Try("create_map", {<<cur, "map_fd">>}, "load_prog", "out_mmap_tx")
  /\ SetMapOf(cur)
  /\ entries' = [entries EXCEPT ![cur] = {}]
  /\ UNCHANGED <<netdev, prog_id>> /\ SameLib

\* xsk_load_xdp_prog: load, then attach; the kernel refuses to replace a
\* program when asked to (XDP_FLAGS_UPDATE_IF_NOEXIST).
LoadProg ==
  /\ pc = "load_prog"
  /\ \/ /\ ~(noexist /\ netdev # "none")
        /\ held' = held \cup {<<cur, "prog_fd">>}
        /\ netdev' = cur /\ pc' = "set_map"
     \/ held' = held /\ netdev' = netdev /\ pc' = "delete_map"
  /\ UNCHANGED <<xsk, prog_id, entries>> /\ SameLib

\* bpf_prog_get_fd_by_id: the program seen may be gone by now.
GetProg == Try("get_prog", {<<cur, "prog_fd">>}, "lookup_map", "out_mmap_tx") /\ Same

\* xsk_lookup_bpf_maps: the map named xsks_map of the attached program.
LookupMap ==
  /\ pc = "lookup_map"
  /\ \/ /\ prog_id # "bare"
        /\ held' = held \cup {<<cur, "map_fd">>}
        /\ SetMapOf(prog_id)
        /\ pc' = "set_map"
     \/ /\ held' = held \ {<<cur, "prog_fd">>}
        /\ pc' = "out_mmap_tx" /\ xsk' = xsk
  /\ UNCHANGED <<netdev, prog_id, entries>> /\ SameLib

\* xsk_set_bpf_maps, for a socket with an rx ring.
SetMap ==
  /\ pc = "set_map"
  /\ \/ /\ pc' = "done"
        /\ entries' = IF "rx" \in xsk[cur].rings
                      THEN [entries EXCEPT ![xsk[cur].map] = @ \cup {cur}] ELSE entries
     \/ "rx" \in xsk[cur].rings /\ pc' = "delete_map" /\ entries' = entries
  /\ UNCHANGED <<held, xsk, netdev, prog_id>> /\ SameLib

\* Mutant: only the map is closed.
DeleteMap_KeepsProg ==
  /\ Release("delete_map", {<<cur, "map_fd">>}, "out_mmap_tx")
  /\ entries' = [entries EXCEPT ![xsk[cur].map] = @ \ {cur}]
  /\ UNCHANGED <<xsk, netdev, prog_id>> /\ SameLib

\* xsk_delete_bpf_maps and close(prog_fd) of a failed set-up.
DeleteMap ==
  /\ Release("delete_map", {<<cur, "map_fd">>, <<cur, "prog_fd">>}, "out_mmap_tx")
  /\ entries' = [entries EXCEPT ![xsk[cur].map] = @ \ {cur}]
  /\ UNCHANGED <<xsk, netdev, prog_id>> /\ SameLib

-----------------------------------------------------------------------------
SocketDone ==
  /\ pc = "done" /\ Return
  /\ live' = live \cup {cur} /\ prog_id' = "none"
  /\ UNCHANGED <<held, xsk, refcount, lost, netdev, entries, disturbed, noexist>>

SocketOutMmapTx == Release("out_mmap_tx", {<<cur, "tx">>}, "out_mmap_rx") /\ Same

SocketOutMmapRx == Release("out_mmap_rx", {<<cur, "rx">>}, "out_socket") /\ Same

\* Mutant: the reference is not given back.
SocketOutSocket_KeepsReference ==
  /\ pc = "out_socket"
  /\ held' = held \ (IF refcount[xsk[cur].umem] > 1 THEN {<<cur, "fd">>} ELSE {})
  /\ pc' = "out_alloc"
  /\ UNCHANGED <<cur, lib, hook, noexist>>

\* if (--umem->refcount) close(xsk->fd)
SocketOutSocket ==
  /\ pc = "out_socket"
  /\ LET u == xsk[cur].umem IN
     /\ refcount' = [refcount EXCEPT ![u] = @ - 1]
     /\ held' = held \ (IF refcount'[u] > 0 THEN {<<cur, "fd">>} ELSE {})
  /\ pc' = "out_alloc"
  /\ UNCHANGED <<cur, live, xsk, lost, hook, noexist>>

SocketOutAlloc ==
  /\ pc = "out_alloc" /\ held' = held \ {<<cur, "mem">>}
  /\ xsk' = [xsk EXCEPT ![cur] = NULL] /\ prog_id' = "none"
  /\ disturbed' = disturbed \ {cur}
  /\ Return
  /\ UNCHANGED <<live, refcount, lost, netdev, entries, noexist>>

\* xsk_socket__delete: the program stays attached, and the mappings stay when
\* the offsets cannot be read.
SocketDelete(s) ==
  /\ pc = "idle" /\ s \in live
  /\ \E mapped \in {{}, {<<s, "rx">>, <<s, "tx">>}} :
       held' = held \ (mapped \cup ({s} \X {"map_fd", "prog_fd", "fd", "mem"}))
  /\ entries' = IF <<s, "prog_fd">> \in held
                THEN [entries EXCEPT ![xsk[s].map] = @ \ {s}] ELSE entries
  /\ refcount' = [refcount EXCEPT ![xsk[s].umem] = @ - 1]
  /\ xsk' = [xsk EXCEPT ![s] = NULL]
  /\ live' = live \ {s}
  /\ disturbed' = disturbed \ {s}
  /\ UNCHANGED <<pc, cur, lost, netdev, prog_id, noexist>>

\* Another program attaches or detaches (the loaders of this repository do).
OtherProgram ==
  /\ netdev' \in {"none", "app", "bare"} \ {netdev}
  /\ disturbed' = {s \in Sockets : xsk[s] # NULL}
  /\ UNCHANGED <<pc, cur, held, lib, prog_id, entries, noexist>>

-----------------------------------------------------------------------------
UmemSteps ==
  \/ \E u \in Umems : UmemCreate(u) \/ UmemDelete(u)
  \/ UmemSocket \/ UmemRegister \/ UmemMapFill \/ UmemMapComp
  \/ UmemOutMmap \/ UmemOutSocket \/ UmemOutAlloc

SocketSteps ==
  \/ \E s \in Sockets :
       \/ SocketDelete(s)
       \/ \E u \in Umems, inh \in BOOLEAN, rg \in Rings : SocketCreate(s, u, inh, rg)
  \/ SocketFd \/ SocketConfigure \/ SocketMapRx \/ SocketMapTx \/ SocketBind
  \/ GetLinkXdpId \/ CreateMap \/ LoadProg \/ GetProg \/ LookupMap \/ SetMap
  \/ DeleteMap \/ SocketDone \/ SocketOutMmapTx \/ SocketOutMmapRx
  \/ SocketOutSocket \/ SocketOutAlloc

LibNext == UmemSteps \/ SocketSteps \/ OtherProgram

LibSpec == LibInit /\ [][LibNext]_libVars

-----------------------------------------------------------------------------
LiveSockets(u) == {s \in live \cap Sockets : xsk[s].umem = u}

\* What the UMEMs and sockets handed to the caller are made of.
Needed ==
  ((live \cap Umems) \X {"mem", "fd", "fill", "comp"})
    \cup UNION {{s} \X ({"mem"} \cup xsk[s].rings) : s \in live \cap Sockets}

\* Ring mappings, the only thing the library can leave behind.
Mappings == (Umems \X {"fill", "comp"}) \cup (Sockets \X {"rx", "tx"})

\* Between two calls of the library every fd and every allocation belongs to a
\* UMEM or socket the caller owns, whichever system calls failed on the way
\* (out_mmap and a failing xsk_get_mmap_offsets leave ring mappings), and a
\* live object has all it needs.
NothingLeaked ==
  pc = "idle" =>
    /\ Needed \subseteq held
    /\ \A r \in held \ Mappings : r[1] \in live

\* Past the increment of a create that has not yet been undone.
Counted == {"configure", "mmap_rx", "mmap_tx", "bind", "get_id", "create_map",
            "load_prog", "get_prog", "lookup_map", "set_map", "delete_map", "done",
            "out_mmap_tx", "out_mmap_rx", "out_socket"}

\* umem->refcount is the number of sockets on the UMEM, the one being created
\* included, plus one for every socket() that failed in a shared create.
RefcountExact ==
  \A u \in Umems :
    refcount[u] = Cardinality(LiveSockets(u)) + lost[u]
                    + (IF pc \in Counted /\ xsk[cur].umem = u THEN 1 ELSE 0)

\* A socket's UMEM is never deleted under it, nor its fd closed: the first
\* socket of a UMEM uses the UMEM's fd.
UmemOutlivesSockets ==
  \A s \in Sockets :
    s \in live \/ (pc \in Counted /\ cur = s) =>
      xsk[s].umem \in live /\ <<xsk[s].umem, "fd">> \in held

\* While nobody else touches the interface, the attached program redirects to
\* every live socket that has an rx ring and left the program to the library,
\* whatever other sockets are created, fail or are deleted.
Reachable ==
  \A s \in (live \cap Sockets) \ disturbed :
    ~xsk[s].inhibit /\ "rx" \in xsk[s].rings =>
      netdev # "none" /\ s \in entries[netdev]

\* A live socket works: its UMEM is there and counted, and packets reach it.
SocketsServed == RefcountExact /\ UmemOutlivesSockets /\ Reachable

\* The calls of a creation of a UMEM, and of a socket.
UmemCalls == {"socket_umem", "register", "mmap_fill", "mmap_comp",
              "out_umem_mmap", "out_umem_socket", "out_umem_alloc"}
SocketCalls == {"socket", "out_alloc"} \cup Counted

\* The values of the library's structures and of the kernel's; what is being
\* created is not yet the caller's.
LibTypeOK ==
  /\ \/ pc = "idle" /\ cur = "none"
     \/ pc \in UmemCalls /\ cur \in Umems \ live
     \/ pc \in SocketCalls /\ cur \in Sockets \ live /\ xsk[cur] \in Socket
  /\ held \subseteq (Umems \X {"mem", "fd", "fill", "comp"})
       \cup (Sockets \X {"mem", "fd", "rx", "tx", "map_fd", "prog_fd"})
  /\ live \subseteq Umems \cup Sockets
  /\ xsk \in [Sockets -> Socket \cup {NULL}]
  /\ \A s \in live \cap Sockets : xsk[s] \in Socket
  /\ refcount \in [Umems -> Int] /\ lost \in [Umems -> Nat]
  /\ netdev \in Programs \cup {"none"} /\ prog_id \in Programs \cup {"none"}
  /\ entries \in [Programs -> SUBSET Sockets]
  /\ disturbed \subseteq Sockets /\ noexist \in BOOLEAN

=============================================================================
