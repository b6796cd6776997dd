-------------------------- MODULE ComponentProofs ---------------------------
(***************************************************************************)
(* Theorems about components that do not meet at run time.                 *)
(*                                                                         *)
(* XskLib, for any UMEMs and sockets: whichever calls fail and whatever    *)
(* other programs do to the interface, nothing but ring mappings is left   *)
(* behind, and a live socket keeps its UMEM, is counted and is reached.    *)
(*                                                                         *)
(* SwitchStats, for packets of any lengths and any number: the lines of    *)
(* the statistics thread never over-report.                                *)
(***************************************************************************)
EXTENDS XskLib, SwitchStats, FiniteSetTheorems, TLAPS

-----------------------------------------------------------------------------
(* The inductive invariant of XskLib *)

\* What a creation that has reached call c may hold besides ring mappings ...
MayHold(c, k) ==
  \/ k = "mem" /\ c # "idle"
  \/ k = "fd" /\ c \notin {"idle", "socket_umem", "out_umem_alloc", "socket", "out_alloc"}
  \/ k = "map_fd" /\ c \in {"load_prog", "set_map", "delete_map", "done"}
  \/ k = "prog_fd" /\ c \in {"lookup_map", "set_map", "delete_map", "done"}

\* ... and what it holds for certain, rg being the rings asked for.
RxMapped == {"mmap_tx", "bind", "get_id", "create_map", "load_prog", "get_prog",
             "lookup_map", "set_map", "done"}
MustHold(c, rg, k) ==
  \/ k = "mem" /\ c # "idle"
  \/ k = "fd" /\ c \in {"register", "mmap_fill", "mmap_comp"}
  \/ k = "fill" /\ c = "mmap_comp"
  \/ k = "rx" /\ k \in rg /\ c \in RxMapped
  \/ k = "tx" /\ k \in rg /\ c \in RxMapped \ {"mmap_tx"}

\* The rings asked of the creation at work.
Asked == IF cur \in Sockets THEN xsk[cur].rings ELSE {}

\* Live objects are complete ...
Complete ==
  /\ \A u \in live \cap Umems : \A k \in {"mem", "fd", "fill", "comp"} : <<u, k>> \in held
  /\ \A s \in live \cap Sockets : \A k \in {"mem"} \cup xsk[s].rings : <<s, k>> \in held

\* ... nobody else holds anything but mappings, save the creation at work ...
Bounded ==
  \A o \in Umems \cup Sockets : \A k \in {"mem", "fd", "map_fd", "prog_fd"} :
    <<o, k>> \in held => o \in live \/ (o = cur /\ MayHold(pc, k))

\* ... which is as far as its call says.
Started ==
  \A k \in {"mem", "fd", "fill", "rx", "tx"} :
    cur \in Umems \cup Sockets /\ MustHold(pc, Asked, k) => <<cur, k>> \in held

Holdings == Complete /\ Bounded /\ Started

\* The sockets on a UMEM: those handed out and the one being created.
SocketsOn(u) ==
  {s \in Sockets : (s \in live \/ (s = cur /\ pc \in Counted)) /\ xsk[s].umem = u}

\* The reference count, and where it matters: a UMEM in use is live, and a
\* socket with an fd of its own is not the first one.
Counts ==
  /\ \A u \in Umems : refcount[u] = Cardinality(SocketsOn(u)) + lost[u]
  /\ \A s \in Sockets : s \in live \/ s = cur => xsk[s].umem \in live
  /\ cur \in Sockets /\ pc \in Counted /\ <<cur, "fd">> \in held
       => refcount[xsk[cur].umem] > 1

\* Sockets the attached program has to redirect to, unless disturbed.
Wants(s) == ~xsk[s].inhibit /\ "rx" \in xsk[s].rings /\ s \notin disturbed

\* What the set-up of a socket knows of the program attached, as long as nobody
\* else changed it.
Redirects ==
  /\ \A s \in live \cap Sockets : Wants(s) => netdev # "none" /\ s \in entries[netdev]
  /\ pc \in {"create_map", "load_prog"} => \A s \in live \cap Sockets : ~Wants(s)
  /\ pc \in {"get_prog", "lookup_map"} /\ cur \notin disturbed
       => netdev = prog_id /\ prog_id # "none"
  /\ pc = "load_prog" => xsk[cur].map = cur
  /\ pc = "set_map" /\ cur \notin disturbed => netdev = xsk[cur].map /\ netdev # "none"
  /\ pc = "done" /\ Wants(cur) => netdev # "none" /\ cur \in entries[netdev]

LibInv == LibTypeOK /\ Holdings /\ Counts /\ Redirects

-----------------------------------------------------------------------------
(* Types *)

\* Every step keeps the types: what is created or deleted is what its calls say.
LEMMA TypeStep == LibTypeOK /\ [LibNext]_libVars => LibTypeOK'
<1> SUFFICES ASSUME LibTypeOK, [LibNext]_libVars PROVE LibTypeOK'
  OBVIOUS
<1> USE DEF LibTypeOK, lib, hook, UmemCalls, SocketCalls, Counted
<1>a. /\ Umems \cap Sockets = {}
      /\ "none" \notin Umems \cup Sockets
  BY LibAssumption
<1>1. ASSUME NEW u \in Umems, UmemCreate(u) PROVE LibTypeOK'
  BY <1>1, <1>a DEF UmemCreate
<1>2. ASSUME NEW u \in Umems, UmemDelete(u) PROVE LibTypeOK'
  BY <1>2, <1>a, Zenon DEF UmemDelete
<1>3. CASE UmemSocket
  BY <1>3, <1>a DEF UmemSocket, Try, Same
<1>4. CASE UmemRegister
  BY <1>4, <1>a DEF UmemRegister, Try, Same
<1>5. CASE UmemMapFill
  BY <1>5, <1>a DEF UmemMapFill, Try, Same
<1>6. CASE UmemMapComp
  BY <1>6, <1>a DEF UmemMapComp, Return
<1>7. CASE UmemOutMmap
  BY <1>7, <1>a, Zenon DEF UmemOutMmap, Release, Same
<1>8. CASE UmemOutSocket
  BY <1>8, <1>a DEF UmemOutSocket, Release, Same
<1>9. CASE UmemOutAlloc
  BY <1>9, <1>a, Zenon DEF UmemOutAlloc, Return
<1>10. ASSUME NEW s \in Sockets, SocketDelete(s) PROVE LibTypeOK'
  <2>1. xsk' \in [Sockets -> Socket \cup {NULL}] /\ \A t \in Sockets \ {s} : xsk'[t] = xsk[t]
    BY <1>10 DEF SocketDelete
  <2>2. refcount' \in [Umems -> Int]
    <3>1. xsk[s].umem \in Umems
      BY <1>10 DEF SocketDelete, Socket
    <3> QED
      BY <1>10, <3>1 DEF SocketDelete
  <2>3. entries' \in [Programs -> SUBSET Sockets]
    BY <1>10, Zenon DEF SocketDelete
  <2> QED
    BY <1>10, <1>a, <2>1, <2>2, <2>3, Zenon DEF SocketDelete
<1>11. ASSUME NEW s \in Sockets, NEW u \in Umems, NEW inh \in BOOLEAN, NEW rg \in Rings,
             SocketCreate(s, u, inh, rg)
      PROVE  LibTypeOK'
  <2>1. [umem |-> u, inhibit |-> inh, rings |-> rg, map |-> "none"] \in Socket
    BY DEF Socket
  <2>2. /\ xsk' \in [Sockets -> Socket \cup {NULL}] /\ xsk'[s] \in Socket
        /\ \A t \in Sockets \ {s} : xsk'[t] = xsk[t]
    BY <1>11, <2>1, Zenon DEF SocketCreate
  <2> QED
    BY <1>11, <1>a, <2>2, SMTT(30) DEF SocketCreate
<1>12. CASE SocketFd
  <2>1. xsk[cur].umem \in Umems
    BY <1>12, <1>a, Zenon DEF SocketFd, Socket
  <2>2. refcount' \in [Umems -> Int] /\ lost' \in [Umems -> Nat]
    BY <1>12, <2>1 DEF SocketFd
  <2> QED
    BY <1>12, <1>a, <2>2 DEF SocketFd
<1>13. CASE SocketConfigure
  BY <1>13, <1>a DEF SocketConfigure, Try, Same
<1>14. CASE SocketMapRx
  BY <1>14, <1>a DEF SocketMapRx, Try, Same, Mapping
<1>15. CASE SocketMapTx
  BY <1>15, <1>a DEF SocketMapTx, Try, Same, Mapping
<1>16. CASE SocketBind
  BY <1>16, <1>a, Zenon DEF SocketBind, Try, Same
<1>17. CASE GetLinkXdpId
  BY <1>17, <1>a, Zenon DEF GetLinkXdpId, SameLib
<1>18. CASE CreateMap
  <2>1. cur \in Sockets \ live /\ xsk[cur] \in Socket /\ cur \in Programs
    BY <1>18, <1>a DEF CreateMap, Try, Programs
  <2>2. [xsk[cur] EXCEPT !.map = cur] \in Socket
    BY <2>1 DEF Socket
  <2>3. /\ xsk' \in [Sockets -> Socket \cup {NULL}] /\ xsk'[cur] \in Socket
        /\ \A t \in Sockets \ {cur} : xsk'[t] = xsk[t]
    BY <1>18, <2>1, <2>2, Zenon DEF CreateMap, SetMapOf
  <2>4. entries' \in [Programs -> SUBSET Sockets]
    BY <1>18, <2>1, Zenon DEF CreateMap
  <2> QED
    BY <1>18, <1>a, <2>1, <2>3, <2>4 DEF CreateMap, Try, SameLib
<1>19. CASE LoadProg
  <2>1. cur \in Sockets \ live /\ xsk[cur] \in Socket /\ cur \in Programs
    BY <1>19, <1>a DEF LoadProg, Programs
  <2>2. <<cur, "prog_fd">> \in Sockets \X {"mem", "fd", "rx", "tx", "map_fd", "prog_fd"}
    BY <2>1
  <2> QED
    BY <1>19, <1>a, <2>1, <2>2, Zenon DEF LoadProg, SameLib
<1>20. CASE GetProg
  BY <1>20, <1>a DEF GetProg, Try, Same
<1>21. CASE LookupMap
  <2>1. cur \in Sockets \ live /\ xsk[cur] \in Socket
    BY <1>21, <1>a DEF LookupMap
  <2>2. [xsk[cur] EXCEPT !.map = prog_id] \in Socket
    BY <2>1 DEF Socket
  <2>3. /\ xsk' \in [Sockets -> Socket \cup {NULL}] /\ xsk'[cur] \in Socket
        /\ \A t \in Sockets \ {cur} : xsk'[t] = xsk[t]
    BY <1>21, <2>1, <2>2, Zenon DEF LookupMap, SetMapOf
  <2> QED
    BY <1>21, <1>a, <2>1, <2>3 DEF LookupMap, SameLib
<1>22. CASE SetMap
  BY <1>22, <1>a DEF SetMap, SameLib
<1>23. CASE DeleteMap
  BY <1>23, <1>a, Zenon DEF DeleteMap, Release, SameLib
<1>24. CASE SocketDone
  BY <1>24, <1>a, Zenon DEF SocketDone, Return
<1>25. CASE SocketOutMmapTx
  BY <1>25, <1>a, Zenon DEF SocketOutMmapTx, Release, Same
<1>26. CASE SocketOutMmapRx
  BY <1>26, <1>a, Zenon DEF SocketOutMmapRx, Release, Same
<1>27. CASE SocketOutSocket
  <2>1. xsk[cur].umem \in Umems
    BY <1>27, <1>a, Zenon DEF SocketOutSocket, Socket
  <2>2. refcount' \in [Umems -> Int]
    BY <1>27, <2>1 DEF SocketOutSocket
  <2> QED
    BY <1>27, <1>a, <2>2, Zenon DEF SocketOutSocket
<1>28. CASE SocketOutAlloc
  BY <1>28, <1>a DEF SocketOutAlloc, Return
<1>29. CASE OtherProgram
  <2>1. netdev' \in Programs \cup {"none"} /\ disturbed' \subseteq Sockets
    BY <1>29 DEF OtherProgram, Programs
  <2> QED
    BY <1>29, <1>a, <2>1, Zenon DEF OtherProgram
<1>30. CASE UNCHANGED libVars
  BY <1>30, <1>a DEF libVars
<1> HIDE DEF LibTypeOK, lib, hook, UmemCalls, SocketCalls, Counted
<1> QED
  BY <1>1, <1>2, <1>3, <1>4, <1>5, <1>6, <1>7, <1>8, <1>9, <1>10, <1>11,
     <1>12, <1>13, <1>14, <1>15, <1>16, <1>17, <1>18, <1>19, <1>20, <1>21,
     <1>22, <1>23, <1>24, <1>25, <1>26, <1>27, <1>28, <1>29, <1>30, Zenon DEF
     LibNext, UmemSteps, SocketSteps

-----------------------------------------------------------------------------
(* Holdings *)

\* A step of the creation at work from call c to call d, which acquires the
\* resources `gets' and releases the resources `gives'.
Step(c, d, gets, gives) ==
  /\ pc = c /\ pc' = d /\ cur' = cur /\ live' = live
  /\ \A s \in Sockets : s \in live \/ s = cur => xsk'[s].rings = xsk[s].rings
  /\ \A o \in Umems \cup Sockets :
       \A k \in {"mem", "fd", "fill", "comp", "rx", "tx", "map_fd", "prog_fd"} :
         <<o, k>> \in held'
           <=> (o = cur /\ k \in gets) \/ (<<o, k>> \in held /\ ~(o = cur /\ k \in gives))

\* Such a step leaves no more than d may hold and all that d counts on.
Fits(c, d, gets, gives) ==
  /\ c # "idle"
  /\ \A k \in {"mem", "fd", "map_fd", "prog_fd"} :
       k \in gets \/ (MayHold(c, k) /\ k \notin gives) => MayHold(d, k)
  /\ \A k \in {"mem", "fd", "fill", "rx", "tx"} :
       MustHold(d, Asked, k) => k \in gets \/ (MustHold(c, Asked, k) /\ k \notin gives)

\* A step of a creation that fits its labels keeps Holdings.
LEMMA Advance ==
  ASSUME LibTypeOK, Holdings, NEW c, NEW d, NEW gets, NEW gives,
         Step(c, d, gets, gives), Fits(c, d, gets, gives)
  PROVE  Holdings'
<1>1. cur \in (Umems \cup Sockets) \ live
  BY DEF LibTypeOK, Step, Fits
<1>2. Complete'
  <2>1. ASSUME NEW u \in live \cap Umems, NEW k \in {"mem", "fd", "fill", "comp"}
        PROVE  <<u, k>> \in held'
    BY <1>1, <2>1, Zenon DEF Holdings, Complete, Step
  <2>2. ASSUME NEW s \in live \cap Sockets, NEW k \in {"mem"} \cup xsk[s].rings
        PROVE  <<s, k>> \in held'
    <3>1. k \in {"mem", "rx", "tx"}
      BY <2>2 DEF LibTypeOK, Socket, Rings
    <3> QED
      BY <1>1, <2>2, <3>1, Zenon DEF Holdings, Complete, Step
  <2> QED
    BY <2>1, <2>2, Zenon DEF Complete, Step
<1>3. Bounded'
  BY <1>1, Zenon DEF Holdings, Bounded, Step, Fits
<1>4. Started'
  <2>1. Asked' = Asked
    BY <1>1, Zenon DEF Asked, Step
  <2> QED
    BY <1>1, <2>1, Zenon DEF Holdings, Started, Step, Fits
<1> QED
  BY <1>2, <1>3, <1>4, Zenon DEF Holdings

\* Every call acquires and every label releases what the next one counts on.
LEMMA Labels ==
  /\ Fits("socket_umem", "register", {"fd"}, {})
  /\ Fits("socket_umem", "out_umem_alloc", {}, {})
  /\ Fits("register", "mmap_fill", {}, {})
  /\ Fits("register", "out_umem_socket", {}, {})
  /\ Fits("mmap_fill", "mmap_comp", {"fill"}, {})
  /\ Fits("mmap_fill", "out_umem_socket", {}, {})
  /\ Fits("mmap_comp", "out_umem_mmap", {}, {})
  /\ Fits("out_umem_mmap", "out_umem_socket", {}, {})
  /\ Fits("out_umem_socket", "out_umem_alloc", {}, {"fd"})
  /\ Fits("socket", "configure", {}, {})
  /\ Fits("socket", "configure", {"fd"}, {})
  /\ Fits("socket", "out_alloc", {}, {})
  /\ Fits("configure", "mmap_rx", {}, {})
  /\ Fits("configure", "out_socket", {}, {})
  /\ Fits("mmap_rx", "mmap_tx", {"rx"} \cap Asked, {})
  /\ Fits("mmap_rx", "out_socket", {}, {})
  /\ Fits("mmap_tx", "bind", {"tx"} \cap Asked, {})
  /\ Fits("mmap_tx", "out_mmap_rx", {}, {})
  /\ Fits("bind", "done", {}, {})
  /\ Fits("bind", "get_id", {}, {})
  /\ Fits("bind", "out_mmap_tx", {}, {})
  /\ Fits("get_id", "create_map", {}, {})
  /\ Fits("get_id", "get_prog", {}, {})
  /\ Fits("get_id", "out_mmap_tx", {}, {})
  /\ Fits("create_map", "load_prog", {"map_fd"}, {})
  /\ Fits("create_map", "out_mmap_tx", {}, {})
  /\ Fits("load_prog", "set_map", {"prog_fd"}, {})
  /\ Fits("load_prog", "delete_map", {}, {})
  /\ Fits("get_prog", "lookup_map", {"prog_fd"}, {})
  /\ Fits("get_prog", "out_mmap_tx", {}, {})
  /\ Fits("lookup_map", "set_map", {"map_fd"}, {})
  /\ Fits("lookup_map", "out_mmap_tx", {}, {"prog_fd"})
  /\ Fits("set_map", "done", {}, {})
  /\ Fits("set_map", "delete_map", {}, {})
  /\ Fits("delete_map", "out_mmap_tx", {}, {"map_fd", "prog_fd"})
  /\ Fits("out_mmap_tx", "out_mmap_rx", {}, {"tx"})
  /\ Fits("out_mmap_rx", "out_socket", {}, {"rx"})
  /\ Fits("out_socket", "out_alloc", {}, {"fd"})
<1>1. Fits("socket_umem", "register", {"fd"}, {})
  BY DEF Fits, MayHold, MustHold, RxMapped
<1>2. Fits("socket_umem", "out_umem_alloc", {}, {})
  BY DEF Fits, MayHold, MustHold, RxMapped
<1>3. Fits("register", "mmap_fill", {}, {})
  BY DEF Fits, MayHold, MustHold, RxMapped
<1>4. Fits("register", "out_umem_socket", {}, {})
  BY DEF Fits, MayHold, MustHold, RxMapped
<1>5. Fits("mmap_fill", "mmap_comp", {"fill"}, {})
  BY DEF Fits, MayHold, MustHold, RxMapped
<1>6. Fits("mmap_fill", "out_umem_socket", {}, {})
  BY DEF Fits, MayHold, MustHold, RxMapped
<1>7. Fits("mmap_comp", "out_umem_mmap", {}, {})
  BY DEF Fits, MayHold, MustHold, RxMapped
<1>8. Fits("out_umem_mmap", "out_umem_socket", {}, {})
  BY DEF Fits, MayHold, MustHold, RxMapped
<1>9. Fits("out_umem_socket", "out_umem_alloc", {}, {"fd"})
  BY DEF Fits, MayHold, MustHold, RxMapped
<1>10. Fits("socket", "configure", {}, {})
  BY DEF Fits, MayHold, MustHold, RxMapped
<1>11. Fits("socket", "configure", {"fd"}, {})
  BY DEF Fits, MayHold, MustHold, RxMapped
<1>12. Fits("socket", "out_alloc", {}, {})
  BY DEF Fits, MayHold, MustHold, RxMapped
<1>13. Fits("configure", "mmap_rx", {}, {})
  BY DEF Fits, MayHold, MustHold, RxMapped
<1>14. Fits("configure", "out_socket", {}, {})
  BY DEF Fits, MayHold, MustHold, RxMapped
<1>15. Fits("mmap_rx", "mmap_tx", {"rx"} \cap Asked, {})
  BY DEF Fits, MayHold, MustHold, RxMapped
<1>16. Fits("mmap_rx", "out_socket", {}, {})
  BY DEF Fits, MayHold, MustHold, RxMapped
<1>17. Fits("mmap_tx", "bind", {"tx"} \cap Asked, {})
  BY DEF Fits, MayHold, MustHold, RxMapped
<1>18. Fits("mmap_tx", "out_mmap_rx", {}, {})
  BY DEF Fits, MayHold, MustHold, RxMapped
<1>19. Fits("bind", "done", {}, {})
  BY DEF Fits, MayHold, MustHold, RxMapped
<1>20. Fits("bind", "get_id", {}, {})
  BY DEF Fits, MayHold, MustHold, RxMapped
<1>21. Fits("bind", "out_mmap_tx", {}, {})
  BY DEF Fits, MayHold, MustHold, RxMapped
<1>22. Fits("get_id", "create_map", {}, {})
  BY DEF Fits, MayHold, MustHold, RxMapped
<1>23. Fits("get_id", "get_prog", {}, {})
  BY DEF Fits, MayHold, MustHold, RxMapped
<1>24. Fits("get_id", "out_mmap_tx", {}, {})
  BY DEF Fits, MayHold, MustHold, RxMapped
<1>25. Fits("create_map", "load_prog", {"map_fd"}, {})
  BY DEF Fits, MayHold, MustHold, RxMapped
<1>26. Fits("create_map", "out_mmap_tx", {}, {})
  BY DEF Fits, MayHold, MustHold, RxMapped
<1>27. Fits("load_prog", "set_map", {"prog_fd"}, {})
  BY DEF Fits, MayHold, MustHold, RxMapped
<1>28. Fits("load_prog", "delete_map", {}, {})
  BY DEF Fits, MayHold, MustHold, RxMapped
<1>29. Fits("get_prog", "lookup_map", {"prog_fd"}, {})
  BY DEF Fits, MayHold, MustHold, RxMapped
<1>30. Fits("get_prog", "out_mmap_tx", {}, {})
  BY DEF Fits, MayHold, MustHold, RxMapped
<1>31. Fits("lookup_map", "set_map", {"map_fd"}, {})
  BY DEF Fits, MayHold, MustHold, RxMapped
<1>32. Fits("lookup_map", "out_mmap_tx", {}, {"prog_fd"})
  BY DEF Fits, MayHold, MustHold, RxMapped
<1>33. Fits("set_map", "done", {}, {})
  BY DEF Fits, MayHold, MustHold, RxMapped
<1>34. Fits("set_map", "delete_map", {}, {})
  BY DEF Fits, MayHold, MustHold, RxMapped
<1>35. Fits("delete_map", "out_mmap_tx", {}, {"map_fd", "prog_fd"})
  BY DEF Fits, MayHold, MustHold, RxMapped
<1>36. Fits("out_mmap_tx", "out_mmap_rx", {}, {"tx"})
  BY DEF Fits, MayHold, MustHold, RxMapped
<1>37. Fits("out_mmap_rx", "out_socket", {}, {"rx"})
  BY DEF Fits, MayHold, MustHold, RxMapped
<1>38. Fits("out_socket", "out_alloc", {}, {"fd"})
  BY DEF Fits, MayHold, MustHold, RxMapped
<1> QED
  BY <1>1, <1>2, <1>3, <1>4, <1>5, <1>6, <1>7, <1>8, <1>9, <1>10,
     <1>11, <1>12, <1>13, <1>14, <1>15, <1>16, <1>17, <1>18, <1>19, <1>20,
     <1>21, <1>22, <1>23, <1>24, <1>25, <1>26, <1>27, <1>28, <1>29, <1>30,
     <1>31, <1>32, <1>33, <1>34, <1>35, <1>36, <1>37, <1>38, Zenon

\* A return to the caller, or a step that starts or deletes an object.
LEMMA Others ==
  ASSUME LibTypeOK, LibTypeOK', Complete', Bounded', cur' = "none"
  PROVE  Holdings'
<1>1. cur' \notin Umems \cup Sockets
  BY LibAssumption, Zenon
<1> QED
  BY <1>1, Zenon DEF Holdings, Started

\* Every step keeps Holdings.
LEMMA HoldingsStep ==
  ASSUME LibTypeOK, LibTypeOK', Holdings, Counts, [LibNext]_libVars
  PROVE  Holdings'
<1>a. /\ Umems \cap Sockets = {}
      /\ "none" \notin Umems \cup Sockets
      /\ Complete /\ Bounded /\ Started
  BY LibAssumption DEF Holdings
<1>b. pc = "idle" => cur = "none"
  BY DEF LibTypeOK, UmemCalls, SocketCalls, Counted
<1>1. ASSUME NEW u \in Umems, UmemCreate(u) PROVE Holdings'
  <2>1. /\ pc = "idle" /\ pc' = "socket_umem" /\ cur' = u /\ live' = live /\ xsk' = xsk
        /\ held' = held \cup {<<u, "mem">>} /\ u \notin Sockets /\ u \notin live
    BY <1>a, <1>1 DEF UmemCreate, lib
  <2>2. Complete'
    BY <1>a, <2>1 DEF Complete
  <2>3. Bounded'
    BY <1>a, <1>b, <2>1, Zenon DEF Bounded, MayHold
  <2>4. Started'
    BY <2>1 DEF Started, MustHold, Asked, RxMapped
  <2> QED
    BY <2>2, <2>3, <2>4 DEF Holdings
<1>2. ASSUME NEW u \in Umems, UmemDelete(u) PROVE Holdings'
  <2>1. PICK mapped \in {{}, {<<u, "fill">>, <<u, "comp">>}} :
          held' = held \ (mapped \cup {<<u, "fd">>, <<u, "mem">>})
    BY <1>2 DEF UmemDelete
  <2>2. /\ pc = "idle" /\ pc' = pc /\ cur' = cur /\ live' = live \ {u} /\ xsk' = xsk
        /\ cur' = "none" /\ u \notin Sockets
    BY <1>a, <1>b, <1>2 DEF UmemDelete
  <2>3. \A o \in (Umems \cup Sockets) \ {u} : \A k : <<o, k>> \in held' <=> <<o, k>> \in held
    BY <2>1
  <2>4. <<u, "fd">> \notin held' /\ <<u, "mem">> \notin held'
    BY <2>1
  <2>5. \A k : <<u, k>> \in held' => k \in {"fill", "comp"}
    BY <1>a, <2>1, <2>2 DEF LibTypeOK
  <2>6. Complete'
    BY <1>a, <2>2, <2>3 DEF Complete
  <2>7. Bounded'
    BY <1>a, <1>b, <2>2, <2>3, <2>5, Zenon DEF Bounded, MayHold
  <2> QED
    BY <2>2, <2>6, <2>7, Others
<1>3. CASE UmemSocket
  <2>1. \/ Step("socket_umem", "register", {"fd"}, {})
        \/ Step("socket_umem", "out_umem_alloc", {}, {})
    BY <1>3 DEF UmemSocket, Try, Same, lib, Step
  <2> QED
    BY <2>1, Advance, Labels, Zenon
<1>4. CASE UmemRegister
  <2>1. \/ Step("register", "mmap_fill", {}, {})
        \/ Step("register", "out_umem_socket", {}, {})
    BY <1>4, Zenon DEF UmemRegister, Try, Same, lib, Step
  <2> QED
    BY <2>1, Advance, Labels, Zenon
<1>5. CASE UmemMapFill
  <2>1. \/ Step("mmap_fill", "mmap_comp", {"fill"}, {})
        \/ Step("mmap_fill", "out_umem_socket", {}, {})
    BY <1>5 DEF UmemMapFill, Try, Same, lib, Step
  <2> QED
    BY <2>1, Advance, Labels, Zenon
<1>6. CASE UmemMapComp
  <2>1. pc = "mmap_comp" /\ cur \in Umems \ live /\ cur \notin Sockets
    BY <1>a, <1>6, Zenon DEF UmemMapComp, LibTypeOK, SocketCalls, Counted
  <2>2. CASE pc' = "out_umem_mmap"
    <3>1. Step("mmap_comp", "out_umem_mmap", {}, {})
      BY <1>6, <2>2 DEF UmemMapComp, Return, Step
    <3> QED
      BY <3>1, Advance, Labels, Zenon
  <2>3. CASE pc' # "out_umem_mmap"
    <3>1. /\ held' = held \cup {<<cur, "comp">>} /\ live' = live \cup {cur}
          /\ cur' = "none" /\ xsk' = xsk
      BY <1>6, <2>3 DEF UmemMapComp, Return
    <3>2. \A k \in {"mem", "fd", "fill"} : <<cur, k>> \in held
      BY <1>a, <2>1 DEF Started, MustHold
    <3>3. Complete'
      BY <1>a, <2>1, <3>1, <3>2 DEF Complete
    <3>4. Bounded'
      BY <1>a, <2>1, <3>1, Zenon DEF Bounded
    <3> QED
      BY <3>1, <3>3, <3>4, Others
  <2> QED
    BY <2>2, <2>3, Zenon
<1>7. CASE UmemOutMmap
  <2>1. Step("out_umem_mmap", "out_umem_socket", {}, {})
    BY <1>7, Zenon DEF UmemOutMmap, Release, Same, lib, Step
  <2> QED
    BY <2>1, Advance, Labels
<1>8. CASE UmemOutSocket
  <2>1. Step("out_umem_socket", "out_umem_alloc", {}, {"fd"})
    BY <1>8 DEF UmemOutSocket, Release, Same, lib, Step
  <2> QED
    BY <2>1, Advance, Labels
<1>9. CASE UmemOutAlloc
  <2>1. /\ pc = "out_umem_alloc" /\ held' = held \ {<<cur, "mem">>}
        /\ cur' = "none" /\ live' = live /\ xsk' = xsk
    BY <1>9, Zenon DEF UmemOutAlloc, Return, lib
  <2>2. cur \notin live
    BY <2>1 DEF LibTypeOK
  <2>3. Complete'
    BY <1>a, <2>1, <2>2 DEF Complete
  <2>4. Bounded'
    BY <1>a, <2>1, <2>2, Zenon DEF Bounded, MayHold
  <2> QED
    BY <2>1, <2>3, <2>4, Others
<1>10. ASSUME NEW s \in Sockets, SocketDelete(s) PROVE Holdings'
  <2>1. PICK mapped \in {{}, {<<s, "rx">>, <<s, "tx">>}} :
          held' = held \ (mapped \cup ({s} \X {"map_fd", "prog_fd", "fd", "mem"}))
    BY <1>10, Zenon DEF SocketDelete
  <2>2. /\ pc = "idle" /\ pc' = pc /\ cur' = cur /\ live' = live \ {s}
        /\ cur' = "none" /\ s \notin Umems
    BY <1>a, <1>b, <1>10, Zenon DEF SocketDelete
  <2>3. \A t \in Sockets \ {s} : xsk'[t] = xsk[t]
    BY <1>10 DEF SocketDelete, LibTypeOK
  <2>4. \A o \in (Umems \cup Sockets) \ {s} : \A k : <<o, k>> \in held' <=> <<o, k>> \in held
    BY <2>1
  <2>5. \A k \in {"mem", "fd", "map_fd", "prog_fd"} : <<s, k>> \notin held'
    BY <2>1
  <2>6. Complete'
    BY <1>a, <2>2, <2>3, <2>4 DEF Complete
  <2>7. Bounded'
    BY <1>a, <2>2, <2>4, <2>5, Zenon DEF Bounded, MayHold
  <2> QED
    BY <2>2, <2>6, <2>7, Others, Zenon
<1>11. ASSUME NEW s \in Sockets, NEW u \in Umems, NEW inh \in BOOLEAN, NEW rg \in Rings,
             SocketCreate(s, u, inh, rg)
      PROVE  Holdings'
  <2>1. /\ pc = "idle" /\ pc' \in {"socket", "out_alloc"} /\ cur' = s /\ live' = live
        /\ held' = held \cup {<<s, "mem">>} /\ s \notin Umems /\ s \notin live
    BY <1>a, <1>11, Zenon DEF SocketCreate
  <2>2. \A t \in Sockets \ {s} : xsk'[t] = xsk[t]
    BY <1>11, Zenon DEF SocketCreate, LibTypeOK
  <2>3. Complete'
    BY <1>a, <2>1, <2>2 DEF Complete
  <2>4. Bounded'
    BY <1>a, <1>b, <2>1, Zenon DEF Bounded, MayHold
  <2>5. Started'
    BY <2>1, Zenon DEF Started, MustHold, RxMapped
  <2> QED
    BY <2>3, <2>4, <2>5, Zenon DEF Holdings
<1>12. CASE SocketFd
  <2>1. \/ Step("socket", "configure", {}, {})
        \/ Step("socket", "configure", {"fd"}, {})
        \/ Step("socket", "out_alloc", {}, {})
    BY <1>12 DEF SocketFd, Step
  <2> QED
    BY <2>1, Advance, Labels, Zenon
<1>13. CASE SocketConfigure
  <2>1. \/ Step("configure", "mmap_rx", {}, {})
        \/ Step("configure", "out_socket", {}, {})
    BY <1>13, Zenon DEF SocketConfigure, Try, Same, lib, Step
  <2> QED
    BY <2>1, Advance, Labels, Zenon
<1>14. CASE SocketMapRx
  <2>1. cur \in Sockets /\ Asked = xsk[cur].rings
    BY <1>14, Zenon DEF SocketMapRx, Try, LibTypeOK, UmemCalls, Asked
  <2>2. \/ Step("mmap_rx", "mmap_tx", {"rx"} \cap Asked, {})
        \/ Step("mmap_rx", "out_socket", {}, {})
    BY <1>14, <2>1 DEF SocketMapRx, Try, Same, Mapping, lib, Step
  <2> QED
    BY <2>2, Advance, Labels, Zenon
<1>15. CASE SocketMapTx
  <2>1. cur \in Sockets /\ Asked = xsk[cur].rings
    BY <1>15, Zenon DEF SocketMapTx, Try, LibTypeOK, UmemCalls, Asked
  <2>2. \/ Step("mmap_tx", "bind", {"tx"} \cap Asked, {})
        \/ Step("mmap_tx", "out_mmap_rx", {}, {})
    BY <1>15, <2>1 DEF SocketMapTx, Try, Same, Mapping, lib, Step
  <2> QED
    BY <2>2, Advance, Labels, Zenon
<1>16. CASE SocketBind
  <2>1. \/ Step("bind", "done", {}, {})
        \/ Step("bind", "get_id", {}, {})
        \/ Step("bind", "out_mmap_tx", {}, {})
    BY <1>16, Zenon DEF SocketBind, Try, Same, lib, Step
  <2> QED
    BY <2>1, Advance, Labels, Zenon
<1>17. CASE GetLinkXdpId
  <2>1. \/ Step("get_id", "create_map", {}, {})
        \/ Step("get_id", "get_prog", {}, {})
        \/ Step("get_id", "out_mmap_tx", {}, {})
    BY <1>17, Zenon DEF GetLinkXdpId, SameLib, Step
  <2> QED
    BY <2>1, Advance, Labels, Zenon
<1>18. CASE CreateMap
  <2>1. cur \in Sockets /\ xsk[cur] \in Socket
    BY <1>18, Zenon DEF CreateMap, Try, SameLib, LibTypeOK, UmemCalls
  <2>2. \A t \in Sockets : t \in live \/ t = cur => xsk'[t].rings = xsk[t].rings
    BY <1>18, <2>1, Zenon DEF CreateMap, SetMapOf, Socket, LibTypeOK
  <2>3. \/ Step("create_map", "load_prog", {"map_fd"}, {})
        \/ Step("create_map", "out_mmap_tx", {}, {})
    BY <1>18, <2>2 DEF CreateMap, Try, SameLib, Step
  <2> QED
    BY <2>3, Advance, Labels, Zenon
<1>19. CASE LoadProg
  <2>1. \/ Step("load_prog", "set_map", {"prog_fd"}, {})
        \/ Step("load_prog", "delete_map", {}, {})
    BY <1>19 DEF LoadProg, SameLib, Step
  <2> QED
    BY <2>1, Advance, Labels, Zenon
<1>20. CASE GetProg
  <2>1. \/ Step("get_prog", "lookup_map", {"prog_fd"}, {})
        \/ Step("get_prog", "out_mmap_tx", {}, {})
    BY <1>20 DEF GetProg, Try, Same, lib, Step
  <2> QED
    BY <2>1, Advance, Labels, Zenon
<1>21. CASE LookupMap
  <2>1. cur \in Sockets /\ xsk[cur] \in Socket
    BY <1>21 DEF LookupMap, SameLib, LibTypeOK, UmemCalls
  <2>2. \A t \in Sockets : t \in live \/ t = cur => xsk'[t].rings = xsk[t].rings
    BY <1>21, <2>1 DEF LookupMap, SetMapOf, Socket, LibTypeOK
  <2>3. \/ Step("lookup_map", "set_map", {"map_fd"}, {})
        \/ Step("lookup_map", "out_mmap_tx", {}, {"prog_fd"})
    BY <1>21, <2>2 DEF LookupMap, SameLib, Step
  <2> QED
    BY <2>3, Advance, Labels, Zenon
<1>22. CASE SetMap
  <2>1. \/ Step("set_map", "done", {}, {})
        \/ Step("set_map", "delete_map", {}, {})
    BY <1>22, Zenon DEF SetMap, SameLib, Step
  <2> QED
    BY <2>1, Advance, Labels, Zenon
<1>23. CASE DeleteMap
  <2>1. Step("delete_map", "out_mmap_tx", {}, {"map_fd", "prog_fd"})
    BY <1>23 DEF DeleteMap, Release, SameLib, Step
  <2> QED
    BY <2>1, Advance, Labels, Zenon
<1>24. CASE SocketDone
  <2>1. cur \in Sockets \ live /\ cur \notin Umems /\ xsk[cur].rings \subseteq {"rx", "tx"}
    BY <1>24, <1>a, Zenon DEF SocketDone, LibTypeOK, UmemCalls, Socket, Rings
  <2>2. /\ pc = "done" /\ held' = held /\ xsk' = xsk /\ live' = live \cup {cur} /\ cur' = "none"
    BY <1>24, Zenon DEF SocketDone, Return
  <2>3. \A k \in {"mem"} \cup xsk[cur].rings : <<cur, k>> \in held
    BY <1>a, <2>1, <2>2, Zenon DEF Started, MustHold, Asked, RxMapped
  <2>4. Complete'
    BY <1>a, <2>1, <2>2, <2>3 DEF Complete
  <2>5. Bounded'
    BY <1>a, <2>1, <2>2, Zenon DEF Bounded
  <2> QED
    BY <2>2, <2>4, <2>5, Others, Zenon
<1>25. CASE SocketOutMmapTx
  <2>1. Step("out_mmap_tx", "out_mmap_rx", {}, {"tx"})
    BY <1>25, Zenon DEF SocketOutMmapTx, Release, Same, lib, Step
  <2> QED
    BY <2>1, Advance, Labels
<1>26. CASE SocketOutMmapRx
  <2>1. Step("out_mmap_rx", "out_socket", {}, {"rx"})
    BY <1>26, Zenon DEF SocketOutMmapRx, Release, Same, lib, Step
  <2> QED
    BY <2>1, Advance, Labels, Zenon
<1>27. CASE SocketOutSocket
  <2>1. cur \in Sockets \ live /\ xsk[cur].umem \in Umems
    BY <1>27 DEF SocketOutSocket, LibTypeOK, UmemCalls, Socket
  <2>2. <<cur, "fd">> \notin held'
    <3>1. refcount'[xsk[cur].umem] = refcount[xsk[cur].umem] - 1
      BY <1>27, <2>1, Zenon DEF SocketOutSocket, LibTypeOK
    <3>2. <<cur, "fd">> \in held => refcount'[xsk[cur].umem] > 0
      BY <1>27, <2>1, <3>1, SMTT(30) DEF SocketOutSocket, Counts, Counted, LibTypeOK
    <3> QED
      BY <1>27, <3>2, Zenon DEF SocketOutSocket
  <2>3. /\ pc = "out_socket" /\ pc' = "out_alloc" /\ cur' = cur /\ live' = live /\ xsk' = xsk
        /\ held \ {<<cur, "fd">>} \subseteq held' /\ held' \subseteq held
    BY <1>27 DEF SocketOutSocket
  <2>4. Step("out_socket", "out_alloc", {}, {"fd"})
    BY <2>2, <2>3 DEF Step
  <2> QED
    BY <2>4, Advance, Labels, Zenon
<1>28. CASE SocketOutAlloc
  <2>1. /\ pc = "out_alloc" /\ held' = held \ {<<cur, "mem">>}
        /\ cur' = "none" /\ live' = live
    BY <1>28, Zenon DEF SocketOutAlloc, Return
  <2>2. cur \notin live /\ \A t \in Sockets \ {cur} : xsk'[t] = xsk[t]
    BY <1>28 DEF SocketOutAlloc, LibTypeOK
  <2>3. Complete'
    BY <1>a, <2>1, <2>2 DEF Complete
  <2>4. Bounded'
    BY <1>a, <2>1, <2>2, Zenon DEF Bounded, MayHold
  <2> QED
    BY <2>1, <2>3, <2>4, Others, Zenon
<1>29. CASE OtherProgram
  BY <1>29, Zenon DEF OtherProgram, lib, Holdings, Complete, Bounded, Started, Asked
<1>30. CASE UNCHANGED libVars
  BY <1>30, Zenon DEF libVars, lib, Holdings, Complete, Bounded, Started, Asked
<1> QED
  BY <1>1, <1>2, <1>3, <1>4, <1>5, <1>6, <1>7, <1>8, <1>9, <1>10, <1>11,
     <1>12, <1>13, <1>14, <1>15, <1>16, <1>17, <1>18, <1>19, <1>20, <1>21,
     <1>22, <1>23, <1>24, <1>25, <1>26, <1>27, <1>28, <1>29, <1>30, Zenon DEF
     LibNext, UmemSteps, SocketSteps

-----------------------------------------------------------------------------
(* Reference counts *)

\* There are finitely many sockets on a UMEM, and counting follows each one.
LEMMA CountOne ==
  ASSUME NEW A \in SUBSET Sockets, NEW s \in Sockets \ A
  PROVE  /\ Cardinality(A) \in Nat
         /\ Cardinality(A \cup {s}) = Cardinality(A) + 1
<1>1. IsFiniteSet(A)
  BY LibAssumption, FS_Subset
<1> QED
  BY <1>1, FS_AddElement, FS_CardinalityType, Zenon

\* The number of sockets of a UMEM.
LEMMA CountNat ==
  ASSUME NEW A \in SUBSET Sockets
  PROVE  /\ Cardinality(A) \in Nat
         /\ A # {} => Cardinality(A) > 0
<1>1. IsFiniteSet(A)
  BY LibAssumption, FS_Subset
<1>2. Cardinality(A) \in Nat
  BY <1>1, FS_CardinalityType
<1>3. Cardinality(A) = 0 <=> A = {}
  BY <1>1, FS_EmptySet, Zenon
<1> QED
  BY <1>2, <1>3

\* The reference count follows the sockets on a UMEM; a failing socket() is
\* counted as lost.
LEMMA CountsStep ==
  ASSUME LibTypeOK, LibTypeOK', Holdings, Counts, [LibNext]_libVars
  PROVE  Counts'
<1> USE DEF LibTypeOK, Counts, SocketsOn, lib, hook, UmemCalls, SocketCalls, Counted
<1>a. /\ Umems \cap Sockets = {}
      /\ "none" \notin Umems \cup Sockets
  BY LibAssumption, Zenon
<1>1. ASSUME NEW u \in Umems, UmemCreate(u) PROVE Counts'
  BY <1>1, <1>a DEF UmemCreate
<1>2. ASSUME NEW u \in Umems, UmemDelete(u) PROVE Counts'
  <2>1. /\ pc = "idle" /\ cur = "none" /\ refcount[u] = 0 /\ live' = live \ {u}
        /\ UNCHANGED <<pc, cur, xsk, refcount, lost>>
    BY <1>2, Zenon DEF UmemDelete
  <2>2. \A v \in Umems : SocketsOn(v)' = SocketsOn(v)
    BY <1>a, <2>1
  <2>3. ASSUME NEW s \in Sockets, s \in live' PROVE xsk[s].umem \in live'
    <3>1. s \in SocketsOn(xsk[s].umem) /\ xsk[s].umem \in live
      BY <2>1, <2>3, Zenon
    <3>2. SocketsOn(u) = {}
      <4>1. Cardinality(SocketsOn(u)) \in Nat /\ (SocketsOn(u) # {} => Cardinality(SocketsOn(u)) > 0)
        BY CountNat, Zenon
      <4>2. refcount[u] = Cardinality(SocketsOn(u)) + lost[u] /\ lost[u] \in Nat
        BY Zenon
      <4> QED
        BY <2>1, <4>1, <4>2
    <3> QED
      BY <2>1, <3>1, <3>2, Zenon
  <2> QED
    BY <1>a, <2>1, <2>2, <2>3, Zenon
<1>3. CASE UmemSocket
  BY <1>3, <1>a, SMTT(30) DEF UmemSocket, Try, Same
<1>4. CASE UmemRegister
  BY <1>4, <1>a, SMTT(30) DEF UmemRegister, Try, Same
<1>5. CASE UmemMapFill
  BY <1>5, <1>a DEF UmemMapFill, Try, Same
<1>6. CASE UmemMapComp
  BY <1>6, <1>a DEF UmemMapComp, Return
<1>7. CASE UmemOutMmap
  BY <1>7, <1>a, SMTT(30) DEF UmemOutMmap, Release, Same
<1>8. CASE UmemOutSocket
  BY <1>8, <1>a, SMTT(30) DEF UmemOutSocket, Release, Same
<1>9. CASE UmemOutAlloc
  BY <1>9, <1>a, SMTT(30) DEF UmemOutAlloc, Return
<1>10. ASSUME NEW s \in Sockets, SocketDelete(s) PROVE Counts'
  <2> DEFINE w == xsk[s].umem
  <2>1. /\ pc = "idle" /\ cur = "none" /\ s \in live /\ live' = live \ {s}
        /\ xsk' = [xsk EXCEPT ![s] = NULL] /\ refcount' = [refcount EXCEPT ![w] = @ - 1]
        /\ UNCHANGED <<pc, cur, lost>>
    BY <1>10, Zenon DEF SocketDelete
  <2>2. \A t \in Sockets \ {s} : xsk'[t] = xsk[t]
    BY <2>1
  <2>3. w \in Umems
    BY <2>1, Zenon DEF Socket
  <2>4. ASSUME NEW v \in Umems PROVE refcount'[v] = Cardinality(SocketsOn(v)') + lost'[v]
    <3>1. CASE v = w
      <4>1. SocketsOn(v) = SocketsOn(v)' \cup {s} /\ s \notin SocketsOn(v)'
        BY <2>1, <2>2, <3>1
      <4>2. SocketsOn(v)' \in SUBSET Sockets
        BY Zenon
      <4> HIDE DEF SocketsOn
      <4>3. /\ Cardinality(SocketsOn(v)') \in Nat
            /\ Cardinality(SocketsOn(v)) = Cardinality(SocketsOn(v)') + 1
        BY <4>1, <4>2, CountOne, Zenon
      <4>4. refcount'[v] = refcount[v] - 1 /\ lost'[v] = lost[v] /\ lost[v] \in Nat
        BY <2>1, <2>3, <3>1, Zenon
      <4> QED
        BY <4>3, <4>4, SMTT(30)
    <3>2. CASE v # w
      <4>1. SocketsOn(v)' = SocketsOn(v)
        BY <2>1, <2>2, <3>2, Zenon
      <4> HIDE DEF SocketsOn
      <4> QED
        BY <2>1, <3>2, <4>1, Zenon
    <3> QED
      BY <3>1, <3>2, Zenon
  <2>5. \A t \in Sockets : t \in live' => xsk'[t].umem \in live'
    BY <1>a, <2>1, <2>2, SMTT(30) DEF Socket
  <2> QED
    BY <1>a, <2>1, <2>4, <2>5
<1>11. ASSUME NEW s \in Sockets, NEW u \in Umems, NEW inh \in BOOLEAN, NEW rg \in Rings,
             SocketCreate(s, u, inh, rg)
      PROVE  Counts'
  BY <1>11, <1>a DEF SocketCreate
<1>12. CASE SocketFd
  <2> DEFINE w == xsk[cur].umem
  <2>1. /\ pc = "socket" /\ cur \in Sockets \ live /\ w \in Umems
        /\ refcount' = [refcount EXCEPT ![w] = @ + 1]
        /\ UNCHANGED <<cur, live, xsk>>
    BY <1>12, <1>a, Zenon DEF SocketFd, Socket
  <2>2. \/ refcount[w] = 0 /\ held' = held /\ pc' = "configure" /\ lost' = lost
        \/ refcount[w] > 0 /\ pc' = "configure" /\ lost' = lost
        \/ pc' = "out_alloc" /\ lost' = [lost EXCEPT ![w] = @ + 1]
    BY <1>12, Zenon DEF SocketFd
  <2>3. <<cur, "fd">> \notin held
    BY <2>1, Zenon DEF Holdings, Bounded, MayHold
  <2>4. ASSUME NEW v \in Umems PROVE refcount'[v] = Cardinality(SocketsOn(v)') + lost'[v]
    <3>1. CASE v # w \/ pc' = "out_alloc"
      <4>1. SocketsOn(v)' = SocketsOn(v)
        BY <2>1, <2>2, <3>1, Zenon
      <4>2. refcount[v] = Cardinality(SocketsOn(v)) + lost[v]
        BY Zenon
      <4>3. Cardinality(SocketsOn(v)) \in Nat /\ lost[v] \in Nat
        BY CountNat, Zenon
      <4> HIDE DEF SocketsOn
      <4>4. CASE v # w
        BY <2>1, <2>2, <4>1, <4>2, <4>4, ZenonT(30)
      <4>5. CASE v = w /\ pc' = "out_alloc"
        BY <2>1, <2>2, <4>1, <4>2, <4>3, <4>5, SMTT(30)
      <4> QED
        BY <3>1, <4>4, <4>5, Zenon
    <3>2. CASE v = w /\ pc' = "configure"
      <4>1. SocketsOn(v)' = SocketsOn(v) \cup {cur} /\ cur \notin SocketsOn(v)
        BY <2>1, <3>2
      <4>2. SocketsOn(v) \in SUBSET Sockets
        OBVIOUS
      <4>3. refcount[v] = Cardinality(SocketsOn(v)) + lost[v]
        OBVIOUS
      <4> HIDE DEF SocketsOn
      <4>4. /\ Cardinality(SocketsOn(v)) \in Nat
            /\ Cardinality(SocketsOn(v)') = Cardinality(SocketsOn(v)) + 1
        BY <2>1, <4>1, <4>2, CountOne, Zenon
      <4>5. refcount'[v] = refcount[v] + 1 /\ lost'[v] = lost[v] /\ lost[v] \in Nat
        BY <2>1, <2>2, <3>2, Zenon
      <4> QED
        BY <4>3, <4>4, <4>5, SMTT(30)
    <3> QED
      BY <2>2, <3>1, <3>2, Zenon
  <2>5. \A t \in Sockets : t \in live' \/ t = cur' => xsk'[t].umem \in live'
    BY <2>1, Zenon
  <2>6. pc' = "configure" /\ <<cur, "fd">> \in held' => refcount'[w] > 1
    BY <2>1, <2>2, <2>3, SMTT(30)
  <2> QED
    BY <1>a, <2>1, <2>2, <2>4, <2>5, <2>6, Zenon
<1>13. CASE SocketConfigure
  BY <1>13, <1>a, SMTT(30) DEF SocketConfigure, Try, Same
<1>14. CASE SocketMapRx
  BY <1>14, <1>a, SMTT(30) DEF SocketMapRx, Try, Same, Mapping
<1>15. CASE SocketMapTx
  BY <1>15, <1>a, SMTT(30) DEF SocketMapTx, Try, Same, Mapping
<1>16. CASE SocketBind
  BY <1>16, <1>a, SMTT(30) DEF SocketBind, Try, Same
<1>17. CASE GetLinkXdpId
  BY <1>17, <1>a DEF GetLinkXdpId, SameLib
<1>18. CASE CreateMap
  BY <1>18, <1>a, SMTT(30) DEF CreateMap, Try, SameLib, SetMapOf
<1>19. CASE LoadProg
  BY <1>19, <1>a, SMTT(30) DEF LoadProg, SameLib
<1>20. CASE GetProg
  BY <1>20, <1>a DEF GetProg, Try, Same
<1>21. CASE LookupMap
  <2>1. /\ pc = "lookup_map" /\ cur \in Sockets \ live /\ xsk[cur] \in Socket
        /\ UNCHANGED <<cur, live, refcount, lost>>
    BY <1>21, <1>a, Zenon DEF LookupMap, SameLib
  <2>2. xsk'[cur].umem = xsk[cur].umem /\ \A t \in Sockets \ {cur} : xsk'[t] = xsk[t]
    BY <1>21, <2>1 DEF LookupMap, SetMapOf, Socket
  <2>3. /\ pc' \in {"set_map", "out_mmap_tx"}
        /\ <<cur, "fd">> \in held' => <<cur, "fd">> \in held
    BY <1>21, Zenon DEF LookupMap
  <2>4. \A v \in Umems : SocketsOn(v)' = SocketsOn(v)
    BY <2>1, <2>2, <2>3, ZenonT(30)
  <2> QED
    BY <1>a, <2>1, <2>2, <2>3, <2>4, Zenon
<1>22. CASE SetMap
  BY <1>22, <1>a, SMTT(30) DEF SetMap, SameLib
<1>23. CASE DeleteMap
  BY <1>23, <1>a, SMTT(30) DEF DeleteMap, Release, SameLib
<1>24. CASE SocketDone
  BY <1>24, <1>a, SMTT(30) DEF SocketDone, Return
<1>25. CASE SocketOutMmapTx
  BY <1>25, <1>a, SMTT(30) DEF SocketOutMmapTx, Release, Same
<1>26. CASE SocketOutMmapRx
  BY <1>26, <1>a DEF SocketOutMmapRx, Release, Same
<1>27. CASE SocketOutSocket
  <2> DEFINE w == xsk[cur].umem
  <2>1. /\ pc = "out_socket" /\ pc' = "out_alloc" /\ cur \in Sockets \ live /\ w \in Umems
        /\ refcount' = [refcount EXCEPT ![w] = @ - 1]
        /\ UNCHANGED <<cur, live, xsk, lost>>
    BY <1>27, <1>a, Zenon DEF SocketOutSocket, Socket
  <2>2. ASSUME NEW v \in Umems PROVE refcount'[v] = Cardinality(SocketsOn(v)') + lost'[v]
    <3>1. CASE v = w
      <4>1. SocketsOn(v) = SocketsOn(v)' \cup {cur} /\ cur \notin SocketsOn(v)'
        BY <2>1, <3>1, SMTT(30)
      <4>2. SocketsOn(v)' \in SUBSET Sockets
        BY SMTT(30)
      <4> HIDE DEF SocketsOn
      <4>3. /\ Cardinality(SocketsOn(v)') \in Nat
            /\ Cardinality(SocketsOn(v)) = Cardinality(SocketsOn(v)') + 1
        BY <2>1, <4>1, <4>2, CountOne
      <4>4. refcount'[v] = refcount[v] - 1 /\ lost'[v] = lost[v] /\ lost[v] \in Nat
        BY <2>1, <3>1, Zenon
      <4> QED
        BY <4>3, <4>4, SMTT(30)
    <3>2. CASE v # w
      <4>1. SocketsOn(v)' = SocketsOn(v)
        BY <2>1, <3>2, Zenon
      <4> HIDE DEF SocketsOn
      <4> QED
        BY <2>1, <3>2, <4>1, Zenon
    <3> QED
      BY <3>1, <3>2, Zenon
  <2> QED
    BY <1>a, <2>1, <2>2, Zenon
<1>28. CASE SocketOutAlloc
  BY <1>28, <1>a, SMTT(30) DEF SocketOutAlloc, Return
<1>29. CASE OtherProgram
  BY <1>29, <1>a, SMTT(30) DEF OtherProgram
<1>30. CASE UNCHANGED libVars
  BY <1>30, <1>a DEF libVars
<1> HIDE DEF LibTypeOK, Counts, SocketsOn, lib, hook, UmemCalls, SocketCalls, Counted
<1> QED
  BY <1>1, <1>2, <1>3, <1>4, <1>5, <1>6, <1>7, <1>8, <1>9, <1>10, <1>11,
     <1>12, <1>13, <1>14, <1>15, <1>16, <1>17, <1>18, <1>19, <1>20, <1>21,
     <1>22, <1>23, <1>24, <1>25, <1>26, <1>27, <1>28, <1>29, <1>30, Zenon DEF
     LibNext, UmemSteps, SocketSteps

-----------------------------------------------------------------------------
(* Redirection *)

\* What the set-up read is still so, or the sockets concerned are disturbed.
LEMMA RedirectsStep ==
  ASSUME LibTypeOK, LibTypeOK', Redirects, [LibNext]_libVars
  PROVE  Redirects'
<1>a. /\ Umems \cap Sockets = {} /\ NULL \notin Socket
      /\ {"none", "app", "bare"} \cap (Umems \cup Sockets) = {}
  BY LibAssumption, Zenon
<1>b. /\ pc = "mmap_comp" => cur \notin Sockets
      /\ pc \in {"get_id", "create_map", "load_prog", "get_prog", "lookup_map", "set_map",
                 "delete_map", "done"}
           => cur \in Sockets /\ xsk[cur] \in Socket
      /\ cur \in live => pc = "idle"
  BY <1>a, Zenon DEF LibTypeOK, UmemCalls, SocketCalls, Counted
<1>c. /\ xsk \in [Sockets -> Socket \cup {NULL}]
      /\ entries \in [Programs -> SUBSET Sockets]
      /\ netdev \in Programs \cup {"none"} /\ prog_id \in Programs \cup {"none"}
      /\ \A s \in live \cap Sockets : xsk[s] \in Socket
  BY Zenon DEF LibTypeOK
<1> USE <1>b, <1>c DEF Redirects, Wants, lib, hook
<1>1. ASSUME NEW u \in Umems, UmemCreate(u) PROVE Redirects'
  BY <1>1, <1>a, Zenon DEF UmemCreate
<1>2. ASSUME NEW u \in Umems, UmemDelete(u) PROVE Redirects'
  BY <1>2, <1>a, Zenon DEF UmemDelete
<1>3. CASE UmemSocket
  BY <1>3, <1>a, Zenon DEF UmemSocket, Try, Same
<1>4. CASE UmemRegister
  BY <1>4, <1>a, Zenon DEF UmemRegister, Try, Same
<1>5. CASE UmemMapFill
  BY <1>5, <1>a, Zenon DEF UmemMapFill, Try, Same
<1>6. CASE UmemMapComp
  BY <1>6, <1>a, Zenon DEF UmemMapComp, Return
<1>7. CASE UmemOutMmap
  BY <1>7, <1>a, Zenon DEF UmemOutMmap, Release, Same
<1>8. CASE UmemOutSocket
  BY <1>8, <1>a, Zenon DEF UmemOutSocket, Release, Same
<1>9. CASE UmemOutAlloc
  BY <1>9, <1>a, Zenon DEF UmemOutAlloc, Return
<1>10. ASSUME NEW s \in Sockets, SocketDelete(s) PROVE Redirects'
  BY <1>10, <1>a, Zenon DEF SocketDelete
<1>11. ASSUME NEW s \in Sockets, NEW u \in Umems, NEW inh \in BOOLEAN, NEW rg \in Rings,
             SocketCreate(s, u, inh, rg)
      PROVE  Redirects'
  BY <1>11, <1>a, Zenon DEF SocketCreate
<1>12. CASE SocketFd
  BY <1>12, <1>a, Zenon DEF SocketFd
<1>13. CASE SocketConfigure
  BY <1>13, <1>a, Zenon DEF SocketConfigure, Try, Same
<1>14. CASE SocketMapRx
  BY <1>14, <1>a, Zenon DEF SocketMapRx, Try, Same, Mapping
<1>15. CASE SocketMapTx
  BY <1>15, <1>a, Zenon DEF SocketMapTx, Try, Same, Mapping
<1>16. CASE SocketBind
  BY <1>16, <1>a, Zenon DEF SocketBind, Try, Same
<1>17. CASE GetLinkXdpId
  BY <1>17, <1>a, Zenon DEF GetLinkXdpId, SameLib
<1>18. CASE CreateMap
  BY <1>18, <1>a DEF CreateMap, Try, SameLib, SetMapOf
<1>19. CASE LoadProg
  BY <1>19, <1>a, Zenon DEF LoadProg, SameLib
<1>20. CASE GetProg
  BY <1>20, <1>a, Zenon DEF GetProg, Try, Same
<1>21. CASE LookupMap
  <2>1. /\ pc = "lookup_map" /\ cur \in Sockets \ live /\ xsk[cur] \in Socket
        /\ pc' \in {"set_map", "out_mmap_tx"}
        /\ UNCHANGED <<cur, live, netdev, prog_id, entries, disturbed>>
    BY <1>21, <1>a, Zenon DEF LookupMap, SameLib
  <2>2. \A t \in Sockets \ {cur} : xsk'[t] = xsk[t]
    BY <1>21, <2>1, Zenon DEF LookupMap, SetMapOf
  <2>3. pc' = "set_map" => xsk'[cur].map = prog_id
    BY <1>21, <2>1, SMTT(30) DEF LookupMap, SetMapOf, Socket
  <2> QED
    BY <1>a, <2>1, <2>2, <2>3, Zenon
<1>22. CASE SetMap
  BY <1>22, <1>a, SMTT(30) DEF SetMap, SameLib
<1>23. CASE DeleteMap
  BY <1>23, <1>a DEF DeleteMap, Release, SameLib
<1>24. CASE SocketDone
  BY <1>24, <1>a, Zenon DEF SocketDone, Return
<1>25. CASE SocketOutMmapTx
  BY <1>25, <1>a, Zenon DEF SocketOutMmapTx, Release, Same
<1>26. CASE SocketOutMmapRx
  BY <1>26, <1>a, Zenon DEF SocketOutMmapRx, Release, Same
<1>27. CASE SocketOutSocket
  BY <1>27, <1>a, Zenon DEF SocketOutSocket
<1>28. CASE SocketOutAlloc
  BY <1>28, <1>a, Zenon DEF SocketOutAlloc, Return
<1>29. CASE OtherProgram
  BY <1>29, <1>a, SMTT(30) DEF OtherProgram
<1>30. CASE UNCHANGED libVars
  BY <1>30, <1>a DEF libVars
<1> HIDE <1>b, <1>c DEF Redirects, Wants, lib, hook
<1> QED
  BY <1>1, <1>2, <1>3, <1>4, <1>5, <1>6, <1>7, <1>8, <1>9, <1>10, <1>11,
     <1>12, <1>13, <1>14, <1>15, <1>16, <1>17, <1>18, <1>19, <1>20, <1>21,
     <1>22, <1>23, <1>24, <1>25, <1>26, <1>27, <1>28, <1>29, <1>30, Zenon DEF
     LibNext, UmemSteps, SocketSteps
-----------------------------------------------------------------------------
(* The theorems *)

\* The invariant at the start.
LEMMA InvInit == LibInit => LibInv
<1> SUFFICES ASSUME LibInit PROVE LibInv
  BY Zenon
<1>1. LibTypeOK
  BY DEF LibInit, LibTypeOK, Programs
<1>2. Holdings
  BY LibAssumption, Zenon DEF LibInit, Holdings, Complete, Bounded, Started
<1>3. Counts
  <2>1. ASSUME NEW u \in Umems PROVE refcount[u] = Cardinality(SocketsOn(u)) + lost[u]
    <3>1. SocketsOn(u) = {}
      BY DEF LibInit, SocketsOn, Counted
    <3>2. Cardinality({}) = 0
      BY FS_EmptySet, Zenon
    <3> QED
      BY <3>1, <3>2 DEF LibInit
  <2> QED
    BY <2>1, LibAssumption, Zenon DEF LibInit, Counts
<1>4. Redirects
  BY DEF LibInit, Redirects
<1> QED
  BY <1>1, <1>2, <1>3, <1>4 DEF LibInv

\* Every step keeps the invariant.
LEMMA InvStep == LibInv /\ [LibNext]_libVars => LibInv'
<1> SUFFICES ASSUME LibInv, [LibNext]_libVars PROVE LibInv'
  OBVIOUS
<1>1. LibTypeOK /\ Holdings /\ Counts /\ Redirects
  BY DEF LibInv
<1>2. LibTypeOK'
  BY <1>1, TypeStep, Zenon
<1>3. Holdings' /\ Counts' /\ Redirects'
  BY <1>1, <1>2, HoldingsStep, CountsStep, RedirectsStep, Zenon
<1> QED
  BY <1>2, <1>3 DEF LibInv

\* Members of a product are pairs.
LEMMA PairOf ==
  ASSUME NEW A, NEW B, NEW r \in A \X B
  PROVE  \E a \in A, b \in B : r = <<a, b>>
OBVIOUS

\* For any UMEMs and sockets, whichever calls of xsk_umem__create and
\* xsk_socket__create fail: between two calls of the library every allocation
\* and descriptor belongs to something the caller owns, and what they own is
\* complete.
THEOREM LibLeaksNothing == LibSpec => []NothingLeaked
<1>1. LibInv => NothingLeaked
  <2> SUFFICES ASSUME LibInv, pc = "idle"
               PROVE  Needed \subseteq held /\ \A r \in held \ Mappings : r[1] \in live
    BY Zenon DEF NothingLeaked
  <2> USE DEF LibInv
  <2>0. cur = "none" /\ "none" \notin Umems \cup Sockets
    BY LibAssumption, Zenon DEF LibTypeOK, UmemCalls, SocketCalls, Counted
  <2>1. ASSUME NEW r \in Needed PROVE r \in held
    <3>1. CASE r \in (live \cap Umems) \X {"mem", "fd", "fill", "comp"}
      <4>1. PICK u \in live \cap Umems, k \in {"mem", "fd", "fill", "comp"} : r = <<u, k>>
        BY <3>1, PairOf
      <4> QED
        BY <4>1, Zenon DEF Holdings, Complete
    <3>2. ASSUME NEW s \in live \cap Sockets, r \in {s} \X ({"mem"} \cup xsk[s].rings)
          PROVE  r \in held
      <4>1. PICK K : K = {"mem"} \cup xsk[s].rings
        BY Zenon
      <4>2. PICK O : O = {s}
        BY Zenon
      <4>3. r \in O \X K
        BY <3>2, <4>1, <4>2, Zenon
      <4>4. PICK o \in O, k \in K : r = <<o, k>>
        BY <4>3, PairOf
      <4> QED
        BY <4>1, <4>2, <4>4 DEF Holdings, Complete
    <3> QED
      BY <3>1, <3>2 DEF Needed
  <2>2. ASSUME NEW r \in held \ Mappings PROVE r[1] \in live
    <3>1. PICK o \in Umems \cup Sockets, k \in {"mem", "fd", "map_fd", "prog_fd"} : r = <<o, k>>
      BY <2>2 DEF LibTypeOK, Mappings
    <3>2. o \in live
      BY <2>0, <3>1, Zenon DEF Holdings, Bounded
    <3> QED
      BY <3>1, <3>2, Zenon
  <2> QED
    BY <2>1, <2>2
<1> QED
  BY <1>1, InvInit, InvStep, PTL DEF LibSpec

\* For any UMEMs and sockets and whatever other programs attach and detach:
\* umem->refcount counts the sockets on the UMEM, no UMEM goes away under a
\* socket, and packets reach every live socket while the interface is left
\* alone.
THEOREM LibServesSockets == LibSpec => []SocketsServed
<1>1. LibInv => SocketsServed
  <2> SUFFICES ASSUME LibInv PROVE RefcountExact /\ UmemOutlivesSockets /\ Reachable
    BY DEF SocketsServed
  <2> USE DEF LibInv
  <2>0. Umems \cap Sockets = {} /\ "none" \notin Umems \cup Sockets
    BY LibAssumption, Zenon
  <2>1. RefcountExact
    <3> SUFFICES ASSUME NEW u \in Umems
                 PROVE  refcount[u] = Cardinality(LiveSockets(u)) + lost[u]
                          + (IF pc \in Counted /\ xsk[cur].umem = u THEN 1 ELSE 0)
      BY Zenon DEF RefcountExact
    <3>1. refcount[u] = Cardinality(SocketsOn(u)) + lost[u] /\ lost[u] \in Nat
      BY DEF Counts, LibTypeOK
    <3>2. LiveSockets(u) \in SUBSET Sockets
      BY Zenon DEF LiveSockets
    <3>3. CASE pc \in Counted /\ xsk[cur].umem = u
      <4>1. cur \in Sockets \ live
        BY <3>3, Zenon DEF LibTypeOK, UmemCalls, SocketCalls, Counted
      <4>2. SocketsOn(u) = LiveSockets(u) \cup {cur} /\ cur \in Sockets \ LiveSockets(u)
        BY <3>3, <4>1 DEF SocketsOn, LiveSockets
      <4>3. /\ Cardinality(LiveSockets(u)) \in Nat
            /\ Cardinality(SocketsOn(u)) = Cardinality(LiveSockets(u)) + 1
        BY <3>2, <4>2, CountOne, Zenon
      <4> QED
        BY <3>1, <3>3, <4>3
    <3>4. CASE ~(pc \in Counted /\ xsk[cur].umem = u)
      <4>1. SocketsOn(u) = LiveSockets(u)
        BY <3>4 DEF SocketsOn, LiveSockets
      <4>2. Cardinality(LiveSockets(u)) \in Nat
        BY <3>2, CountNat
      <4> QED
        BY <3>1, <3>4, <4>1, <4>2
    <3> QED
      BY <3>3, <3>4, Zenon
  <2>2. UmemOutlivesSockets
    <3> SUFFICES ASSUME NEW s \in Sockets, s \in live \/ (pc \in Counted /\ cur = s)
                 PROVE  xsk[s].umem \in live /\ <<xsk[s].umem, "fd">> \in held
      BY Zenon DEF UmemOutlivesSockets
    <3>1. xsk[s].umem \in live
      BY Zenon DEF Counts
    <3>2. xsk[s] \in Socket
      BY <2>0, Zenon DEF LibTypeOK, UmemCalls, SocketCalls, Counted
    <3>3. xsk[s].umem \in Umems
      BY <3>2, Zenon DEF Socket
    <3> QED
      BY <3>1, <3>3, Zenon DEF Holdings, Complete
  <2>3. Reachable
    BY Zenon DEF Reachable, Redirects, Wants
  <2> QED
    BY <2>1, <2>2, <2>3
<1> QED
  BY <1>1, InvInit, InvStep, PTL DEF LibSpec

-----------------------------------------------------------------------------
(* The lines never over-report, for packets of any lengths and any number. *)

\* The invariant holds of zeroed counters.
LEMMA StatsInitInv == StatsInit => StatsInv
BY DEF StatsInit, StatsInv, StatsTypeOK, Zero, Counters

\* The switch thread only adds to the counters: what was read of them, or
\* copied, stays a lower bound.
LEMMA CountingKeepsStatsInv ==
  ASSUME StatsInv, stats' \in [Counters -> Nat], \A c \in Counters : stats[c] <= stats'[c],
         batch' \in [left : Nat, rcvd : Nat], UNCHANGED <<previous, read, got, poll, shown>>
  PROVE  StatsInv'
<1>1. StatsTypeOK'
  BY Zenon DEF StatsInv, StatsTypeOK
<1>2. \A c \in Counters : previous[c] \in Nat /\ shown[c] \in Nat /\ stats[c] \in Nat
                          /\ stats'[c] \in Nat /\ read[c] \in Int
  BY Zenon DEF StatsInv, StatsTypeOK
<1>3. got \subseteq Counters
  BY Zenon DEF StatsInv, StatsTypeOK
<1>4. \A c \in Counters : previous[c] <= stats'[c] /\ shown[c] <= stats'[c]
  BY <1>2 DEF StatsInv
<1>5. poll = "print" => \A c \in got : read[c] >= 0 /\ previous[c] + read[c] <= stats'[c]
  BY <1>2, <1>3 DEF StatsInv
<1> QED BY <1>1, <1>4, <1>5, Zenon DEF StatsInv

\* A step of either thread keeps the invariant.
LEMMA StatsNextInv == StatsInv /\ [StatsNext]_statVars => StatsInv'
<1> SUFFICES ASSUME StatsInv, [StatsNext]_statVars PROVE StatsInv'
  OBVIOUS
<1> USE DEF StatsTypeOK
<1>0. \A c \in Counters : previous[c] \in Nat /\ shown[c] \in Nat /\ stats[c] \in Nat /\ read[c] \in Int
  BY Zenon DEF StatsInv
<1>1. CASE PeekBatch
  <2>1. batch' \in [left : Nat, rcvd : Nat]
    BY <1>1, StatsAssumption DEF PeekBatch
  <2> QED BY <1>0, <1>1, <2>1, CountingKeepsStatsInv, Zenon DEF PeekBatch, StatsInv
<1>2. CASE CountPacket
  <2>1. PICK len \in Lens, sent \in BOOLEAN :
          stats' = [c \in Counters |->
                      stats[c] + CASE c = "rx_bytes" -> len
                                   [] c = "tx_bytes" /\ sent -> len
                                   [] c = "tx_packets" /\ sent -> 1
                                   [] OTHER -> 0]
    BY <1>2 DEF CountPacket
  <2>2. stats' \in [Counters -> Nat] /\ \A c \in Counters : stats[c] <= stats'[c]
    BY <1>0, <2>1, StatsAssumption
  <2>3. batch' \in [left : Nat, rcvd : Nat]
    BY <1>2 DEF CountPacket, StatsInv
  <2> QED BY <1>2, <2>2, <2>3, CountingKeepsStatsInv DEF CountPacket
<1>3. CASE CountBatch
  <2>1. stats' \in [Counters -> Nat] /\ \A c \in Counters : stats[c] <= stats'[c]
    BY <1>0, <1>3 DEF CountBatch, StatsInv, Counters
  <2>2. batch' \in [left : Nat, rcvd : Nat]
    BY <1>3, Zenon DEF CountBatch, StatsInv
  <2> QED BY <1>3, <2>1, <2>2, CountingKeepsStatsInv, Zenon DEF CountBatch
<1>4. CASE Wake
  <2>1. got = {} /\ poll = "sleep" /\ poll' = "print"
    BY <1>4, Zenon DEF Wake, StatsInv
  <2> QED BY <1>0, <1>4, <2>1, Zenon DEF Wake, StatsInv
<1>5. ASSUME NEW c \in Counters, ReadCounter(c) PROVE StatsInv'
  <2>1. read'[c] = stats[c] - previous[c] /\ \A d \in Counters \ {c} : read'[d] = read[d]
    BY <1>5, Zenon DEF ReadCounter, StatsInv
  <2>2. stats[c] - previous[c] >= 0
    BY <1>0 DEF StatsInv
  <2>3. \A d \in got' : read'[d] >= 0 /\ previous[d] + read'[d] <= stats[d]
    BY <1>0, <1>5, <2>1, <2>2, SMTT(30) DEF ReadCounter, StatsInv
  <2> QED BY <1>0, <1>5, <2>3 DEF ReadCounter, StatsInv
<1>6. CASE stats_print
  <2>1. \A c \in Counters : shown'[c] \in Nat /\ shown'[c] <= stats[c]
    BY <1>0, <1>6 DEF stats_print, StatsInv
  <2> QED BY <1>6, <2>1, SMTT(30) DEF stats_print, StatsInv, Zero
<1>7. ASSUME NEW c \in Counters, CopyCounter(c) PROVE StatsInv'
  <2>1. previous' \in [Counters -> Nat] /\ \A d \in Counters : previous'[d] <= stats[d]
    BY <1>0, <1>7 DEF CopyCounter, StatsInv
  <2>2. \A d \in got' : shown[d] <= previous'[d]
    BY <1>0, <1>7, Zenon DEF CopyCounter, StatsInv
  <2> QED BY <1>7, <2>1, <2>2, Zenon DEF CopyCounter, StatsInv
<1>8. CASE Copied
  BY <1>8 DEF Copied, StatsInv, Zero
<1>9. CASE UNCHANGED statVars
  BY <1>9, Zenon DEF statVars, StatsInv
<1> QED BY <1>1, <1>2, <1>3, <1>4, <1>5, <1>6, <1>7, <1>8, <1>9, Zenon DEF StatsNext

\* However the two threads interleave, the lines sum to no more than was
\* counted and no difference is negative (stats_poll, handle_receive_packets).
THEOREM StatsHonest == StatsSpec => []NeverOverReported
<1>1. StatsInv => NeverOverReported
  <2> SUFFICES ASSUME StatsInv PROVE NeverOverReported
    BY Zenon
  <2>1. \A c \in Counters : previous[c] \in Nat /\ shown[c] \in Nat /\ stats[c] \in Nat /\ read[c] \in Int
    BY Zenon DEF StatsInv, StatsTypeOK
  <2>2. got \subseteq Counters
    BY Zenon DEF StatsInv, StatsTypeOK
  <2>3. poll = "print" => \A c \in got : read[c] >= 0 /\ shown[c] + read[c] <= stats[c]
    BY <2>1, <2>2 DEF StatsInv
  <2> QED BY <2>3, Zenon DEF StatsInv, NeverOverReported
<1> QED BY <1>1, StatsInitInv, StatsNextInv, PTL DEF StatsSpec

=============================================================================
