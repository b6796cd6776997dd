--------------------------- MODULE XdpToolsProofs ---------------------------
(***************************************************************************)
(* The tools of XdpTools, for any number of processes with any options: a  *)
(* switch is served and cleans up as long as nobody else changes the       *)
(* interface, tools that take turns leave the pinned maps right, and an    *)
(* attach without --force removes no program.                              *)
(***************************************************************************)
EXTENDS XdpRouteProofs

\* The maps a process uses are the ones pinned, up to the k-th.
Agree(p, k) ==
  /\ k > 1 => maps[p]["redirect_params"] = pin["redirect_params"]
  /\ k > 2 => maps[p]["tx_port"] = pin["tx_port"]
  /\ k > 3 => maps[p]["xdp_stats_map"] = pin["xdp_stats_map"]

\* No map is pinned before the k-th one, or from it on.
FreeBefore(k) ==
  (k > 1 => pin["redirect_params"] = none) /\ (k > 2 => pin["tx_port"] = none)
FreeFrom(k) ==
  (k <= 2 => pin["tx_port"] = none) /\ pin["xdp_stats_map"] = none

\* One process at a time works on the pinned maps.
Turns == \A p, q \in Procs : AtWork(p) /\ AtWork(q) => p = q

\* What is pinned is from one object, whoever was killed while pinning or
\* unpinning, and a loader that finds the last name free and pins the first
\* one finds the second one free.
OneObject ==
  /\ \A m, n \in MapNames : pin[m] # none /\ pin[n] # none => pin[m] = pin[n]
  /\ pin["redirect_params"] = none /\ pin["xdp_stats_map"] = none => pin["tx_port"] = none

\* How far a process got on the pinned maps.
Progress(p) ==
  /\ pc[p] = "unpin" => FreeBefore(i[p]) /\ pin["xdp_stats_map"] # none
  /\ pc[p] = "pin" => IF i[p] = 1 THEN pin["xdp_stats_map"] = none
                      ELSE Agree(p, i[p]) /\ FreeFrom(i[p])
  /\ pc[p] = "unpin_back" => i[p] = 1
  /\ Tool(p) = "basic04" /\ cfg[p].reuse /\ pc[p] = "reuse" => Agree(p, i[p])
  /\ Tool(p) = "basic04" /\ cfg[p].reuse /\ pc[p] \in Loading => Agree(p, 4)
  /\ pc[p] = "params" => pin["tx_port"] # none /\ wrote[p] = {pin["tx_port"]}
  /\ Tool(p) = "params" => \E x \in Procs : wrote[p] \subseteq {x}

\* A loader that ended well: its maps are the ones pinned while its program is
\* attached, and it is not once another loader gets to the pinned maps.
Done(p) ==
  Tool(p) = "basic04" /\ pc[p] = "ok" /\ dev[cfg[p].mode] = p =>
    Agree(p, 4) /\ \A q \in Procs : pc[q] \notin Pinning

Pins == ~overlap => Turns /\ OneObject /\ \A p \in Procs : Progress(p) /\ Done(p)

\* A record is one of the map its reader is on, and counters only grow.
Reading(p) ==
  /\ pc[p] \in Polling => rec[p].src = id[p]
  /\ pc[p] = "poll" => rec[p].src = maps[p][StatsMap]
  /\ rec[p].src # none => rec[p].val <= count[rec[p].src]
  /\ shown[p][1].src = shown[p][2].src /\ shown[p][1].val <= shown[p][2].val

Rates == infofail = 0 => \A p \in Procs : Reading(p)

-----------------------------------------------------------------------------
(* The switch *)

\* Whatever another process does to the interface marks p.
LEMMA SetsMarks ==
  ASSUME LinkOK, NEW p \in Procs, Sets(p), NEW q \in Procs, q # p, q \notin touched'
  PROVE  dev' = dev /\ q \notin touched
BY DEF Sets, SetLink, LinkOK

\* A process that moves without touching the interface marks nobody.
LEMMA OthersMark ==
  ASSUME ControlOK, LinkOK, NEW p \in Procs, Moves(p), NEW q \in Procs, q # p, q \notin touched'
  PROVE  dev' = dev /\ q \notin touched
BY LinkChange, SetsMarks

Served(p) == p \notin touched /\ pc[p] = "running" => wrote[p] = {get_xdp_id(cfg[p].mode)}
\* The program a socket's set-up found, or attached, is the one attached.
Aimed(p) == p \notin touched /\ pc[p] = "enter" => id[p] = get_xdp_id(cfg[p].mode)
Left(p) ==
  p \notin touched /\ Tool(p) \in Switches /\ pc[p] = "ok" => dev[cfg[p].mode] = none

\* Another process leaves a switch served or marks it.
LEMMA SwitchOther ==
  ASSUME TypeOK, NEW p \in Procs, Route(p), Moves(p), NEW q \in Procs, q # p,
         Served(q), Aimed(q), Left(q)
  PROVE  Served(q)' /\ Aimed(q)' /\ Left(q)'
<1> SUFFICES ASSUME q \notin touched' PROVE Served(q)' /\ Aimed(q)' /\ Left(q)'
  BY DEF Served, Aimed, Left
<1>1. dev' = dev /\ q \notin touched
  BY OthersMark DEF TypeOK
<1>2. cfg' = cfg /\ pc'[q] = pc[q] /\ wrote'[q] = wrote[q] /\ id'[q] = id[q]
  BY Locals
<1> QED
  BY <1>1, <1>2 DEF Served, Aimed, Left, get_xdp_id, Tool

\* The set-up of a socket finds the program attached ...
LEMMA ConfigureAims == ASSUME TypeOK, NEW p \in Procs, ConfigureSocket(p) PROVE Aimed(p)'
<1>1. cfg' = cfg /\ dev' = dev /\ id'[p] = get_xdp_id(cfg[p].mode)
  BY Zenon DEF ConfigureSocket, kernel, TypeOK, StatsOK
<1> QED
  BY <1>1 DEF Aimed, get_xdp_id

\* ... or attaches libbpf's ...
LEMMA OwnAims ==
  ASSUME TypeOK, NEW p \in Procs, xsk_load_xdp_prog(p), pc'[p] = "enter" PROVE Aimed(p)'
<1> DEFINE m == cfg[p].mode
<1>1. m \in {"skb", "drv"} /\ cfg' = cfg /\ p # none /\ ControlOK
  BY Modes, ToolsAssumption DEF TypeOK, xsk_load_xdp_prog
<1>2. ~Goto(p, "failed")
  BY <1>1, GotoAt
<1>3. SetLinkError(m, p, ~cfg[p].force) = "0" /\ SetLink(p, m, p) /\ id'[p] = p
  BY <1>2, Zenon DEF xsk_load_xdp_prog, TypeOK, StatsOK
<1>4. dev[Other(m)] = none
  BY <1>1, <1>3 DEF SetLinkError
<1>5. dev'[m] = p /\ dev'[Other(m)] = none
  BY <1>1, <1>3, <1>4, SetLinkType DEF TypeOK
<1>6. (get_xdp_id(m))' = p
  BY <1>1, <1>5 DEF get_xdp_id, Other
<1> QED
  BY <1>1, <1>3, <1>6 DEF Aimed

\* ... and enters the socket for that one, if nobody came in between.
LEMMA EnterServes ==
  ASSUME TypeOK, NEW p \in Procs, xsk_set_bpf_maps(p), Aimed(p), pc'[p] = "running" PROVE Served(p)'
<1>1. UNCHANGED <<cfg, dev, touched>> /\ pc[p] = "enter"
  BY Zenon DEF xsk_set_bpf_maps, kernel
<1>2. ~Goto(p, "failed")
  BY GotoAt DEF TypeOK
<1>3. wrote'[p] = {id[p]}
  BY <1>2, Zenon DEF xsk_set_bpf_maps, TypeOK, LinkOK
<1> QED
  BY <1>1, <1>3 DEF Served, Aimed, get_xdp_id

\* ... and detached in its mode at the end.
LEMMA DetachLeaves ==
  ASSUME TypeOK, NEW p \in Procs, Detach(p) \/ GetLinkId(p), pc'[p] = "ok"
  PROVE  dev'[cfg'[p].mode] = none
<1>1. cfg[p].mode \in {"skb", "drv"}
  BY Modes DEF TypeOK
<1>2. CASE Detach(p)
  BY <1>1, <1>2, SetLinkType DEF Detach, TypeOK
<1>3. CASE GetLinkId(p)
  <2>1. get_xdp_id(cfg[p].mode) = none
    BY <1>3, Zenon DEF GetLinkId, Goto, TypeOK, ControlOK
  <2> QED
    BY <1>1, <1>3, <2>1, FoundId DEF GetLinkId, kernel, TypeOK
<1> QED
  BY <1>2, <1>3

\* A switch is served from its set-up on and leaves nothing at its end.
LEMMA SwitchStep ==
  ASSUME TypeOK, NEW p \in Procs, Route(p), Moves(p), Aimed(p)
  PROVE  Served(p)' /\ Aimed(p)' /\ Left(p)'
<1>1. Tool(p)' = Tool(p) /\ Enters(p)
  BY Frames, Goes DEF Tool
<1>2. Served(p)'
  BY <1>1, EnterServes DEF Served, Enters
<1>3. Aimed(p)'
  BY <1>1, ConfigureAims, OwnAims DEF Aimed, Enters
<1>4. Left(p)'
  BY <1>1, DetachLeaves DEF Left, Enters
<1> QED
  BY <1>2, <1>3, <1>4

-----------------------------------------------------------------------------
(* The pinned maps *)

\* The labels of a process at work.
LEMMA AtWorkIs ==
  ASSUME NEW p \in Procs
  PROVE  (AtWork(p) <=> pc[p] \in Working) /\ (AtWork(p)' <=> pc'[p] \in Working)
BY DEF AtWork, Working, Loading, Pinning

\* While one process is at work no other one is.
LEMMA Alone ==
  ASSUME Turns, NEW p \in Procs, NEW q \in Procs, q # p, pc[p] \in Working
  PROVE  pc[q] \notin Working
BY AtWorkIs DEF Turns

\* Taking turns lasts until two overlap.
LEMMA TurnsStep ==
  ASSUME TypeOK, NEW p \in Procs, Route(p), Moves(p), Turns, ~overlap' PROVE Turns'
<1>1. ASSUME NEW q \in Procs, q # p, pc'[p] \in Working PROVE pc'[q] \notin Working
  <2>1. pc'[q] = pc[q]
    BY <1>1, Locals
  <2>2. CASE pc[p] \in Working
    BY <1>1, <2>1, <2>2, Alone
  <2>3. CASE pc[p] = "start" /\ Starts(p)
    <3>1. ~AtWork(q)
      BY <1>1, <2>3, Zenon DEF Starts
    <3> QED
      BY <2>1, <3>1, AtWorkIs
  <2> QED
    BY <1>1, <2>2, <2>3, Goes DEF Enters
<1>2. ASSUME NEW q \in Procs, NEW r \in Procs, q # p, r # p, pc'[q] \in Working, pc'[r] \in Working
      PROVE  q = r
  <2>1. pc'[q] = pc[q] /\ pc'[r] = pc[r]
    BY <1>2, Locals, Zenon
  <2> QED
    BY <1>2, <2>1, Alone
<1> QED
  BY <1>1, <1>2, AtWorkIs, Zenon DEF Turns

\* The pinned maps are changed by a loader that is pinning.
LEMMA PinMoves ==
  ASSUME NEW p \in Procs, Moves(p), pin' # pin
  PROVE  (UnpinMap(p) \/ PinMap(p) \/ UnpinBack(p)) /\ pc[p] \in Pinning /\ pc[p] \in Working
<1>1. UnpinMap(p) \/ PinMap(p) \/ UnpinBack(p)
  BY Frames
<1> QED
  BY <1>1 DEF UnpinMap, PinMap, UnpinBack, Pinning, Working

\* While a process is at work on them, no other one changes them.
LEMMA ProgressOther ==
  ASSUME TypeOK, Turns, NEW p \in Procs, Route(p), Moves(p),
         NEW q \in Procs, q # p, Progress(q)
  PROVE  Progress(q)'
<1>1. /\ cfg' = cfg /\ pc'[q] = pc[q] /\ i'[q] = i[q] /\ maps'[q] = maps[q] /\ wrote'[q] = wrote[q]
      /\ Tool(q)' = Tool(q)
  BY Locals, Zenon DEF Tool
<1>2. CASE pin' = pin
  BY <1>1, <1>2 DEF Progress, FreeBefore, FreeFrom, Agree
<1>3. CASE pin' # pin
  <2>1. pc[q] \notin Working
    BY <1>3, PinMoves, Alone
  <2> QED
    BY <1>1, <2>1 DEF Progress, Working, Loading, Pinning
<1> QED
  BY <1>2, <1>3

\* No process attaches the program of another one.
LEMMA LinkOther ==
  ASSUME ControlOK, LinkOK, NEW p \in Procs, Moves(p), NEW q \in Procs, q # p,
         NEW m \in {"skb", "drv"}, dev'[m] = q
  PROVE  dev[m] = q
<1>1. CASE Sets(p)
  BY <1>1, ToolsAssumption DEF Sets, SetLink, LinkOK
<1> QED
  BY <1>1, LinkChange

\* A loader gets to the pinned maps as the only one attached.
LEMMA AttachedOnly ==
  ASSUME TypeOK, NEW p \in Procs, xdp_link_attach(p) \/ AttachAgain(p), pc'[p] \in Pinning,
         NEW m \in {"skb", "drv"}
  PROVE  dev'[m] \in {p, none}
<1>1. cfg[p].mode \in {"skb", "drv"} /\ p # none /\ ControlOK /\ LinkOK
  BY Modes, ToolsAssumption DEF TypeOK
<1>2. SetLink(p, cfg[p].mode, p) /\ dev[Other(cfg[p].mode)] = none
  <2>1. CASE xdp_link_attach(p)
    BY <1>1, <2>1, GotoAt DEF xdp_link_attach, SetLinkError, Pinning
  <2>2. CASE AttachAgain(p)
    BY <1>1, <2>2, GotoAt DEF AttachAgain, SetLinkError, Pinning
  <2> QED
    BY <2>1, <2>2, Zenon
<1>3. dev'[cfg[p].mode] = p /\ dev'[Other(cfg[p].mode)] = none
  BY <1>1, <1>2, SetLinkType
<1> QED
  BY <1>1, <1>3 DEF Other

\* So whoever is still attached finds its maps pinned as it left them.
LEMMA DoneOther ==
  ASSUME TypeOK, NEW p \in Procs, Route(p), Moves(p), NEW q \in Procs, q # p, Done(q)
  PROVE  Done(q)'
<1>1. /\ cfg' = cfg /\ pc'[q] = pc[q] /\ maps'[q] = maps[q] /\ Tool(q)' = Tool(q)
      /\ cfg[q].mode \in {"skb", "drv"} /\ q # none
  BY Locals, Modes, ToolsAssumption, Zenon DEF Tool, TypeOK
<1> SUFFICES ASSUME Tool(q) = "basic04", pc[q] = "ok", dev'[cfg[q].mode] = q
             PROVE  Agree(q, 4)' /\ \A r \in Procs : pc'[r] \notin Pinning
  BY <1>1 DEF Done
<1>2. dev[cfg[q].mode] = q
  BY <1>1, LinkOther DEF TypeOK
<1>3. Agree(q, 4) /\ \A r \in Procs : pc[r] \notin Pinning
  BY <1>2 DEF Done
<1>4. pin' = pin
  BY <1>3, PinMoves, Zenon
<1>5. pc'[p] \notin Pinning
  <2>1. dev'[cfg[q].mode] \notin {p, none}
    BY <1>1, Zenon
  <2> QED
    BY <1>1, <1>3, <2>1, AttachedOnly, Goes, Zenon DEF Enters
<1>6. \A r \in Procs \ {p} : pc'[r] = pc[r]
  BY Locals
<1> QED
  BY <1>1, <1>3, <1>4, <1>5, <1>6, Zenon DEF Agree

\* The name a loop has reached.
LEMMA NameAt ==
  ASSUME ControlOK, NEW p \in Procs
  PROVE  /\ i[p] \in {1, 2, 3}
         /\ i[p] = 1 => Names[i[p]] = "redirect_params" /\ ParamMaps[i[p]] = "tx_port"
         /\ i[p] = 2 => Names[i[p]] = "tx_port" /\ ParamMaps[i[p]] = "redirect_params"
         /\ i[p] = 3 => Names[i[p]] = "xdp_stats_map"
BY Three DEF ControlOK

\* What one step of the unpinning loop does ...
LEMMA UnpinStep ==
  ASSUME TypeOK, NEW p \in Procs, UnpinMap(p)
  PROVE  \/ pin' = pin /\ pc'[p] = "failed"
         \/ /\ pin' = [pin EXCEPT ![Names[i[p]]] = none]
            /\ \/ i[p] = 3 /\ pc'[p] = "pin" /\ i'[p] = 1
               \/ i[p] # 3 /\ pc'[p] = "unpin" /\ i'[p] = i[p] + 1
<1>1. CASE pin[Names[i[p]]] = none
  BY <1>1, GotoAt, Zenon DEF UnpinMap, TypeOK
<1>2. CASE pin[Names[i[p]]] # none
  BY <1>2, GotoAt, Three, Zenon DEF UnpinMap, Step, TypeOK, ControlOK
<1> QED
  BY <1>1, <1>2, Zenon

\* ... and one of the pinning loop.
LEMMA PinStep ==
  ASSUME TypeOK, NEW p \in Procs, PinMap(p)
  PROVE  \/ pin' = pin /\ pin[Names[i[p]]] # none /\ pc'[p] = "unpin_back" /\ i'[p] = i[p]
         \/ /\ pin' = [pin EXCEPT ![Names[i[p]]] = maps[p][Names[i[p]]]]
            /\ pin[Names[i[p]]] = none
            /\ \/ i[p] = 3 /\ pc'[p] = "ok"
               \/ i[p] # 3 /\ pc'[p] = "pin" /\ i'[p] = i[p] + 1
<1>1. CASE pin[Names[i[p]]] # none
  BY <1>1, Zenon DEF PinMap, TypeOK, ControlOK
<1>2. CASE pin[Names[i[p]]] = none
  BY <1>2, GotoAt, Three DEF PinMap, Step, TypeOK, ControlOK
<1> QED
  BY <1>1, <1>2, Zenon

\* Pinning and unpinning keep what is pinned from one object.
LEMMA ObjectStep ==
  ASSUME TypeOK, NEW p \in Procs, Route(p), Moves(p), OneObject, Progress(p) PROVE OneObject'
<1>t. /\ pin \in [MapNames -> Procs \cup {none}]
      /\ MapNames = {"redirect_params", "tx_port", "xdp_stats_map"}
  BY Three DEF TypeOK, MapsOK
<1>1. CASE pin' = pin
  BY <1>1, Zenon DEF OneObject
<1>2. CASE UnpinMap(p)
  <2>1. FreeBefore(i[p]) /\ pin["xdp_stats_map"] # none
    BY <1>2 DEF UnpinMap, Progress
  <2>2. CASE pin' = [pin EXCEPT ![Names[i[p]]] = none]
    <3>1. CASE i[p] = 1
      BY <1>t, <2>1, <2>2, <3>1, Three DEF OneObject
    <3>2. CASE i[p] = 2
      BY <1>t, <2>1, <2>2, <3>2, Three DEF OneObject
    <3>3. CASE i[p] = 3
      BY <1>t, <2>1, <2>2, <3>3, Three DEF OneObject, FreeBefore
    <3> QED
      BY <3>1, <3>2, <3>3, NameAt DEF TypeOK
  <2> QED
    BY <1>1, <1>2, <2>2, UnpinStep, Zenon
<1>3. CASE PinMap(p)
  <2>1. /\ pc[p] = "pin" /\ maps[p]["redirect_params"] = p /\ maps[p]["tx_port"] = p
        /\ maps[p]["xdp_stats_map"] = p
    BY <1>t, <1>3, Zenon DEF PinMap, Route, Pinning
  <2>2. CASE pin' = [pin EXCEPT ![Names[i[p]]] = maps[p][Names[i[p]]]] /\ pin[Names[i[p]]] = none
    <3>1. CASE i[p] = 1
      <4>1. pin["redirect_params"] = none /\ pin["tx_port"] = none /\ pin["xdp_stats_map"] = none
        BY <2>1, <2>2, <3>1, Three DEF Progress, OneObject
      <4>2. pin'["redirect_params"] = p /\ pin'["tx_port"] = none /\ pin'["xdp_stats_map"] = none
        BY <1>t, <2>1, <2>2, <3>1, <4>1, Three, Zenon
      <4> QED
        BY <1>t, <4>2, ToolsAssumption, Zenon DEF OneObject
    <3>2. CASE i[p] = 2
      <4>1. pin["redirect_params"] = p /\ pin["xdp_stats_map"] = none
        BY <2>1, <3>2 DEF Progress, Agree, FreeFrom
      <4>2. pin'["redirect_params"] = p /\ pin'["tx_port"] = p /\ pin'["xdp_stats_map"] = none
        BY <1>t, <2>1, <2>2, <3>2, <4>1, Three, Zenon
      <4> QED
        BY <1>t, <4>2, ToolsAssumption, Zenon DEF OneObject
    <3>3. CASE i[p] = 3
      <4>1. pin["redirect_params"] = p /\ pin["tx_port"] = p
        BY <2>1, <3>3 DEF Progress, Agree, FreeFrom
      <4>2. pin'["redirect_params"] = p /\ pin'["tx_port"] = p /\ pin'["xdp_stats_map"] = p
        BY <1>t, <2>1, <2>2, <3>3, <4>1, Three, Zenon
      <4> QED
        BY <1>t, <4>2, ToolsAssumption, Zenon DEF OneObject
    <3> QED
      BY <3>1, <3>2, <3>3, NameAt DEF TypeOK
  <2> QED
    BY <1>1, <1>3, <2>2, PinStep, Zenon
<1>4. CASE UnpinBack(p)
  BY <1>1, <1>4 DEF UnpinBack, Progress
<1> QED
  BY <1>1, <1>2, <1>3, <1>4, PinMoves

\* A loader is done with its own maps pinned, or with those it found there.
LEMMA DoneStep ==
  ASSUME TypeOK, NEW p \in Procs, Route(p), Moves(p), Turns, Progress(p) PROVE Done(p)'
<1>1. cfg' = cfg /\ Tool(p)' = Tool(p)
  BY Frames DEF Tool
<1> SUFFICES ASSUME Tool(p) = "basic04", pc'[p] = "ok"
             PROVE  Agree(p, 4)' /\ \A q \in Procs : pc'[q] \notin Pinning
  BY <1>1, Zenon DEF Done
<1>2. PinMap(p) \/ (AttachSteps(p) /\ cfg[p].reuse)
  BY Goes DEF Enters
<1>3. pc[p] \in Working
  BY <1>2, Zenon
     DEF PinMap, AttachSteps, xdp_link_attach, DetachOther, AttachAgain, Working, Loading, Pinning
<1>4. ASSUME NEW q \in Procs PROVE pc'[q] \notin Pinning
  <2>1. CASE q = p
    BY <2>1 DEF Pinning
  <2>2. CASE q # p
    BY <1>3, <2>2, Alone, Locals, Zenon DEF Working
  <2> QED
    BY <2>1, <2>2
<1>5. Agree(p, 4)'
  <2>1. CASE PinMap(p)
    <3>1. /\ pin' = [pin EXCEPT !["xdp_stats_map"] = maps[p]["xdp_stats_map"]] /\ i[p] = 3
          /\ maps' = maps /\ pc[p] = "pin"
      BY <2>1, PinStep, Three DEF PinMap
    <3>2. Agree(p, 3) /\ pin \in [MapNames -> Procs \cup {none}]
      BY <3>1, SMTT(30) DEF Progress, TypeOK, MapsOK
    <3> QED
      BY <3>1, <3>2, Three, SMTT(30) DEF Agree
  <2>2. CASE AttachSteps(p) /\ cfg[p].reuse
    <3>1. pin' = pin /\ maps' = maps /\ pc[p] \in Loading
      BY <2>2, ZenonT(30) DEF AttachSteps, xdp_link_attach, DetachOther, AttachAgain, Loading
    <3> QED
      BY <2>2, <3>1 DEF Progress, Agree
  <2> QED
    BY <1>2, <2>1, <2>2, Zenon
<1> QED
  BY <1>4, <1>5, Zenon

\* A process gets on with the maps as it believes.
LEMMA ProgressStep ==
  ASSUME TypeOK, NEW p \in Procs, Route(p), Moves(p), OneObject, Progress(p) PROVE Progress(p)'
<1>t. /\ pin \in [MapNames -> Procs \cup {none}] /\ maps \in [Procs -> [MapNames -> Procs]]
      /\ MapNames = {"redirect_params", "tx_port", "xdp_stats_map"}
      /\ wrote \in [Procs -> SUBSET Procs] /\ i[p] \in {1, 2, 3} /\ ControlOK
  BY Three, NameAt DEF TypeOK, MapsOK, LinkOK
<1>c. cfg' = cfg /\ Tool(p)' = Tool(p) /\ Enters(p)
  BY Frames, Goes, ZenonT(30) DEF Tool
<1>1. ASSUME pc'[p] = "unpin" PROVE FreeBefore(i[p])' /\ pin'["xdp_stats_map"] # none
  <2>1. CASE Access(p)
    <3>1. pin' = pin /\ i'[p] = 1 /\ pin["xdp_stats_map"] # none
      BY <1>1, <1>t, <2>1, GotoAt, Three DEF Access, kernel
    <3> QED
      BY <3>1 DEF FreeBefore
  <2>2. CASE UnpinMap(p)
    <3>1. /\ pin' = [pin EXCEPT ![Names[i[p]]] = none] /\ i[p] # 3 /\ i'[p] = i[p] + 1
          /\ FreeBefore(i[p]) /\ pin["xdp_stats_map"] # none
      BY <1>1, <2>2, UnpinStep, Zenon DEF UnpinMap, Progress
    <3>2. CASE i[p] = 1
      BY <1>t, <3>1, <3>2, Three DEF FreeBefore
    <3>3. CASE i[p] = 2
      BY <1>t, <3>1, <3>3, Three DEF FreeBefore
    <3> QED
      BY <1>t, <3>1, <3>2, <3>3
  <2> QED
    BY <1>1, <1>c, <2>1, <2>2, Zenon DEF Enters
<1>2. ASSUME pc'[p] = "pin"
      PROVE  IF i'[p] = 1 THEN pin'["xdp_stats_map"] = none ELSE Agree(p, i[p])' /\ FreeFrom(i[p])'
  <2>1. CASE Access(p)
    BY <1>2, <1>t, <2>1, GotoAt, Three, Zenon DEF Access, kernel
  <2>2. CASE UnpinMap(p)
    BY <1>2, <1>t, <2>2, UnpinStep, Three
  <2>3. CASE PinMap(p)
    <3>1. /\ pin' = [pin EXCEPT ![Names[i[p]]] = maps[p][Names[i[p]]]] /\ pin[Names[i[p]]] = none
          /\ i[p] # 3 /\ i'[p] = i[p] + 1 /\ maps' = maps /\ pc[p] = "pin"
      BY <1>2, <2>3, PinStep, Zenon DEF PinMap
    <3>2. CASE i[p] = 1
      <4>1. pin["tx_port"] = none /\ pin["xdp_stats_map"] = none
        BY <3>1, <3>2, Three, Zenon DEF Progress, OneObject
      <4>2. /\ pin'["redirect_params"] = maps[p]["redirect_params"] /\ pin'["tx_port"] = none
            /\ pin'["xdp_stats_map"] = none /\ i'[p] = 2
        BY <1>t, <3>1, <3>2, <4>1, Three, SMTT(30)
      <4> QED
        BY <3>1, <4>2 DEF Agree, FreeFrom
    <3>3. CASE i[p] = 2
      <4>1. pin["redirect_params"] = maps[p]["redirect_params"] /\ pin["xdp_stats_map"] = none
        BY <3>1, <3>3 DEF Progress, Agree, FreeFrom
      <4>2. /\ pin'["redirect_params"] = maps[p]["redirect_params"]
            /\ pin'["tx_port"] = maps[p]["tx_port"] /\ pin'["xdp_stats_map"] = none /\ i'[p] = 3
        BY <1>t, <3>1, <3>3, <4>1, Three
      <4> QED
        BY <3>1, <4>2 DEF Agree, FreeFrom
    <3> QED
      BY <1>t, <3>1, <3>2, <3>3, Zenon
  <2> QED
    BY <1>2, <1>c, <2>1, <2>2, <2>3, ZenonT(30) DEF Enters
<1>3. ASSUME pc'[p] = "unpin_back" PROVE i'[p] = 1
  <2>1. CASE PinMap(p)
    <3>1. pin[Names[i[p]]] # none /\ i'[p] = i[p] /\ pc[p] = "pin"
      BY <1>3, <2>1, PinStep, Zenon DEF PinMap
    <3>2. i[p] # 1 => FreeFrom(i[p])
      BY <3>1, Zenon DEF Progress
    <3> QED
      BY <1>t, <3>1, <3>2, Three DEF FreeFrom
  <2>2. CASE UnpinBack(p)
    BY <1>3, <1>t, <2>2, GotoAt, Zenon DEF UnpinBack, Progress
  <2> QED
    BY <1>3, <1>c, <2>1, <2>2, Zenon DEF Enters
<1>4. ASSUME Tool(p) = "basic04", cfg[p].reuse, ReuseMap(p)
      PROVE  /\ pc'[p] = "reuse" => Agree(p, i[p])'
             /\ pc'[p] \in Loading => Agree(p, 4)'
  <2>1. /\ pin' = pin /\ maps' = [maps EXCEPT ![p][Names[i[p]]] = pin[Names[i[p]]]]
        /\ pc[p] \in {"start", "reuse"}
    BY <1>4, Zenon DEF ReuseMap
  <2>2. Agree(p, i[p])
    BY <1>4, <2>1 DEF Progress, Route, Agree
  <2>3. IF i[p] = 3 THEN pc'[p] = "find_prog" ELSE pc'[p] = "reuse" /\ i'[p] = i[p] + 1
    BY <1>4, <1>t, GotoAt, Three DEF ReuseMap, ControlOK
  <2>4. CASE i[p] = 1
    BY <1>t, <2>1, <2>2, <2>3, <2>4, Three DEF Agree, Loading
  <2>5. CASE i[p] = 2
    BY <1>t, <2>1, <2>2, <2>3, <2>5, Three DEF Agree, Loading
  <2>6. CASE i[p] = 3
    BY <1>t, <2>1, <2>2, <2>3, <2>6, Three DEF Agree, Loading
  <2> QED
    BY <1>t, <2>4, <2>5, <2>6, Zenon
<1>5. ASSUME Tool(p) = "basic04", cfg[p].reuse, pc'[p] \in Loading, pc[p] \in Loading
      PROVE  Agree(p, 4)'
  <2>1. pin' = pin /\ maps' = maps
    BY <1>5, Frames DEF ReuseMap, UnpinMap, PinMap, UnpinBack, Loading
  <2> QED
    BY <1>5, <2>1, Zenon DEF Progress, Agree
<1>6. ASSUME WriteParams(p)
      PROVE  /\ pc'[p] = "params" => pin'["tx_port"] # none /\ wrote'[p] = {pin'["tx_port"]}
             /\ \E x \in Procs : wrote'[p] \subseteq {x}
  <2>1. /\ pin' = pin /\ wrote'[p] = wrote[p] \cup {pin[ParamMaps[i[p]]]}
        /\ pin[ParamMaps[i[p]]] # none
        /\ pc[p] \in {"start", "params"} /\ Tool(p) = "params"
    BY <1>6, <1>t, Zenon DEF WriteParams, kernel
  <2>2. CASE i[p] = 1
    <3>1. pc[p] = "start" /\ wrote[p] = {} /\ ParamMaps[i[p]] = "tx_port"
      BY <2>1, <2>2, Three, Zenon DEF Route
    <3>2. wrote'[p] = {pin["tx_port"]} /\ pin["tx_port"] # none /\ pin["tx_port"] \in Procs
      BY <1>t, <2>1, <3>1, Zenon
    <3> QED
      BY <2>1, <3>2, Zenon
  <2>3. CASE i[p] = 2
    <3>1. pc[p] = "params" /\ ParamMaps[i[p]] = "redirect_params"
      BY <2>1, <2>3, Three, Zenon DEF Route
    <3>2. /\ wrote[p] = {pin["tx_port"]} /\ pin["tx_port"] # none /\ pin["tx_port"] \in Procs
          /\ pin["redirect_params"] = pin["tx_port"]
      BY <1>t, <2>1, <3>1, Zenon DEF Progress, OneObject
    <3>3. pc'[p] = "ok"
      <4>1. Goto(p, "ok")
        BY <1>6, <2>3, Three, Zenon DEF WriteParams
      <4> QED
        BY <1>t, <4>1, GotoAt, Zenon
    <3>4. wrote'[p] = {pin["tx_port"]}
      BY <2>1, <3>1, <3>2, Zenon
    <3> QED
      BY <3>2, <3>3, <3>4, Zenon
  <2> QED
    BY <2>1, <2>2, <2>3, Zenon DEF Route
<1>7. ASSUME Tool(p) = "params" PROVE \E x \in Procs : wrote'[p] \subseteq {x}
  <2>1. CASE WriteParams(p)
    BY <1>6, <2>1, Zenon
  <2>2. CASE ~WriteParams(p)
    <3>1. ~xsk_set_bpf_maps(p)
      BY <1>7 DEF xsk_set_bpf_maps, Route, Switches
    <3>2. wrote' = wrote
      BY <2>2, <3>1, Frames
    <3> QED
      BY <1>7, <3>2, ZenonT(30) DEF Progress
  <2> QED
    BY <2>1, <2>2, Zenon
<1>8. /\ pc'[p] = "params" => pin'["tx_port"] # none /\ wrote'[p] = {pin'["tx_port"]}
      /\ Tool(p) = "basic04" /\ cfg[p].reuse /\ pc'[p] = "reuse" => Agree(p, i[p])'
      /\ Tool(p) = "basic04" /\ cfg[p].reuse /\ pc'[p] \in Loading => Agree(p, 4)'
  BY <1>4, <1>5, <1>6, <1>c, Zenon DEF Enters
<1> QED
  BY <1>1, <1>2, <1>3, <1>7, <1>8, <1>c, Zenon DEF Progress

\* Every step keeps the pinned maps right.
LEMMA PinsStep ==
  ASSUME TypeOK, Routes, Pins, NEW p \in Procs, Moves(p) PROVE Pins'
<1>r. Route(p)
  BY DEF Routes
<1> SUFFICES ASSUME ~overlap'
             PROVE  Turns' /\ OneObject' /\ \A q \in Procs : Progress(q)' /\ Done(q)'
  BY DEF Pins
<1>1. ~overlap
  BY Frames, Zenon DEF Starts
<1>2. Turns /\ OneObject /\ \A q \in Procs : Progress(q) /\ Done(q)
  BY <1>1 DEF Pins
<1>3. Turns' /\ OneObject'
  BY <1>r, <1>2, TurnsStep, ObjectStep
<1>4. ASSUME NEW q \in Procs PROVE Progress(q)' /\ Done(q)'
  <2>1. CASE q = p
    BY <1>r, <1>2, <2>1, ProgressStep, DoneStep, Zenon
  <2>2. CASE q # p
    BY <1>r, <1>2, <2>2, ProgressOther, DoneOther
  <2> QED
    BY <2>1, <2>2
<1> QED
  BY <1>3, <1>4

-----------------------------------------------------------------------------
(* The statistics *)

\* A process that reads no map keeps its records.
LEMMA ReadingKept ==
  ASSUME NEW p \in Procs, Enters(p), Reading(p), UNCHANGED <<count, rec, shown>>,
         ~OpenMap(p), ~CollectOwn(p), ~PollStats(p), ~InfoFails(p)
  PROVE  Reading(p)'
BY Zenon DEF Enters, Reading

\* A reader compares two records of one map.
LEMMA ReadingStep ==
  ASSUME TypeOK, NEW p \in Procs, Route(p), Moves(p), Reading(p), ~InfoFails(p) PROVE Reading(p)'
<1>t. /\ rec \in [Procs -> Record] /\ shown \in [Procs -> Record \X Record]
      /\ id \in [Procs -> Procs \cup {none}]
      /\ count \in [Procs -> Nat] /\ ControlOK /\ none \notin Procs
  BY ToolsAssumption DEF TypeOK, StatsOK
<1>c. count' = count
  BY Frames, Zenon
<1>1. CASE OpenMap(p)
  <2>1. /\ pin[StatsMap] \in Procs /\ pc'[p] = "first_poll" /\ id'[p] = pin[StatsMap]
        /\ shown' = shown
        /\ rec'[p] = [src |-> pin[StatsMap], val |-> count[pin[StatsMap]]]
    BY <1>1, <1>t, GotoAt, Three, Zenon DEF OpenMap, stats_collect, TypeOK, MapsOK
  <2> QED
    BY <1>c, <1>t, <2>1 DEF Reading, Polling
<1>2. CASE CollectOwn(p)
  <2>1. /\ maps[p][StatsMap] \in Procs /\ pc'[p] = "poll" /\ maps' = maps
        /\ rec'[p] = [src |-> maps[p][StatsMap], val |-> count[maps[p][StatsMap]]]
    BY <1>2, <1>t, GotoAt, Three DEF CollectOwn, stats_collect, TypeOK, MapsOK, kernel
  <2>2. \/ shown' = shown
        \/ pc[p] = "poll" /\ shown'[p] = <<rec[p], rec'[p]>>
    BY <1>2, <1>t, Zenon DEF CollectOwn, stats_print
  <2>3. shown'[p][1].src = shown'[p][2].src /\ shown'[p][1].val <= shown'[p][2].val
    BY <1>t, <2>1, <2>2 DEF Reading
  <2> QED
    BY <1>c, <1>t, <2>1, <2>3, SMTT(30) DEF Reading, Polling
<1>3. CASE PollStats(p)
  <2>1. id[p] \in Procs /\ id' = id /\ maps' = maps /\ pc[p] \in Polling
    BY <1>3, <1>t, Zenon DEF PollStats, Route, kernel
  <2>2. CASE pc'[p] = "open" /\ UNCHANGED <<rec, shown>>
    BY <1>c, <2>1, <2>2, Zenon DEF Reading, Polling
  <2>3. CASE /\ pc'[p] = "stats_poll" /\ rec'[p] = [src |-> id[p], val |-> count[id[p]]]
             /\ shown'[p] = <<rec[p], rec'[p]>>
    <3>1. shown'[p][1].src = shown'[p][2].src /\ shown'[p][1].val <= shown'[p][2].val
      BY <1>t, <2>1, <2>3 DEF Reading
    <3> QED
      BY <1>c, <1>t, <2>1, <2>3, <3>1, SMTT(30) DEF Reading, Polling
  <2> QED
    BY <1>3, <1>t, <2>2, <2>3, GotoAt, Zenon DEF PollStats, stats_collect, stats_print
<1>4. CASE ~OpenMap(p) /\ ~CollectOwn(p) /\ ~PollStats(p)
  BY <1>c, <1>4, Frames, Goes, ReadingKept
<1> QED
  BY <1>1, <1>2, <1>3, <1>4

\* Every step keeps the records right.
LEMMA RatesStep == ASSUME TypeOK, Routes, Rates, NEW p \in Procs, Moves(p) PROVE Rates'
<1>r. Route(p)
  BY DEF Routes
<1> SUFFICES ASSUME infofail' = 0, NEW q \in Procs PROVE Reading(q)'
  BY DEF Rates
<1>1. infofail = 0 /\ ~InfoFails(p)
  <2>1. ControlOK /\ LinkOK /\ MapsOK /\ StatsOK /\ infofail \in Nat
    BY DEF TypeOK, StatsOK
  <2>2. infofail' >= infofail
    BY <1>r, <2>1, StatsChange, Zenon
  <2>3. infofail = 0
    BY <2>1, <2>2
  <2> QED
    BY <2>3 DEF InfoFails
<1>2. CASE q = p
  BY <1>r, <1>1, <1>2, ReadingStep DEF Rates
<1>3. CASE q # p
  <2>1. Reading(q) /\ count' = count
    BY <1>1, Frames, Zenon DEF Rates
  <2> QED
    BY <1>r, <1>3, <2>1, Locals, Zenon DEF Reading
<1> QED
  BY <1>2, <1>3

-----------------------------------------------------------------------------
(* The invariant *)

Aims == \A p \in Procs : Aimed(p)

ToolsInv == TypeOK /\ Routes /\ SwitchSound /\ Aims /\ Pins /\ Rates

\* The property, process by process.
LEMMA SwitchSoundIs == SwitchSound <=> \A p \in Procs : Served(p) /\ Left(p)
BY Zenon DEF SwitchSound, SwitchServed, SwitchLeavesNothing, Served, Left, Switches

\* The same after a step.
LEMMA SwitchSoundNext == SwitchSound' <=> \A p \in Procs : Served(p)' /\ Left(p)'
BY DEF SwitchSound, SwitchServed, SwitchLeavesNothing, Served, Left, Switches

\* The invariant at the start.
LEMMA InvInit == Init => ToolsInv
<1> SUFFICES ASSUME Init PROVE ToolsInv
  BY Zenon
<1>n. /\ {Names[k] : k \in DOMAIN Names} = MapNames
      /\ MapNames = {"redirect_params", "tx_port", "xdp_stats_map"}
  BY Three DEF MapNames
<1>1. ControlOK
  <2>1. cfg \in [Procs -> Options] /\ "start" \in Labels /\ 1 \in 1 .. 3
    BY ToolsAssumption DEF Init, Labels
  <2> QED
    BY <2>1, Zenon DEF Init, ControlOK
<1>2. LinkOK
  BY DEF Init, LinkOK
<1>3. MapsOK
  BY <1>n, Zenon DEF Init, MapsOK
<1>4. StatsOK
  <2>1. NoRec \in Record
    BY DEF NoRec, Record
  <2>2. <<NoRec, NoRec>> \in Record \X Record
    BY <2>1, Zenon
  <2> QED
    BY <2>1, <2>2 DEF Init, StatsOK
<1>5. Routes
  <2> SUFFICES ASSUME NEW p \in Procs PROVE Route(p)
    BY Zenon DEF Routes
  <2>1. /\ pc[p] = "start" /\ i[p] = 1 /\ wrote[p] = {} /\ \A n \in MapNames : maps[p][n] = p
    BY <1>n, Zenon DEF Init
  <2> QED
    BY <2>1 DEF Route, Loading, Pinning, Polling
<1>6. SwitchSound /\ Aims
  BY DEF Init, SwitchSound, SwitchServed, SwitchLeavesNothing, Aims, Aimed
<1>7. Pins
  <2>1. /\ pin["redirect_params"] = none /\ pin["tx_port"] = none /\ pin["xdp_stats_map"] = none
        /\ \A n \in MapNames : pin[n] = none
    BY <1>n, Zenon DEF Init
  <2>2. \A p \in Procs : pc[p] = "start" /\ wrote[p] = {}
    BY Zenon DEF Init
  <2>3. Turns /\ OneObject
    BY <2>1, <2>2, AtWorkIs, Zenon DEF Turns, OneObject, Working, Loading, Pinning
  <2>4. \A p \in Procs : Progress(p) /\ Done(p)
    BY <2>2, Zenon DEF Progress, Done, Loading
  <2> QED
    BY <2>3, <2>4 DEF Pins
<1>8. Rates
  <2>1. ASSUME NEW p \in Procs PROVE Reading(p)
    <3>1. /\ pc[p] = "start" /\ shown[p] = <<NoRec, NoRec>>
          /\ rec[p] = NoRec
      BY DEF Init
    <3> QED
      BY <3>1 DEF Reading, NoRec, Polling
  <2> QED
    BY <2>1, Zenon DEF Rates
<1> QED
  BY <1>1, <1>2, <1>3, <1>4, <1>5, <1>6, <1>7, <1>8, Zenon DEF ToolsInv, TypeOK

\* A packet is counted: nothing else changes.
LEMMA InvPacket == ASSUME ToolsInv, Packet PROVE ToolsInv'
<1>u. UNCHANGED <<cfg, pc, i, dev, maps, pin, id, rec, shown, infofail, wrote, touched, overlap>>
  BY Zenon DEF Packet, kernel
<1>1. count' \in [Procs -> Nat] /\ \A c \in Procs : count[c] <= count'[c]
  <2>1. PICK m \in {"skb", "drv"} :
          /\ dev[m] # none
          /\ count' = [count EXCEPT ![maps[dev[m]][StatsMap]] = count[maps[dev[m]][StatsMap]] + 1]
    BY ZenonT(30) DEF Packet
  <2>2. count \in [Procs -> Nat] /\ maps[dev[m]][StatsMap] \in Procs
    BY <2>1, Three DEF ToolsInv, TypeOK, LinkOK, MapsOK, StatsOK
  <2> QED
    BY <2>1, <2>2
<1>2. TypeOK'
  BY <1>1, <1>u, Zenon DEF ToolsInv, TypeOK, ControlOK, LinkOK, MapsOK, StatsOK
<1>3. Routes'
  BY <1>u DEF ToolsInv, Routes, Route, Tool
<1>4. SwitchSound' /\ Aims'
  <2>1. SwitchSound'
    BY <1>u, ZenonT(30) DEF ToolsInv, SwitchSound, SwitchServed, SwitchLeavesNothing, get_xdp_id, Tool
  <2>2. Aims'
    BY <1>u, ZenonT(30) DEF ToolsInv, Aims, Aimed, get_xdp_id
  <2> QED
    BY <2>1, <2>2
<1>5. Pins'
  BY <1>u, ZenonT(30)
     DEF ToolsInv, Pins, Turns, AtWork, OneObject, Progress, Done, Agree, FreeBefore, FreeFrom, Tool
<1>6. Rates'
  <2> SUFFICES ASSUME infofail = 0, NEW p \in Procs PROVE Reading(p)'
    BY <1>u DEF Rates
  <2>1. Reading(p) /\ rec[p] \in Record /\ count \in [Procs -> Nat]
    BY DEF ToolsInv, Rates, TypeOK, StatsOK
  <2>2. rec[p].src # none => rec[p].val <= count'[rec[p].src]
    BY <1>1, <2>1 DEF Reading, Record
  <2> QED
    BY <1>u, <2>1, <2>2, Zenon DEF Reading
<1> QED
  BY <1>2, <1>3, <1>4, <1>5, <1>6 DEF ToolsInv

\* A step of a process keeps the invariant.
LEMMA InvMoves == ASSUME ToolsInv, NEW p \in Procs, Moves(p) PROVE ToolsInv'
<1>i. TypeOK /\ Routes /\ SwitchSound /\ Aims /\ Pins /\ Rates /\ Route(p)
  BY DEF ToolsInv, Routes
<1>1. TypeOK'
  BY <1>i, ControlStep, LinkStep, MapsStep, StatsStep DEF TypeOK
<1>2. Routes'
  <2> SUFFICES ASSUME NEW q \in Procs PROVE Route(q)'
    BY DEF Routes
  <2>1. CASE q = p
    BY <1>i, <2>1, Goes
  <2>2. CASE q # p
    BY <1>i, <2>2, RouteOther DEF Routes
  <2> QED
    BY <2>1, <2>2
<1>3. SwitchSound' /\ Aims'
  <2> SUFFICES ASSUME NEW q \in Procs PROVE Served(q)' /\ Aimed(q)' /\ Left(q)'
    BY SwitchSoundNext DEF Aims
  <2>1. CASE q = p
    BY <1>i, <2>1, SwitchStep DEF Aims
  <2>2. CASE q # p
    BY <1>i, <2>2, SwitchOther, SwitchSoundIs DEF Aims
  <2> QED
    BY <2>1, <2>2
<1>4. Pins' /\ Rates'
  BY <1>i, PinsStep, RatesStep
<1> QED
  BY <1>1, <1>2, <1>3, <1>4 DEF ToolsInv

\* Every step keeps the invariant.
LEMMA InvStep == ToolsInv /\ [Next]_vars => ToolsInv'
<1> SUFFICES ASSUME ToolsInv, [Next]_vars PROVE ToolsInv'
  OBVIOUS
<1>1. CASE Packet
  BY <1>1, InvPacket
<1>2. ASSUME NEW p \in Procs, Moves(p) PROVE ToolsInv'
  BY <1>2, InvMoves
<1>3. CASE UNCHANGED vars
  <2>u. UNCHANGED <<cfg, pc, i, dev, maps, pin, count, id, rec, shown, infofail, wrote, touched,
                    overlap>>
    BY <1>3 DEF vars, kernel, stats
  <2>1. TypeOK' /\ Routes'
    <3>1. ControlOK' /\ LinkOK'
      BY <2>u, Zenon DEF ToolsInv, TypeOK, ControlOK, LinkOK
    <3>2. MapsOK' /\ StatsOK'
      BY <2>u, Zenon DEF ToolsInv, TypeOK, MapsOK, StatsOK
    <3>3. Routes'
      BY <2>u, ZenonT(30) DEF ToolsInv, Routes, Route, Tool
    <3> QED
      BY <3>1, <3>2, <3>3 DEF TypeOK
  <2>2. SwitchSound' /\ Aims'
    <3>1. SwitchSound'
      BY <2>u DEF ToolsInv, SwitchSound, SwitchServed, SwitchLeavesNothing, get_xdp_id, Tool
    <3>2. Aims'
      BY <2>u DEF ToolsInv, Aims, Aimed, get_xdp_id
    <3> QED
      BY <3>1, <3>2
  <2>3. Pins'
    BY <2>u, ZenonT(30)
       DEF ToolsInv, Pins, Turns, AtWork, OneObject, Progress, Done, Agree, FreeBefore, FreeFrom, Tool
  <2>4. Rates'
    BY <2>u, Zenon DEF ToolsInv, Rates, Reading
  <2> QED
    BY <2>1, <2>2, <2>3, <2>4, Zenon DEF ToolsInv
<1> QED
  BY <1>1, <1>2, <1>3 DEF Next, Moves

-----------------------------------------------------------------------------
\* For any number of processes, whatever tools they are and wherever they are
\* killed: a running switch is served by the program attached, and one that
\* ended has detached it, unless another process changed the interface since
\* the switch's socket was set up for the program it found there.
THEOREM SwitchStaysSound == Spec => []SwitchSound
<1>1. ToolsInv => SwitchSound
  BY DEF ToolsInv
<1> QED
  BY <1>1, InvInit, InvStep, PTL DEF Spec

\* For any number of processes: tools that take turns leave the maps of the
\* program attached pinned and write their parameters into one object's, and
\* xdp_stats subtracts only readings of one map.
THEOREM PinsStayRight == Spec => []PinsRight
<1>1. ToolsInv => PinsRight
  <2> SUFFICES ASSUME ToolsInv PROVE PinsOfAttached /\ RatesOfOneMap
    BY DEF PinsRight
  <2>t. /\ pin \in [MapNames -> Procs \cup {none}]
        /\ MapNames = {"redirect_params", "tx_port", "xdp_stats_map"}
    BY Three DEF ToolsInv, TypeOK, MapsOK
  <2>1. ASSUME ~overlap, NEW p \in Procs, Tool(p) = "basic04", pc[p] = "ok", dev[cfg[p].mode] = p
        PROVE  \A n \in DOMAIN pin : pin[n] = maps[p][n]
    <3>1. Agree(p, 4)
      BY <2>1, Zenon DEF ToolsInv, Pins, Done
    <3> QED
      BY <2>t, <3>1 DEF Agree
  <2>2. ASSUME ~overlap, NEW p \in Procs, Tool(p) = "params" PROVE \A x, y \in wrote[p] : x = y
    BY <2>2, Zenon DEF ToolsInv, Pins, Progress
  <2>3. RatesOfOneMap
    BY Zenon DEF ToolsInv, Rates, Reading, RatesOfOneMap
  <2> QED
    BY <2>1, <2>2, <2>3 DEF PinsOfAttached
<1> QED
  BY <1>1, InvInit, InvStep, PTL DEF Spec

\* For any number of processes: an attach without --force, the loaders' or
\* libbpf's for the switch, removes no program, at whichever of its steps the
\* others come in between.
THEOREM AttachesKeepOthers == Spec => AttachKeepsOthers
<1> DEFINE Keeps == \A p \in Procs, m \in {"skb", "drv"} :
             pc[p] \in {"attach", "detach_other", "attach_again", "own_prog"} /\ ~cfg[p].force /\ pc'[p] # pc[p]
               => dev[m] \in {none, dev'[m]}
<1>1. ToolsInv /\ [Next]_vars => [Keeps]_vars
  <2> SUFFICES ASSUME ToolsInv, Next, NEW p \in Procs, NEW m \in {"skb", "drv"},
                      pc[p] \in {"attach", "detach_other", "attach_again", "own_prog"}, ~cfg[p].force,
                      pc'[p] # pc[p]
               PROVE  dev[m] \in {none, dev'[m]}
    BY Zenon
  <2>i. TypeOK /\ ControlOK /\ LinkOK /\ \A q \in Procs : Route(q)
    BY Zenon DEF ToolsInv, Routes, TypeOK
  <2>1. Moves(p)
    <3>1. ~Packet
      BY Zenon DEF Packet
    <3>2. PICK q \in Procs : Moves(q)
      BY <3>1, Zenon DEF Next, Moves
    <3> QED
      BY <2>i, <3>2, Locals, Zenon
  <2>2. pc[p] \in {"attach", "own_prog"}
    BY <2>i DEF Route
  <2>3. dev' = dev \/ xdp_link_attach(p) \/ xsk_load_xdp_prog(p)
    BY <2>1, <2>2, Frames, ZenonT(30)
       DEF AttachSteps, DetachOther, AttachAgain, Detach, DetachSimple, ConfigureSocket, kernel
  <2>4. CASE xdp_link_attach(p) \/ xsk_load_xdp_prog(p)
    <3>1. cfg[p].mode \in {"skb", "drv"} /\ p # none
      BY <2>i, Modes, ToolsAssumption, Zenon
    <3>2. CASE SetLinkError(cfg[p].mode, p, ~cfg[p].force) = "0"
      BY <3>1, <3>2 DEF SetLinkError, Other
    <3>3. CASE SetLinkError(cfg[p].mode, p, ~cfg[p].force) # "0"
      BY <2>4, <3>3, Zenon DEF xdp_link_attach, xsk_load_xdp_prog
    <3> QED
      BY <3>2, <3>3, Zenon
  <2> QED
    BY <2>3, <2>4, Zenon
<1> QED
  BY <1>1, InvInit, InvStep, PTL DEF Spec, AttachKeepsOthers

=============================================================================
