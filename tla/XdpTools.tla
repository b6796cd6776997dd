------------------------------ MODULE XdpTools ------------------------------
(***************************************************************************)
(* The command-line tools of the repository, run by several people at once *)
(* on one interface and one pin directory: the loaders of basic01 to       *)
(* basic04 and their --unload, the switch, xdp_stats and the tool that     *)
(* fills the redirect maps.  Each system call that others can see is a     *)
(* step, and a process may be killed, or exit on an error, at any of them. *)
(*                                                                         *)
(* A process stands for the program it loads and for the maps made with    *)
(* it, so the kernel's map ids are processes too.                          *)
(***************************************************************************)
EXTENDS Naturals, Sequences

CONSTANTS
  Procs, none,
  Configs,      \* tool and options of each process: a set of functions
  MaxPackets,   \* most packets one map counts
  MaxInfoFail   \* most failures of bpf_obj_get_info_by_fd in xdp_stats

\* The maps of an object, in the order libbpf goes through them.
Names == <<"redirect_params", "tx_port", "xdp_stats_map">>
StatsMap == "xdp_stats_map"
\* The maps the parameter tool opens, in its order.
ParamMaps == <<"tx_port", "redirect_params">>

Loaders == {"basic01", "basic02", "basic03", "basic04", "switch"}
Tools == Loaders \cup {"unload", "unload01", "switch_default", "params", "stats"}
Options == [tool : Tools, mode : {"skb", "drv"}, force : BOOLEAN, reuse : BOOLEAN]

ASSUME ToolsAssumption ==
  none \notin Procs /\ Configs \subseteq [Procs -> Options] /\ MaxPackets \in Nat

VARIABLES
  cfg,      \* tool, mode, force and reuse_maps of each process
  pc,       \* the call each process has reached
  i,        \* the map a loop over the object's maps has reached
  dev,      \* the program attached in each mode
  maps,     \* the map each program uses under each name
  pin,      \* the map pinned under each name
  count,    \* packets each map has counted
  id,       \* the map id xdp_stats, the program id a switch remembers
  rec,      \* the last record xdp_stats collected
  shown,    \* the two records xdp_stats compared last
  wrote,    \* the maps the parameter tool, or a switch's socket, was put in
  infofail,
  touched,  \* processes after whose attach another one changed the interface
  overlap   \* two processes were at work on the pinned maps at once

kernel == <<dev, maps, pin>>
stats == <<count, id, rec, shown, infofail>>
vars == <<cfg, pc, i, kernel, stats, wrote, touched, overlap>>

NoRec == [src |-> none, val |-> 0]

Init ==
  /\ cfg \in Configs
  /\ pc = [p \in Procs |-> "start"] /\ i = [p \in Procs |-> 1]
  /\ dev = [skb |-> none, drv |-> none]
  /\ maps = [p \in Procs |-> [n \in {Names[k] : k \in DOMAIN Names} |-> p]]
  /\ pin = [n \in {Names[k] : k \in DOMAIN Names} |-> none]
  /\ count = [p \in Procs |-> 0] /\ id = [p \in Procs |-> none]
  /\ rec = [p \in Procs |-> NoRec] /\ shown = [p \in Procs |-> <<NoRec, NoRec>>]
  /\ wrote = [p \in Procs |-> {}]
  /\ infofail = 0 /\ touched = {} /\ overlap = FALSE

Tool(p) == cfg[p].tool
Goto(p, l) == pc' = [pc EXCEPT ![p] = l] /\ i' = [i EXCEPT ![p] = 1]
Ended == {"ok", "failed", "killed"}

\* A loader until its maps are pinned, and the parameter tool between its maps.
AtWork(p) ==
  pc[p] \in {"reuse", "find_prog", "attach", "detach_other", "attach_again",
            "access", "unpin", "pin", "unpin_back", "params"}

-----------------------------------------------------------------------------
(* The interface: bpf_set_link_xdp_fd and bpf_get_link_xdp_id *)

Other(mode) == IF mode = "skb" THEN "drv" ELSE "skb"

\* The kernel's answer to RTM_SETLINK: one mode at a time, and no replacement
\* with XDP_FLAGS_UPDATE_IF_NOEXIST.
SetLinkError(mode, prog, noexist) ==
  IF prog = none THEN "0"
  ELSE IF dev[Other(mode)] # none THEN "EEXIST"
  ELSE IF noexist /\ dev[mode] # none THEN "EBUSY" ELSE "0"

SetLink(p, mode, prog) ==
  /\ dev' = [dev EXCEPT ![mode] = prog]
  /\ touched' = IF dev' = dev THEN touched
                ELSE (touched \cup (Procs \ {p})) \ (IF prog = p THEN {p} ELSE {})

\* get_xdp_id: one attached program is found whatever mode is asked for.
get_xdp_id(mode) ==
  IF dev.skb # none /\ dev.drv # none THEN dev[mode]
  ELSE IF dev.skb # none THEN dev.skb ELSE dev.drv

-----------------------------------------------------------------------------
(* load_bpf_and_xdp_attach *)

Starts(p) == overlap' = (overlap \/ \E q \in Procs \ {p} : AtWork(q))

\* load_bpf_object_file: maps of its own.
LoadObject(p) ==
  /\ pc[p] = "start" /\ Tool(p) \in Loaders \ {"basic01", "basic02"} /\ ~cfg[p].reuse
  /\ Starts(p) /\ Goto(p, "find_prog")
  /\ UNCHANGED <<cfg, kernel, stats, wrote, touched>>

\* basic01 takes the object's first program, if it can be loaded.
load_bpf_object_file__simple(p) ==
  /\ pc[p] = "start" /\ Tool(p) = "basic01"
  /\ \E l \in {"attach", "failed"} : Goto(p, l)
  /\ Starts(p)
  /\ UNCHANGED <<cfg, kernel, stats, wrote, touched>>

\* basic02 loads every program of the object ...
__load_bpf_object_file(p) ==
  /\ pc[p] = "start" /\ Tool(p) = "basic02"
  /\ \E l \in {"find_prog", "failed"} : Goto(p, l)
  /\ Starts(p)
  /\ UNCHANGED <<cfg, kernel, stats, wrote, touched>>

\* ... and attaches the one whose section has the name asked for.
__load_bpf_and_xdp_attach(p) ==
  /\ pc[p] = "find_prog" /\ Tool(p) = "basic02"
  /\ \E l \in {"attach", "failed"} : Goto(p, l)
  /\ UNCHANGED <<cfg, kernel, stats, wrote, touched, overlap>>

\* reuse_maps: each map is replaced by the one pinned under its name.
ReuseMap(p) ==
  /\ pc[p] \in {"start", "reuse"} /\ Tool(p) \in Loaders /\ cfg[p].reuse
  /\ IF pc[p] = "start" THEN Starts(p) ELSE overlap' = overlap
  /\ LET n == Names[i[p]] IN
     /\ pin[n] # none
     /\ maps' = [maps EXCEPT ![p][n] = pin[n]]
     /\ IF i[p] = Len(Names) THEN Goto(p, "find_prog")
        ELSE pc' = [pc EXCEPT ![p] = "reuse"] /\ i' = [i EXCEPT ![p] = @ + 1]
  /\ UNCHANGED <<cfg, dev, pin, stats, wrote, touched>>

\* The program of the section asked for, or the first one; without it, or
\* without its descriptor, exit(EXIT_FAIL_BPF).
load_bpf_and_xdp_attach(p) ==
  /\ pc[p] = "find_prog" /\ Tool(p) # "basic02"
  /\ \E l \in {"attach", "failed"} : Goto(p, l)
  /\ UNCHANGED <<cfg, kernel, stats, wrote, touched, overlap>>

Attached(p) ==
  CASE Tool(p) = "basic04" /\ ~cfg[p].reuse -> "access"
    [] Tool(p) = "basic03" -> "find_map"
    [] Tool(p) = "basic01" -> "prog_info"
    [] Tool(p) = "switch" -> "socket"
    [] OTHER -> "ok"

\* Mutant: the other mode is cleared without --force as well.
xdp_link_attach_Always(p) ==
  /\ pc[p] = "attach"
  /\ LET e == SetLinkError(cfg[p].mode, p, ~cfg[p].force) IN
     \/ e = "0" /\ SetLink(p, cfg[p].mode, p) /\ Goto(p, Attached(p))
     \/ e = "EEXIST" /\ Goto(p, "detach_other") /\ UNCHANGED <<dev, touched>>
     \/ e = "EBUSY" /\ Goto(p, "failed") /\ UNCHANGED <<dev, touched>>
  /\ UNCHANGED <<cfg, maps, pin, stats, wrote, overlap>>

xdp_link_attach(p) ==
  /\ pc[p] = "attach"
  /\ LET e == SetLinkError(cfg[p].mode, p, ~cfg[p].force) IN
     \/ e = "0" /\ SetLink(p, cfg[p].mode, p) /\ Goto(p, Attached(p))
     \/ e = "EEXIST" /\ cfg[p].force /\ Goto(p, "detach_other") /\ UNCHANGED <<dev, touched>>
     \/ e # "0" /\ ~(e = "EEXIST" /\ cfg[p].force) /\ Goto(p, "failed") /\ UNCHANGED <<dev, touched>>
  /\ UNCHANGED <<cfg, maps, pin, stats, wrote, overlap>>

\* A program of the other mode is removed and the attach tried once more.
DetachOther(p) ==
  /\ pc[p] = "detach_other"
  /\ SetLink(p, Other(cfg[p].mode), none) /\ Goto(p, "attach_again")
  /\ UNCHANGED <<cfg, maps, pin, stats, wrote, overlap>>

AttachAgain(p) ==
  /\ pc[p] = "attach_again"
  /\ IF SetLinkError(cfg[p].mode, p, FALSE) = "0"
     THEN SetLink(p, cfg[p].mode, p) /\ Goto(p, Attached(p))
     ELSE Goto(p, "failed") /\ UNCHANGED <<dev, touched>>
  /\ UNCHANGED <<cfg, maps, pin, stats, wrote, overlap>>

\* basic01 has a copy of these.
AttachSteps(p) == xdp_link_attach(p) \/ DetachOther(p) \/ AttachAgain(p)
CommonAttach(p) == Tool(p) # "basic01" /\ AttachSteps(p)
SimpleAttach(p) == Tool(p) = "basic01" /\ AttachSteps(p)

-----------------------------------------------------------------------------
(* xdp_link_detach, for --unload and the clean-up of the others *)

\* No program, nothing to do.
GetLinkId(p) ==
  /\ \/ pc[p] = "get_id"
     \/ pc[p] = "start" /\ Tool(p) = "unload"
  /\ Goto(p, IF get_xdp_id(cfg[p].mode) = none THEN "ok" ELSE "detach")
  /\ UNCHANGED <<cfg, kernel, stats, wrote, touched, overlap>>

\* Mutant: the mode the process was started with is forgotten.
Detach_OtherMode(p) ==
  /\ pc[p] = "detach"
  /\ SetLink(p, Other(cfg[p].mode), none) /\ Goto(p, "ok")
  /\ UNCHANGED <<cfg, maps, pin, stats, wrote, overlap>>

\* Whatever is attached in this mode by now is removed: no expected id.
Detach(p) ==
  /\ pc[p] = "detach"
  /\ SetLink(p, cfg[p].mode, none) /\ Goto(p, "ok")
  /\ UNCHANGED <<cfg, maps, pin, stats, wrote, overlap>>

\* basic01's own xdp_link_detach asks for no id.
DetachSimple(p) ==
  /\ pc[p] = "start" /\ Tool(p) = "unload01"
  /\ SetLink(p, cfg[p].mode, none) /\ Goto(p, "ok")
  /\ UNCHANGED <<cfg, maps, pin, stats, wrote, overlap>>

\* basic01: a failing query ends it with an error; the program stays.
GetProgInfo(p) ==
  /\ pc[p] = "prog_info"
  /\ \E l \in {"ok", "failed"} : Goto(p, l)
  /\ UNCHANGED <<cfg, kernel, stats, wrote, touched, overlap>>

\* basic03: without the map the program is detached again.
find_map_fd(p) ==
  /\ pc[p] = "find_map"
  /\ \E l \in {"check_info", "get_id"} : Goto(p, l)
  /\ UNCHANGED <<cfg, kernel, stats, wrote, touched, overlap>>

\* With a map of another shape it is not.
__check_map_fd_info(p) ==
  /\ pc[p] = "check_info"
  /\ \E l \in {"own_first", "failed"} : Goto(p, l)
  /\ UNCHANGED <<cfg, kernel, stats, wrote, touched, overlap>>

-----------------------------------------------------------------------------
(* basic04: pin_maps_in_bpf_object *)

Access(p) ==
  /\ pc[p] = "access"
  /\ Goto(p, IF pin[StatsMap] # none THEN "unpin" ELSE "pin")
  /\ UNCHANGED <<cfg, kernel, stats, wrote, touched, overlap>>

Step(p, last) ==
  IF i[p] = Len(Names) THEN Goto(p, last) ELSE pc' = pc /\ i' = [i EXCEPT ![p] = @ + 1]

\* Mutant: what a previous loader pinned is kept.
UnpinMap_Keeps(p) ==
  /\ pc[p] = "unpin" /\ Goto(p, "ok")
  /\ UNCHANGED <<cfg, dev, maps, pin, stats, wrote, touched, overlap>>

\* bpf_object__unpin_maps stops at the first map that is not pinned.
UnpinMap(p) ==
  /\ pc[p] = "unpin"
  /\ LET n == Names[i[p]] IN
     \/ pin[n] # none /\ pin' = [pin EXCEPT ![n] = none] /\ Step(p, "pin")
     \/ pin[n] = none /\ pin' = pin /\ Goto(p, "failed")
  /\ UNCHANGED <<cfg, dev, maps, stats, wrote, touched, overlap>>

\* bpf_object__pin_maps; a name that is taken undoes the pins made so far.
PinMap(p) ==
  /\ pc[p] = "pin"
  /\ LET n == Names[i[p]] IN
     \/ pin[n] = none /\ pin' = [pin EXCEPT ![n] = maps[p][n]] /\ Step(p, "ok")
     \/ pin[n] # none /\ pin' = pin /\ pc' = [pc EXCEPT ![p] = "unpin_back"] /\ i' = i
  /\ UNCHANGED <<cfg, dev, maps, stats, wrote, touched, overlap>>

\* Whatever is pinned under the earlier names by now is removed.
UnpinBack(p) ==
  /\ pc[p] = "unpin_back"
  /\ IF i[p] = 1 THEN pin' = pin /\ Goto(p, "failed")
     ELSE /\ pin' = [pin EXCEPT ![Names[i[p] - 1]] = none]
          /\ i' = [i EXCEPT ![p] = @ - 1] /\ pc' = pc
  /\ UNCHANGED <<cfg, dev, maps, stats, wrote, touched, overlap>>

-----------------------------------------------------------------------------
(* The switch: xsk_setup_xdp_prog and the end of thread_func *)

Switches == {"switch", "switch_default"}

\* The program attached now is looked up.  Without --filename this is the
\* switch's first step.
ConfigureSocket(p) ==
  /\ \/ pc[p] = "socket"
     \/ pc[p] = "start" /\ Tool(p) = "switch_default"
  /\ LET a == get_xdp_id(cfg[p].mode) IN
     id' = [id EXCEPT ![p] = a] /\ Goto(p, IF a = none THEN "own_prog" ELSE "enter")
  /\ touched' = touched \ {p}
  /\ UNCHANGED <<cfg, kernel, count, rec, shown, infofail, wrote, overlap>>

\* xsk_load_xdp_prog: there was none, so libbpf attaches its own program, with
\* the flags of the command line; somebody may have been faster.
xsk_load_xdp_prog(p) ==
  /\ pc[p] = "own_prog"
  /\ IF SetLinkError(cfg[p].mode, p, ~cfg[p].force) = "0"
     THEN SetLink(p, cfg[p].mode, p) /\ id' = [id EXCEPT ![p] = p] /\ Goto(p, "enter")
     ELSE Goto(p, "failed") /\ UNCHANGED <<id, dev, touched>>
  /\ UNCHANGED <<cfg, maps, pin, count, rec, shown, infofail, wrote, overlap>>

\* The socket goes into the xsks_map of the program looked up, which may be
\* detached by now and, unless it is the process's own, gone; the tutorial's
\* programs have no such map.
xsk_set_bpf_maps(p) ==
  /\ pc[p] = "enter"
  /\ \/ /\ Tool(id[p]) \in Switches
        /\ wrote' = [wrote EXCEPT ![p] = {id[p]}] /\ Goto(p, "running")
     \/ /\ Tool(id[p]) \notin Switches \/ (id[p] # p /\ \A m \in DOMAIN dev : dev[m] # id[p])
        /\ wrote' = wrote /\ Goto(p, "failed")
  /\ UNCHANGED <<cfg, kernel, stats, touched, overlap>>

\* SIGINT: socket and UMEM are deleted, then the program is detached.
LeaveLoop(p) ==
  /\ pc[p] = "running" /\ Goto(p, "get_id")
  /\ UNCHANGED <<cfg, kernel, stats, wrote, touched, overlap>>

-----------------------------------------------------------------------------
(* packet03: the tool that fills the redirect maps *)

\* Each map is opened by its pinned name and written.
WriteParams(p) ==
  /\ pc[p] \in {"start", "params"} /\ Tool(p) = "params"
  /\ IF pc[p] = "start" THEN Starts(p) ELSE overlap' = overlap
  /\ LET n == ParamMaps[i[p]] IN
     /\ pin[n] # none
     /\ wrote' = [wrote EXCEPT ![p] = @ \cup {pin[n]}]
     /\ IF i[p] = Len(ParamMaps) THEN Goto(p, "ok")
        ELSE pc' = [pc EXCEPT ![p] = "params"] /\ i' = [i EXCEPT ![p] = @ + 1]
  /\ UNCHANGED <<cfg, kernel, stats, touched>>

-----------------------------------------------------------------------------
(* basic04: xdp_stats *)

stats_collect(m) == [src |-> m, val |-> count[m]]

\* A line: the difference of two records over their period.
stats_print(p, now) == shown' = [shown EXCEPT ![p] = <<rec[p], now>>]

Polling == {"first_poll", "stats_poll"}

\* open_bpf_map_file, the check of the map's info and the first reading.
OpenMap(p) ==
  /\ pc[p] \in {"start", "open"} /\ Tool(p) = "stats"
  /\ pin[StatsMap] # none
  /\ id' = [id EXCEPT ![p] = pin[StatsMap]]
  /\ rec' = [rec EXCEPT ![p] = stats_collect(pin[StatsMap])]
  /\ Goto(p, "first_poll")
  /\ UNCHANGED <<cfg, kernel, count, shown, infofail, wrote, touched, overlap>>

\* basic03 reads the map of the object it loaded, once before the loop.
CollectOwn(p) ==
  /\ pc[p] \in {"own_first", "poll"}
  /\ rec' = [rec EXCEPT ![p] = stats_collect(maps[p][StatsMap])]
  /\ IF pc[p] = "poll" THEN stats_print(p, rec'[p]) ELSE shown' = shown
  /\ Goto(p, "poll")
  /\ UNCHANGED <<cfg, kernel, count, id, infofail, wrote, touched, overlap>>

\* Mutant: a map that changed is taken for a failure to try again.
PollStats_Waits(p) ==
  /\ pc[p] \in Polling
  /\ \/ pin[StatsMap] = none /\ Goto(p, "open") /\ UNCHANGED <<rec, shown>>
     \/ pin[StatsMap] \in Procs \ {id[p]} /\ UNCHANGED <<pc, i, rec, shown>>
     \/ /\ pin[StatsMap] = id[p]
        /\ rec' = [rec EXCEPT ![p] = stats_collect(id[p])]
        /\ stats_print(p, rec'[p])
        /\ Goto(p, "stats_poll")
  /\ UNCHANGED <<cfg, kernel, count, id, infofail, wrote, touched, overlap>>

\* Every interval the pin is opened again; another id restarts the tool.
PollStats(p) ==
  /\ pc[p] \in Polling
  /\ \/ pin[StatsMap] # id[p] /\ Goto(p, "open") /\ UNCHANGED <<rec, shown>>
     \/ /\ pin[StatsMap] = id[p]
        /\ rec' = [rec EXCEPT ![p] = stats_collect(id[p])]
        /\ stats_print(p, rec'[p])
        /\ Goto(p, "stats_poll")
  /\ UNCHANGED <<cfg, kernel, count, id, infofail, wrote, touched, overlap>>

\* open_bpf_map_file answers EXIT_FAIL_BPF, a positive number, when the map's
\* info cannot be read, and the caller takes it for a file descriptor.  In a
\* new stats_poll the info is still all 0, which looks like another map;
\* later, and in main, it is that of the last success, and a reading that
\* fails leaves values that were never set.
InfoFails(p) ==
  /\ pc[p] \in Polling \cup {"open"} /\ pin[StatsMap] # none /\ infofail < MaxInfoFail
  /\ infofail' = infofail + 1
  /\ \/ pc[p] = "first_poll" /\ Goto(p, "open") /\ UNCHANGED <<rec, shown>>
     \/ /\ pc[p] # "first_poll"
        /\ \E v \in 0 .. MaxPackets : rec' = [rec EXCEPT ![p] = [src |-> none, val |-> v]]
        /\ IF pc[p] = "open" THEN Goto(p, "first_poll") /\ shown' = shown
           ELSE stats_print(p, rec'[p]) /\ UNCHANGED <<pc, i>>
  /\ UNCHANGED <<cfg, kernel, count, id, wrote, touched, overlap>>

-----------------------------------------------------------------------------
\* A process is killed, or a call fails and it exits: nothing is undone.
Exit(p) ==
  /\ pc[p] \notin Ended \cup {"start"} /\ Goto(p, "killed")
  /\ UNCHANGED <<cfg, kernel, stats, wrote, touched, overlap>>

\* A pinned map a tool needs is not there.
GiveUp(p) ==
  /\ \/ Tool(p) = "stats" /\ pc[p] \in {"start", "open"} /\ pin[StatsMap] = none
     \/ Tool(p) = "params" /\ pc[p] \in {"start", "params"} /\ pin[ParamMaps[i[p]]] = none
     \/ /\ Tool(p) \in Loaders /\ cfg[p].reuse
        /\ pc[p] \in {"start", "reuse"} /\ pin[Names[i[p]]] = none
  /\ Goto(p, "failed")
  /\ UNCHANGED <<cfg, kernel, stats, wrote, touched, overlap>>

\* The attached program counts a packet in its map.
Packet ==
  /\ \E m \in {"skb", "drv"} :
       /\ dev[m] # none
       /\ LET c == maps[dev[m]][StatsMap] IN
          count[c] < MaxPackets /\ count' = [count EXCEPT ![c] = @ + 1]
  /\ UNCHANGED <<cfg, pc, i, kernel, id, rec, shown, infofail, wrote, touched, overlap>>

Proc(p) ==
  \/ LoadObject(p) \/ ReuseMap(p) \/ CommonAttach(p) \/ SimpleAttach(p)
  \/ load_bpf_object_file__simple(p) \/ __load_bpf_object_file(p)
  \/ __load_bpf_and_xdp_attach(p) \/ load_bpf_and_xdp_attach(p) \/ GetProgInfo(p) \/ DetachSimple(p)
  \/ GetLinkId(p) \/ Detach(p)
  \/ find_map_fd(p) \/ __check_map_fd_info(p) \/ CollectOwn(p)
  \/ Access(p) \/ UnpinMap(p) \/ PinMap(p) \/ UnpinBack(p)
  \/ ConfigureSocket(p) \/ xsk_load_xdp_prog(p) \/ xsk_set_bpf_maps(p) \/ LeaveLoop(p) \/ WriteParams(p)
  \/ OpenMap(p) \/ PollStats(p) \/ GiveUp(p)

Next == Packet \/ \E p \in Procs : Proc(p) \/ Exit(p) \/ InfoFails(p)

Spec == Init /\ [][Next]_vars

\* xdp_stats sleeps and goes on.
StatsRuns(p) == Tool(p) = "stats" /\ (OpenMap(p) \/ PollStats(p) \/ GiveUp(p))
FairSpec == Spec /\ \A p \in Procs : WF_vars(StatsRuns(p))

-----------------------------------------------------------------------------
\* Without --force an attach removes no program, in either mode, although the
\* kernel answers two different errors for the two modes, and neither does
\* libbpf's for the switch, however long ago it found nothing attached; only
\* xdp_link_detach and --force do.
AttachKeepsOthers ==
  [][\A p \in Procs, m \in {"skb", "drv"} :
       pc[p] \in {"attach", "detach_other", "attach_again", "own_prog"} /\ ~cfg[p].force /\ pc'[p] # pc[p]
         => dev[m] \in {none, dev'[m]}]_vars

\* The socket of a running switch is in the map of the program attached, as
\* long as nobody changed the interface since the socket's set-up looked which
\* program that is: also when another switch replaced the program between the
\* switch's own attach and that moment.  A change between the look and the
\* map's update, or later, leaves the socket in a map nobody reads.
SwitchServed ==
  \A p \in Procs \ touched : pc[p] = "running" => wrote[p] = {get_xdp_id(cfg[p].mode)}

\* A switch that ended after SIGINT leaves no program in its mode.
SwitchLeavesNothing ==
  \A p \in Procs \ touched :
    Tool(p) \in Switches /\ pc[p] = "ok" => dev[cfg[p].mode] = none

\* While nobody else changes the interface, a switch is served as long as it
\* runs and leaves nothing behind when it ends.
SwitchSound == SwitchServed /\ SwitchLeavesNothing

\* When the tools took turns on the pinned maps, the maps pinned after a
\* successful load are those of the program attached, whoever was killed in
\* between and whatever an earlier loader left pinned, and the redirect
\* parameters go into maps of one object.
PinsOfAttached ==
  ~overlap =>
    /\ \A p \in Procs :
         Tool(p) = "basic04" /\ pc[p] = "ok" /\ dev[cfg[p].mode] = p
           => \A n \in DOMAIN pin : pin[n] = maps[p][n]
    /\ \A p \in Procs : Tool(p) = "params" => \A x, y \in wrote[p] : x = y

\* xdp_stats never subtracts the counters of two different maps, so a rate
\* never wraps around below 0, however often maps are pinned anew, as long as
\* the info of the map can be read.
RatesOfOneMap ==
  infofail = 0 => \A p \in Procs : LET prev == shown[p][1] cur == shown[p][2] IN
    prev.src = cur.src /\ prev.val <= cur.val

\* Pinned maps mean what their users take them for: the loaders' are those of
\* the program attached, and a rate is one of a single map.
PinsRight == PinsOfAttached /\ RatesOfOneMap

\* Once the pin stays, xdp_stats ends up on the map that is pinned, or ends.
FollowsPin ==
  \A p \in Procs, m \in Procs :
    Tool(p) = "stats" =>
      (<>[](pin[StatsMap] = m) => <>[](pc[p] \in Ended \/ id[p] = m))

Labels ==
  Ended \cup Polling \cup
  {"start", "reuse", "find_prog", "attach", "detach_other", "attach_again", "access", "unpin",
   "pin", "unpin_back", "params", "prog_info", "find_map", "check_info", "own_first", "poll",
   "get_id", "detach", "socket", "own_prog", "enter", "running", "open"}
MapNames == {Names[k] : k \in DOMAIN Names}
Record == [src : Procs \cup {none}, val : Nat]

\* The processes and how far they got.
ControlOK ==
  /\ cfg \in [Procs -> Options] /\ pc \in [Procs -> Labels] /\ i \in [Procs -> 1 .. 3]
  /\ overlap \in BOOLEAN
\* The interface, which has programs in one mode only.
LinkOK ==
  /\ dev \in [{"skb", "drv"} -> Procs \cup {none}] /\ (dev.skb = none \/ dev.drv = none)
  /\ touched \subseteq Procs /\ wrote \in [Procs -> SUBSET Procs]
MapsOK ==
  maps \in [Procs -> [MapNames -> Procs]] /\ pin \in [MapNames -> Procs \cup {none}]
StatsOK ==
  /\ count \in [Procs -> Nat] /\ id \in [Procs -> Procs \cup {none}]
  /\ rec \in [Procs -> Record] /\ shown \in [Procs -> Record \X Record] /\ infofail \in Nat

\* What the processes have reached and collected, and the kernel's tables.
TypeOK == ControlOK /\ LinkOK /\ MapsOK /\ StatsOK

-----------------------------------------------------------------------------
(* For TLC: two loaders beside another tool, in both modes, with and       *)
(* without --force.                                                        *)

Opt(tool, mode, force, reuse) == [tool |-> tool, mode |-> mode, force |-> force, reuse |-> reuse]

LoaderOpts ==
  <<Opt("basic04", "drv", FALSE, FALSE), Opt("basic04", "skb", TRUE, FALSE),
    Opt("basic04", "drv", TRUE, TRUE), Opt("basic01", "skb", FALSE, FALSE), Opt("basic02", "drv", TRUE, FALSE),
    Opt("basic03", "drv", FALSE, FALSE), Opt("switch", "drv", TRUE, FALSE)>>
OtherOpts ==
  {Opt("stats", "drv", FALSE, FALSE), Opt("params", "drv", FALSE, FALSE), Opt("unload", "drv", FALSE, FALSE),
   Opt("unload01", "skb", FALSE, FALSE), Opt("switch_default", "skb", FALSE, FALSE)}

\* Which of the two loaders has which options makes no difference.
LoadersAndOther ==
  LET other == CHOOSE p \in Procs : TRUE
      first == CHOOSE p \in Procs \ {other} : TRUE
      Pairs == {x \in (DOMAIN LoaderOpts) \X (DOMAIN LoaderOpts) : x[1] <= x[2]}
  IN  {[p \in Procs |-> IF p = other THEN o ELSE LoaderOpts[IF p = first THEN x[1] ELSE x[2]]] :
         o \in OtherOpts, x \in Pairs}

=============================================================================
