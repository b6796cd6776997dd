--------------------------- MODULE XdpRouteProofs ---------------------------
(***************************************************************************)
(* The control flow of the tools of XdpTools, for any number of processes  *)
(* with any options: what a step may change, that it keeps the types, and  *)
(* where it takes the tool.  XdpToolsProofs rests on these lemmas.         *)
(***************************************************************************)
EXTENDS XdpTools, TLAPS

Loading == {"find_prog", "attach", "detach_other", "attach_again"}
Pinning == {"access", "unpin", "pin", "unpin_back"}

\* Which tools, with which options, get where.
Route(p) ==
  /\ pc[p] = "start" => i[p] = 1 /\ wrote[p] = {}
  /\ pc[p] = "params" => i[p] = 2 /\ Tool(p) = "params"
  /\ pc[p] \in Loading \cup {"reuse"} => Tool(p) \in Loaders
  /\ pc[p] \in {"detach_other", "attach_again"} => cfg[p].force
  /\ pc[p] \in Pinning => Tool(p) = "basic04" /\ ~cfg[p].reuse
  /\ pc[p] = "prog_info" => Tool(p) = "basic01"
  /\ pc[p] \in {"find_map", "check_info", "own_first", "poll"} => Tool(p) = "basic03"
  /\ pc[p] = "socket" => Tool(p) = "switch"
  /\ pc[p] \in {"own_prog", "enter", "running"} => Tool(p) \in Switches
  /\ pc[p] \in {"get_id", "detach"} => Tool(p) \in Switches \cup {"basic03", "unload"}
  /\ pc[p] \in Polling \cup {"open", "enter"} => id[p] # none
  /\ ~cfg[p].reuse => \A n \in MapNames : maps[p][n] = p

Routes == \A p \in Procs : Route(p)

-----------------------------------------------------------------------------
(* Types *)

\* The three names, spelled out.
LEMMA Three ==
  /\ DOMAIN Names = 1 .. 3 /\ Len(Names) = 3 /\ Len(ParamMaps) = 2 /\ StatsMap = "xdp_stats_map"
  /\ Names[1] = "redirect_params" /\ Names[2] = "tx_port" /\ Names[3] = "xdp_stats_map"
  /\ ParamMaps[1] = "tx_port" /\ ParamMaps[2] = "redirect_params"
  /\ MapNames = {"redirect_params", "tx_port", "xdp_stats_map"}
<1>1. DOMAIN Names = 1 .. 3
  BY DEF Names
<1>2. MapNames = {Names[1], Names[2], Names[3]}
  BY <1>1 DEF MapNames
<1> QED
  BY <1>1, <1>2 DEF Names, ParamMaps, StatsMap

\* The steps of a process, and those of them that change one part of the state.
Moves(p) == Proc(p) \/ Exit(p) \/ InfoFails(p)

\* What each step leaves alone.
LEMMA Frames ==
  ASSUME NEW p \in Procs, Moves(p)
  PROVE  /\ UNCHANGED cfg
         /\ \/ UNCHANGED <<dev, touched>>
            \/ AttachSteps(p) \/ Detach(p) \/ DetachSimple(p) \/ ConfigureSocket(p) \/ xsk_load_xdp_prog(p)
         /\ UNCHANGED maps \/ ReuseMap(p)
         /\ UNCHANGED pin \/ UnpinMap(p) \/ PinMap(p) \/ UnpinBack(p)
         /\ UNCHANGED wrote \/ xsk_set_bpf_maps(p) \/ WriteParams(p)
         /\ UNCHANGED count
         /\ \/ UNCHANGED <<rec, shown, infofail>>
            \/ OpenMap(p) \/ CollectOwn(p) \/ PollStats(p) \/ InfoFails(p)
         /\ UNCHANGED id \/ OpenMap(p) \/ ConfigureSocket(p) \/ xsk_load_xdp_prog(p)
         /\ \/ UNCHANGED overlap
            \/ /\ pc[p] = "start" /\ Starts(p)
<1> USE DEF kernel, stats
<1>1. CASE LoadObject(p)
  BY <1>1 DEF LoadObject
<1>2. CASE ReuseMap(p)
  BY <1>2 DEF ReuseMap
<1>3. CASE CommonAttach(p)
  BY <1>3, Zenon DEF CommonAttach, AttachSteps, xdp_link_attach, DetachOther, AttachAgain
<1>4. CASE SimpleAttach(p)
  BY <1>4, Zenon DEF SimpleAttach, AttachSteps, xdp_link_attach, DetachOther, AttachAgain
<1>5. CASE load_bpf_object_file__simple(p)
  BY <1>5 DEF load_bpf_object_file__simple
<1>6. CASE __load_bpf_object_file(p)
  BY <1>6 DEF __load_bpf_object_file
<1>7. CASE __load_bpf_and_xdp_attach(p)
  BY <1>7 DEF __load_bpf_and_xdp_attach
<1>8. CASE load_bpf_and_xdp_attach(p)
  BY <1>8 DEF load_bpf_and_xdp_attach
<1>9. CASE GetProgInfo(p)
  BY <1>9 DEF GetProgInfo
<1>10. CASE DetachSimple(p)
  BY <1>10 DEF DetachSimple
<1>11. CASE GetLinkId(p)
  BY <1>11 DEF GetLinkId
<1>12. CASE Detach(p)
  BY <1>12 DEF Detach
<1>13. CASE find_map_fd(p)
  BY <1>13 DEF find_map_fd
<1>14. CASE __check_map_fd_info(p)
  BY <1>14 DEF __check_map_fd_info
<1>15. CASE CollectOwn(p)
  BY <1>15 DEF CollectOwn
<1>16. CASE Access(p)
  BY <1>16 DEF Access
<1>17. CASE UnpinMap(p)
  BY <1>17 DEF UnpinMap
<1>18. CASE PinMap(p)
  BY <1>18 DEF PinMap
<1>19. CASE UnpinBack(p)
  BY <1>19, Zenon DEF UnpinBack
<1>20. CASE ConfigureSocket(p)
  BY <1>20 DEF ConfigureSocket
<1>21. CASE LeaveLoop(p)
  BY <1>21, Zenon DEF LeaveLoop
<1>22. CASE WriteParams(p)
  BY <1>22 DEF WriteParams
<1>23. CASE OpenMap(p)
  BY <1>23 DEF OpenMap
<1>24. CASE PollStats(p)
  BY <1>24, Zenon DEF PollStats
<1>25. CASE GiveUp(p)
  BY <1>25 DEF GiveUp
<1>26. CASE Exit(p)
  BY <1>26, Zenon DEF Exit
<1>27. CASE InfoFails(p)
  BY <1>27 DEF InfoFails
<1>28. CASE xsk_load_xdp_prog(p)
  BY <1>28, Zenon DEF xsk_load_xdp_prog
<1>29. CASE xsk_set_bpf_maps(p)
  BY <1>29, Zenon DEF xsk_set_bpf_maps
<1> QED
  BY <1>1, <1>2, <1>3, <1>4, <1>5, <1>6, <1>7, <1>8, <1>9, <1>10, <1>11, <1>12, <1>13, <1>14,
     <1>15, <1>16, <1>17, <1>18, <1>19, <1>20, <1>21, <1>22, <1>23, <1>24, <1>25, <1>26, <1>27,
     <1>28, <1>29, Zenon
     DEF Moves, Proc

\* Process p goes to l, the others stay.
Jump(p, l, k) ==
  /\ pc' \in [Procs -> Labels] /\ i' \in [Procs -> 1 .. 3]
  /\ pc'[p] = l /\ i'[p] = k /\ \A q \in Procs \ {p} : pc'[q] = pc[q] /\ i'[q] = i[q]

\* A step that sets label and index.
LEMMA SetJump ==
  ASSUME ControlOK, NEW p \in Procs, NEW l \in Labels, NEW k \in 1 .. 3,
         pc' = [pc EXCEPT ![p] = l], i' = [i EXCEPT ![p] = k]
  PROVE  Jump(p, l, k)
BY DEF ControlOK, Jump

\* A step that goes to a label.
LEMMA GotoJump ==
  ASSUME ControlOK, NEW p \in Procs, NEW l \in Labels, Goto(p, l) PROVE Jump(p, l, 1)
<1>1. 1 \in 1 .. 3
  OBVIOUS
<1> QED
  BY <1>1, SetJump, Zenon DEF Goto

\* A step that stays.
LEMMA StayJump ==
  ASSUME ControlOK, NEW p \in Procs, UNCHANGED <<pc, i>> PROVE Jump(p, pc[p], i[p])
BY DEF ControlOK, Jump

\* The label after each attach.
LEMMA AttachedLabel ==
  ASSUME NEW p \in Procs
  PROVE  /\ Attached(p) \in {"access", "find_map", "prog_info", "socket", "ok"}
         /\ Attached(p) = "access" <=> Tool(p) = "basic04" /\ ~cfg[p].reuse
         /\ Attached(p) = "find_map" <=> Tool(p) = "basic03"
         /\ Attached(p) = "prog_info" <=> Tool(p) = "basic01"
         /\ Attached(p) = "socket" <=> Tool(p) = "switch"
BY DEF Attached

\* Every step of a process is a jump.
LEMMA Jumps ==
  ASSUME ControlOK, NEW p \in Procs, Route(p), Moves(p)
  PROVE  \E l \in Labels, k \in 1 .. 3 : Jump(p, l, k)
<1>1. CASE LoadObject(p)
  <2>1. \E l \in {"find_prog"} : Goto(p, l)
    BY <1>1, Zenon DEF LoadObject
  <2> QED
    BY <2>1, GotoJump DEF Labels, Ended, Polling
<1>2. CASE ReuseMap(p)
  <2>1. \/ i[p] = 3 /\ Goto(p, "find_prog")
        \/ i[p] # 3 /\ pc' = [pc EXCEPT ![p] = "reuse"] /\ i' = [i EXCEPT ![p] = i[p] + 1]
    BY <1>2, Three DEF ReuseMap
  <2> QED
    BY <2>1, GotoJump, SetJump, StayJump DEF Labels, Ended, Polling, ControlOK
<1>3. CASE CommonAttach(p)
  <2>1. \E l \in {Attached(p), "detach_other", "attach_again", "failed"} : Goto(p, l)
    BY <1>3, Zenon DEF CommonAttach, AttachSteps, xdp_link_attach, DetachOther, AttachAgain
  <2> QED
    BY <2>1, AttachedLabel, GotoJump DEF Labels, Ended, Polling
<1>4. CASE SimpleAttach(p)
  <2>1. \E l \in {Attached(p), "detach_other", "attach_again", "failed"} : Goto(p, l)
    BY <1>4, Zenon DEF SimpleAttach, AttachSteps, xdp_link_attach, DetachOther, AttachAgain
  <2> QED
    BY <2>1, AttachedLabel, GotoJump DEF Labels, Ended, Polling
<1>5. CASE load_bpf_object_file__simple(p)
  <2>1. \E l \in {"attach", "failed"} : Goto(p, l)
    BY <1>5 DEF load_bpf_object_file__simple
  <2> QED
    BY <2>1, GotoJump DEF Labels, Ended, Polling
<1>6. CASE __load_bpf_object_file(p)
  <2>1. \E l \in {"find_prog", "failed"} : Goto(p, l)
    BY <1>6 DEF __load_bpf_object_file
  <2> QED
    BY <2>1, GotoJump DEF Labels, Ended, Polling
<1>7. CASE __load_bpf_and_xdp_attach(p)
  <2>1. \E l \in {"attach", "failed"} : Goto(p, l)
    BY <1>7 DEF __load_bpf_and_xdp_attach
  <2> QED
    BY <2>1, GotoJump DEF Labels, Ended, Polling
<1>8. CASE load_bpf_and_xdp_attach(p)
  <2>1. \E l \in {"attach", "failed"} : Goto(p, l)
    BY <1>8 DEF load_bpf_and_xdp_attach
  <2> QED
    BY <2>1, GotoJump DEF Labels, Ended, Polling
<1>9. CASE GetProgInfo(p)
  <2>1. \E l \in {"ok", "failed"} : Goto(p, l)
    BY <1>9 DEF GetProgInfo
  <2> QED
    BY <2>1, GotoJump DEF Labels, Ended, Polling
<1>10. CASE DetachSimple(p)
  <2>1. \E l \in {"ok"} : Goto(p, l)
    BY <1>10 DEF DetachSimple
  <2> QED
    BY <2>1, GotoJump DEF Labels, Ended, Polling
<1>11. CASE GetLinkId(p)
  <2>1. \E l \in {"ok", "detach"} : Goto(p, l)
    BY <1>11 DEF GetLinkId
  <2> QED
    BY <2>1, GotoJump DEF Labels, Ended, Polling
<1>12. CASE Detach(p)
  <2>1. \E l \in {"ok"} : Goto(p, l)
    BY <1>12 DEF Detach
  <2> QED
    BY <2>1, GotoJump DEF Labels, Ended, Polling
<1>13. CASE find_map_fd(p)
  <2>1. \E l \in {"check_info", "get_id"} : Goto(p, l)
    BY <1>13 DEF find_map_fd
  <2> QED
    BY <2>1, GotoJump DEF Labels, Ended, Polling
<1>14. CASE __check_map_fd_info(p)
  <2>1. \E l \in {"own_first", "failed"} : Goto(p, l)
    BY <1>14 DEF __check_map_fd_info
  <2> QED
    BY <2>1, GotoJump DEF Labels, Ended, Polling
<1>15. CASE CollectOwn(p)
  <2>1. \E l \in {"poll"} : Goto(p, l)
    BY <1>15 DEF CollectOwn
  <2> QED
    BY <2>1, GotoJump DEF Labels, Ended, Polling
<1>16. CASE Access(p)
  <2>1. \E l \in {"unpin", "pin"} : Goto(p, l)
    BY <1>16, Zenon DEF Access
  <2> QED
    BY <2>1, GotoJump DEF Labels, Ended, Polling
<1>17. CASE UnpinMap(p)
  <2>1. \/ \E l \in {"pin", "failed"} : Goto(p, l)
        \/ i[p] # 3 /\ pc' = pc /\ i' = [i EXCEPT ![p] = i[p] + 1]
    BY <1>17, Three DEF UnpinMap, Step
  <2> QED
    BY <2>1, GotoJump, SetJump, StayJump DEF Labels, Ended, Polling, ControlOK
<1>18. CASE PinMap(p)
  <2>1. \/ Goto(p, "ok")
        \/ i[p] # 3 /\ pc' = pc /\ i' = [i EXCEPT ![p] = i[p] + 1]
        \/ pc' = [pc EXCEPT ![p] = "unpin_back"] /\ i' = i
    BY <1>18, Three, Zenon DEF PinMap, Step
  <2> QED
    BY <2>1, GotoJump, SetJump, StayJump DEF Labels, Ended, Polling, ControlOK
<1>19. CASE UnpinBack(p)
  <2>1. \/ Goto(p, "failed")
        \/ i[p] # 1 /\ pc' = pc /\ i' = [i EXCEPT ![p] = i[p] - 1]
    BY <1>19, Three DEF UnpinBack
  <2> QED
    BY <2>1, GotoJump, SetJump, StayJump DEF Labels, Ended, Polling, ControlOK
<1>20. CASE ConfigureSocket(p)
  <2>1. \E l \in {"own_prog", "enter"} : Goto(p, l)
    BY <1>20, Zenon DEF ConfigureSocket
  <2> QED
    BY <2>1, GotoJump DEF Labels, Ended, Polling
<1>21. CASE LeaveLoop(p)
  <2>1. \E l \in {"get_id"} : Goto(p, l)
    BY <1>21, Zenon DEF LeaveLoop
  <2> QED
    BY <2>1, GotoJump DEF Labels, Ended, Polling
<1>22. CASE WriteParams(p)
  <2>1. \/ Goto(p, "ok")
        \/ i[p] = 1 /\ pc' = [pc EXCEPT ![p] = "params"] /\ i' = [i EXCEPT ![p] = i[p] + 1]
    BY <1>22, Three DEF WriteParams, Route
  <2> QED
    BY <2>1, GotoJump, SetJump, StayJump DEF Labels, Ended, Polling, ControlOK
<1>23. CASE OpenMap(p)
  <2>1. \E l \in {"first_poll"} : Goto(p, l)
    BY <1>23 DEF OpenMap
  <2> QED
    BY <2>1, GotoJump DEF Labels, Ended, Polling
<1>24. CASE PollStats(p)
  <2>1. \E l \in {"open", "stats_poll"} : Goto(p, l)
    BY <1>24 DEF PollStats
  <2> QED
    BY <2>1, GotoJump DEF Labels, Ended, Polling
<1>25. CASE GiveUp(p)
  <2>1. \E l \in {"failed"} : Goto(p, l)
    BY <1>25 DEF GiveUp
  <2> QED
    BY <2>1, GotoJump DEF Labels, Ended, Polling
<1>26. CASE Exit(p)
  <2>1. \E l \in {"killed"} : Goto(p, l)
    BY <1>26, Zenon DEF Exit
  <2> QED
    BY <2>1, GotoJump DEF Labels, Ended, Polling
<1>27. CASE InfoFails(p)
  <2>1. \/ \E l \in {"open", "first_poll"} : Goto(p, l)
        \/ UNCHANGED <<pc, i>>
    BY <1>27, Three DEF InfoFails, Polling
  <2> QED
    BY <2>1, GotoJump, SetJump, StayJump DEF Labels, Ended, Polling, ControlOK
<1>28. CASE xsk_load_xdp_prog(p)
  <2>1. \E l \in {"enter", "failed"} : Goto(p, l)
    BY <1>28, Zenon DEF xsk_load_xdp_prog
  <2> QED
    BY <2>1, GotoJump DEF Labels, Ended, Polling
<1>29. CASE xsk_set_bpf_maps(p)
  <2>1. \E l \in {"running", "failed"} : Goto(p, l)
    BY <1>29, Zenon DEF xsk_set_bpf_maps
  <2> QED
    BY <2>1, GotoJump DEF Labels, Ended, Polling
<1> QED
  BY <1>1, <1>2, <1>3, <1>4, <1>5, <1>6, <1>7, <1>8, <1>9, <1>10, <1>11, <1>12, <1>13, <1>14,
     <1>15, <1>16, <1>17, <1>18, <1>19, <1>20, <1>21, <1>22, <1>23, <1>24, <1>25, <1>26, <1>27,
     <1>28, <1>29, Zenon
     DEF Moves, Proc

\* Every step keeps the types of labels and options.
LEMMA ControlStep ==
  ASSUME ControlOK, NEW p \in Procs, Route(p), Moves(p) PROVE ControlOK'
<1>1. pc' \in [Procs -> Labels] /\ i' \in [Procs -> 1 .. 3]
  BY Jumps DEF Jump
<1>2. overlap' \in BOOLEAN
  BY Frames, Zenon DEF Starts, ControlOK
<1> QED
  BY <1>1, <1>2, Frames DEF ControlOK

\* The mode of a process is one of the two.
LEMMA Modes ==
  ASSUME ControlOK, NEW p \in Procs
  PROVE  cfg[p].mode \in {"skb", "drv"} /\ Other(cfg[p].mode) \in {"skb", "drv"}
BY DEF ControlOK, Options, Other

\* A program is set in one mode when there is none in the other.
LEMMA SetLinkType ==
  ASSUME LinkOK, NEW p \in Procs, NEW mode \in {"skb", "drv"}, NEW prog \in Procs \cup {none},
         SetLink(p, mode, prog), prog = none \/ dev[Other(mode)] = none
  PROVE  /\ dev' \in [{"skb", "drv"} -> Procs \cup {none}]
         /\ dev'.skb = none \/ dev'.drv = none
         /\ touched' \subseteq Procs
         /\ dev'[mode] = prog /\ dev'[Other(mode)] = dev[Other(mode)]
BY DEF LinkOK, SetLink, Other

\* What a step does to the interface: one process sets or clears one mode.
Sets(p) ==
  \E mode \in {"skb", "drv"}, prog \in {p, none} :
    SetLink(p, mode, prog) /\ (prog = none \/ dev[Other(mode)] = none)

\* An attach changes the interface that way, or not at all.
LEMMA AttachSets ==
  ASSUME ControlOK, NEW p \in Procs, AttachSteps(p)
  PROVE  (dev' = dev /\ touched' = touched) \/ Sets(p)
<1>1. cfg[p].mode \in {"skb", "drv"} /\ Other(cfg[p].mode) \in {"skb", "drv"} /\ p # none
  BY Modes, ToolsAssumption, Zenon
<1>2. CASE xdp_link_attach(p)
  BY <1>1, <1>2 DEF xdp_link_attach, SetLinkError, Sets
<1>3. CASE DetachOther(p)
  BY <1>1, <1>3 DEF DetachOther, Sets
<1>4. CASE AttachAgain(p)
  BY <1>1, <1>4 DEF AttachAgain, SetLinkError, Sets
<1> QED
  BY <1>2, <1>3, <1>4 DEF AttachSteps

\* get_xdp_id finds the one program there is.
LEMMA FoundId ==
  ASSUME LinkOK, NEW mode \in {"skb", "drv"}
  PROVE  /\ get_xdp_id(mode) \in Procs \cup {none}
         /\ get_xdp_id(mode) = none <=> dev["skb"] = none /\ dev["drv"] = none
         /\ dev[mode] # none => get_xdp_id(mode) = dev[mode]
BY ToolsAssumption DEF LinkOK, get_xdp_id

\* The interface changes only that way; a socket's set-up looks at it and starts
\* over with the marks.
LEMMA LinkChange ==
  ASSUME ControlOK, LinkOK, NEW p \in Procs, Moves(p)
  PROVE  \/ dev' = dev /\ touched' = touched
         \/ dev' = dev /\ ConfigureSocket(p) /\ touched' = touched \ {p}
         \/ Sets(p)
<1>1. cfg[p].mode \in {"skb", "drv"} /\ Other(cfg[p].mode) \in {"skb", "drv"}
  BY Modes
<1>2. CASE AttachSteps(p)
  BY <1>2, AttachSets
<1>3. CASE Detach(p)
  BY <1>1, <1>3 DEF Detach, Sets
<1>4. CASE DetachSimple(p)
  BY <1>1, <1>4 DEF DetachSimple, Sets
<1>5. CASE ConfigureSocket(p)
  BY <1>5, Zenon DEF ConfigureSocket, kernel
<1>6. CASE xsk_load_xdp_prog(p)
  <2>1. p # none
    BY ToolsAssumption
  <2> QED
    BY <1>1, <1>6, <2>1 DEF xsk_load_xdp_prog, SetLinkError, Sets
<1> QED
  BY <1>2, <1>3, <1>4, <1>5, <1>6, Frames

\* The maps a process writes to.
LEMMA WroteType ==
  ASSUME ControlOK, LinkOK, MapsOK, StatsOK, NEW p \in Procs, Route(p), Moves(p)
  PROVE  \/ UNCHANGED wrote
         \/ \E S \in SUBSET Procs : wrote' = [wrote EXCEPT ![p] = S]
<1>1. CASE xsk_set_bpf_maps(p)
  <2>1. id[p] \in Procs
    BY <1>1, Zenon DEF xsk_set_bpf_maps, Route, StatsOK
  <2>2. {id[p]} \in SUBSET Procs
    BY <2>1
  <2> QED
    BY <1>1, <2>2, Zenon DEF xsk_set_bpf_maps
<1>2. CASE WriteParams(p)
  <2>1. ParamMaps[i[p]] \in MapNames
    BY <1>2, Three DEF WriteParams, Route
  <2>2. pin[ParamMaps[i[p]]] \in Procs /\ wrote[p] \subseteq Procs
    BY <1>2, <2>1 DEF WriteParams, MapsOK, LinkOK
  <2>3. wrote[p] \cup {pin[ParamMaps[i[p]]]} \in SUBSET Procs
    BY <2>2
  <2> QED
    BY <1>2, <2>3, Zenon DEF WriteParams
<1> QED
  BY <1>1, <1>2, Frames, Zenon

\* Every step keeps one mode at a time.
LEMMA LinkStep ==
  ASSUME ControlOK, LinkOK, MapsOK, StatsOK, NEW p \in Procs, Route(p), Moves(p) PROVE LinkOK'
<1>1. wrote' \in [Procs -> SUBSET Procs]
  BY WroteType DEF LinkOK
<1>2. CASE dev' = dev /\ touched' \subseteq touched
  BY <1>1, <1>2 DEF LinkOK
<1>3. CASE Sets(p)
  BY <1>1, <1>3, SetLinkType DEF Sets, LinkOK
<1> QED
  BY <1>2, <1>3, LinkChange

\* Every step keeps the types of the maps and pins.
LEMMA MapsStep == ASSUME ControlOK, MapsOK, NEW p \in Procs, Moves(p) PROVE MapsOK'
<1>1. i[p] \in 1 .. 3
  BY DEF ControlOK
<1>2. maps' \in [Procs -> [MapNames -> Procs]]
  <2>1. CASE ReuseMap(p)
    <3>1. PICK n \in MapNames : n = Names[i[p]]
      BY <1>1, Three
    <3>2. pin[n] \in Procs /\ maps' = [maps EXCEPT ![p][n] = pin[n]]
      BY <2>1, <3>1 DEF ReuseMap, MapsOK
    <3> QED
      BY <3>2 DEF MapsOK
  <2> QED
    BY <2>1, Frames DEF MapsOK
<1>3. pin' \in [MapNames -> Procs \cup {none}]
  <2>1. PICK n \in MapNames : n = Names[i[p]]
    BY <1>1, Three
  <2>2. maps[p][n] \in Procs
    BY DEF MapsOK
  <2>3. CASE UnpinMap(p)
    BY <2>1, <2>3, Zenon DEF UnpinMap, MapsOK
  <2>4. CASE PinMap(p)
    BY <2>1, <2>2, <2>4, Zenon DEF PinMap, MapsOK
  <2>5. CASE UnpinBack(p)
    BY <2>5, Zenon DEF UnpinBack, MapsOK
  <2> QED
    BY <2>3, <2>4, <2>5, Frames, Zenon DEF MapsOK
<1> QED
  BY <1>2, <1>3 DEF MapsOK

\* A record is stored, and shown with the one before it, or neither is.
Collects(p) ==
  /\ \E r \in Record : rec' = [rec EXCEPT ![p] = r]
  /\ UNCHANGED shown \/ shown' = [shown EXCEPT ![p] = <<rec[p], rec'[p]>>]

\* The steps of the readers, and nobody else, store records.
LEMMA StatsChange ==
  ASSUME ControlOK, LinkOK, MapsOK, StatsOK, NEW p \in Procs, Route(p), Moves(p)
  PROVE  /\ UNCHANGED <<rec, shown>> \/ Collects(p)
         /\ UNCHANGED id \/ \E m \in Procs \cup {none} : id' = [id EXCEPT ![p] = m]
         /\ infofail' \in Nat /\ infofail' >= infofail /\ UNCHANGED count
<1>1. \A m \in Procs : stats_collect(m) \in Record
  BY DEF stats_collect, Record, StatsOK
<1>2. CASE OpenMap(p)
  <2>1. pin[StatsMap] \in Procs
    BY <1>2, Three DEF OpenMap, MapsOK
  <2>2. Collects(p)
    BY <1>1, <1>2, <2>1, Zenon DEF OpenMap, Collects
  <2>3. id' = [id EXCEPT ![p] = pin[StatsMap]] /\ infofail' = infofail /\ count' = count
    BY <1>2 DEF OpenMap
  <2>4. \E m \in Procs \cup {none} : id' = [id EXCEPT ![p] = m]
    BY <2>1, <2>3, Zenon
  <2>5. infofail' \in Nat /\ infofail' >= infofail
    BY <2>3 DEF StatsOK
  <2> QED
    BY <2>2, <2>3, <2>4, <2>5, Zenon
<1>3. CASE CollectOwn(p)
  <2>1. maps[p][StatsMap] \in Procs
    BY Three DEF MapsOK
  <2>2. Collects(p)
    BY <1>1, <1>3, <2>1, Zenon DEF CollectOwn, stats_print, Collects
  <2> QED
    BY <1>3, <2>2 DEF CollectOwn, StatsOK
<1>4. CASE PollStats(p)
  <2>1. id[p] \in Procs
    BY <1>4, Zenon DEF PollStats, Route, StatsOK
  <2> QED
    BY <1>1, <1>4, <2>1 DEF PollStats, stats_print, Collects, StatsOK
<1>5. CASE InfoFails(p)
  <2>1. \A v \in 0 .. MaxPackets : [src |-> none, val |-> v] \in Record
    BY ToolsAssumption DEF Record
  <2> QED
    BY <1>5, <2>1 DEF InfoFails, stats_print, Collects, StatsOK
<1>6. CASE ConfigureSocket(p)
  <2>1. get_xdp_id(cfg[p].mode) \in Procs \cup {none}
    BY Modes, FoundId, Zenon
  <2>2. \E m \in Procs \cup {none} : id' = [id EXCEPT ![p] = m]
    BY <1>6, <2>1, Zenon DEF ConfigureSocket
  <2>3. UNCHANGED <<rec, shown, infofail, count>>
    BY <1>6, Zenon DEF ConfigureSocket
  <2>4. infofail' \in Nat /\ infofail' >= infofail
    BY <2>3 DEF StatsOK
  <2> QED
    BY <2>2, <2>3, <2>4, Zenon
<1>7. CASE xsk_load_xdp_prog(p)
  <2>1. UNCHANGED id \/ \E m \in Procs \cup {none} : id' = [id EXCEPT ![p] = m]
    BY <1>7, Zenon DEF xsk_load_xdp_prog
  <2>2. UNCHANGED <<rec, shown, infofail, count>>
    BY <1>7, Zenon DEF xsk_load_xdp_prog
  <2>3. infofail' \in Nat /\ infofail' >= infofail
    BY <2>2 DEF StatsOK
  <2> QED
    BY <2>1, <2>2, <2>3, Zenon
<1>8. CASE UNCHANGED <<rec, shown, infofail, id, count>>
  BY <1>8 DEF StatsOK
<1> QED
  BY <1>2, <1>3, <1>4, <1>5, <1>6, <1>7, <1>8, Frames, Zenon

\* Every step keeps the types of the records.
LEMMA StatsStep ==
  ASSUME ControlOK, LinkOK, MapsOK, StatsOK, NEW p \in Procs, Route(p), Moves(p) PROVE StatsOK'
<1>1. rec' \in [Procs -> Record] /\ shown' \in [Procs -> Record \X Record]
  <2>1. CASE UNCHANGED <<rec, shown>>
    BY <2>1 DEF StatsOK
  <2>2. CASE Collects(p)
    <3>1. rec' \in [Procs -> Record] /\ rec[p] \in Record /\ rec'[p] \in Record
      BY <2>2 DEF Collects, StatsOK
    <3>2. <<rec[p], rec'[p]>> \in Record \X Record
      BY <3>1
    <3> QED
      BY <2>2, <3>1, <3>2 DEF Collects, StatsOK
  <2> QED
    BY <2>1, <2>2, StatsChange
<1>2. id' \in [Procs -> Procs \cup {none}] /\ infofail' \in Nat /\ count' \in [Procs -> Nat]
  BY StatsChange DEF StatsOK
<1> QED
  BY <1>1, <1>2 DEF StatsOK

\* A step of one process changes nothing of another one's.
LEMMA Locals ==
  ASSUME TypeOK, NEW p \in Procs, Route(p), Moves(p), NEW q \in Procs, q # p
  PROVE  /\ cfg' = cfg /\ pc'[q] = pc[q] /\ i'[q] = i[q] /\ maps'[q] = maps[q]
         /\ wrote'[q] = wrote[q] /\ id'[q] = id[q] /\ rec'[q] = rec[q] /\ shown'[q] = shown[q]
<1>1. cfg' = cfg /\ pc'[q] = pc[q] /\ i'[q] = i[q]
  BY Jumps, Frames DEF Jump, TypeOK
<1>2. maps'[q] = maps[q]
  BY Frames DEF ReuseMap, TypeOK, MapsOK
<1>3. wrote'[q] = wrote[q]
  BY WroteType DEF TypeOK, LinkOK
<1>4. id'[q] = id[q] /\ rec'[q] = rec[q] /\ shown'[q] = shown[q]
  BY StatsChange, SMTT(30) DEF Collects, TypeOK, StatsOK
<1> QED
  BY <1>1, <1>2, <1>3, <1>4, Zenon

\* What another process has done keeps what a process's label says.
LEMMA RouteOther ==
  ASSUME TypeOK, NEW p \in Procs, Route(p), Moves(p), NEW q \in Procs, q # p, Route(q)
  PROVE  Route(q)'
BY Locals DEF Route, Tool

\* The label a step goes to.
LEMMA GotoAt == ASSUME ControlOK, NEW p \in Procs, NEW l, Goto(p, l) PROVE pc'[p] = l /\ i'[p] = 1
BY DEF ControlOK, Goto

Working == Loading \cup Pinning \cup {"reuse", "params"}

\* How a process gets where it is: to work at its start only, to the pinned
\* maps with its program attached, and to its end.
Enters(p) ==
  /\ pc'[p] \in Working => pc[p] \in Working \/ (pc[p] = "start" /\ Starts(p))
  /\ pc'[p] \in Pinning => pc[p] \in Pinning \/ xdp_link_attach(p) \/ AttachAgain(p)
  /\ pc'[p] = "unpin" => Access(p) \/ UnpinMap(p)
  /\ pc'[p] = "pin" => Access(p) \/ UnpinMap(p) \/ PinMap(p)
  /\ pc'[p] = "unpin_back" => PinMap(p) \/ UnpinBack(p)
  /\ pc'[p] = "reuse" => ReuseMap(p)
  /\ pc'[p] = "params" => WriteParams(p)
  /\ pc'[p] \in Loading /\ Tool(p) = "basic04" /\ cfg[p].reuse => pc[p] \in Loading \/ ReuseMap(p)
  /\ Tool(p) = "basic04" /\ pc'[p] = "ok" => PinMap(p) \/ (AttachSteps(p) /\ cfg[p].reuse)
  /\ pc'[p] = "enter" => ConfigureSocket(p) \/ xsk_load_xdp_prog(p)
  /\ pc'[p] = "running" => xsk_set_bpf_maps(p)
  /\ pc'[p] \in Polling => OpenMap(p) \/ PollStats(p) \/ InfoFails(p)
  /\ pc'[p] = "poll" => CollectOwn(p)
  /\ Tool(p) \in Switches /\ pc'[p] = "ok" => Detach(p) \/ GetLinkId(p)
  /\ pc'[p] # "start" /\ pc[p] \notin Ended

Arrives(p) == Route(p)' /\ Enters(p)

\* Every step of a process takes it where its tool may be.
LEMMA Arrival == ASSUME TypeOK, NEW p \in Procs, Route(p), Moves(p) PROVE Arrives(p)
<1>c. cfg' = cfg /\ Tool(p)' = Tool(p) /\ cfg[p].reuse \in BOOLEAN /\ ControlOK
  BY Frames DEF Tool, TypeOK, ControlOK, Options
<1>i. /\ pc \in [Procs -> Labels] /\ i \in [Procs -> 1 .. 3]
      /\ id \in [Procs -> Procs \cup {none}]
  BY DEF TypeOK, ControlOK, StatsOK
<1>a. CASE AttachSteps(p)
  <2>1. maps' = maps /\ id' = id
    BY <1>a, ZenonT(30) DEF AttachSteps, xdp_link_attach, DetachOther, AttachAgain, stats
  <2>2. /\ pc[p] \in {"attach", "detach_other", "attach_again"}
        /\ \/ pc'[p] = Attached(p) /\ (xdp_link_attach(p) \/ AttachAgain(p))
           \/ pc'[p] \in {"detach_other", "attach_again"} /\ cfg[p].force
           \/ pc'[p] = "failed"
    <3>1. CASE xdp_link_attach(p)
      BY <1>c, <3>1, GotoAt, Zenon DEF xdp_link_attach
    <3>2. CASE DetachOther(p)
      BY <1>c, <3>2, GotoAt, ZenonT(30) DEF DetachOther, Route
    <3>3. CASE AttachAgain(p)
      BY <1>c, <3>3, GotoAt, ZenonT(30) DEF AttachAgain
    <3> QED
      BY <1>a, <3>1, <3>2, <3>3 DEF AttachSteps
  <2>3. Route(p)'
    BY <1>c, <2>1, <2>2, AttachedLabel
       DEF Route, Ended, Loading, Pinning, Polling, Switches, Loaders
  <2>4. Enters(p)
    BY <1>a, <1>c, <2>2, AttachedLabel, Zenon
       DEF Enters, Working, Ended, Route, Loading, Pinning, Polling, Switches, Loaders
  <2> QED
    BY <2>3, <2>4 DEF Arrives
<1>1. CASE LoadObject(p)
  <2>1. pc[p] = "start" /\ pc'[p] = "find_prog" /\ Tool(p) \in Loaders /\ ~cfg[p].reuse
    BY <1>1, <1>c, GotoAt DEF LoadObject
  <2>2. maps' = maps /\ id' = id
    BY <1>1, Zenon DEF LoadObject, kernel, stats
  <2>3. Route(p)'
    BY <1>c, <2>1, <2>2 DEF Route, Ended, Loading, Pinning, Polling, Switches, Loaders
  <2>4. pc[p] = "start" => Starts(p)
    BY <1>1 DEF LoadObject
  <2>5. Enters(p)
    BY <1>1, <2>1, <2>4, Zenon
       DEF Enters, Working, Ended, Route, Loading, Pinning, Polling, Switches, Loaders
  <2> QED
    BY <2>3, <2>5 DEF Arrives
<1>2. CASE ReuseMap(p)
  <2>1. /\ pc[p] \in {"start", "reuse"}
        /\ pc'[p] \in {"reuse", "find_prog"} /\ Tool(p) \in Loaders /\ cfg[p].reuse
    BY <1>2, <1>c, <1>i, GotoAt DEF ReuseMap
  <2>2. id' = id
    BY <1>2 DEF ReuseMap, kernel, stats
  <2>3. Route(p)'
    BY <1>c, <2>1, <2>2, Zenon DEF Route, Ended, Loading, Pinning, Polling, Switches, Loaders
  <2>4. pc[p] = "start" => Starts(p)
    BY <1>2 DEF ReuseMap
  <2>5. Enters(p)
    BY <1>2, <2>1, <2>4, Zenon
       DEF Enters, Working, Ended, Route, Loading, Pinning, Polling, Switches, Loaders
  <2> QED
    BY <2>3, <2>5 DEF Arrives
<1>3. CASE CommonAttach(p)
  BY <1>3, <1>a DEF CommonAttach
<1>4. CASE SimpleAttach(p)
  BY <1>4, <1>a DEF SimpleAttach
<1>5. CASE load_bpf_object_file__simple(p)
  <2>1. pc[p] = "start" /\ pc'[p] \in {"attach", "failed"} /\ Tool(p) = "basic01"
    BY <1>5, <1>c, GotoAt DEF load_bpf_object_file__simple
  <2>2. maps' = maps /\ id' = id
    BY <1>5, Zenon DEF load_bpf_object_file__simple, kernel, stats
  <2>3. Route(p)'
    BY <1>c, <2>1, <2>2 DEF Route, Ended, Loading, Pinning, Polling, Switches, Loaders
  <2>4. pc[p] = "start" => Starts(p)
    BY <1>5 DEF load_bpf_object_file__simple
  <2>5. Enters(p)
    BY <1>5, <2>1, <2>4, Zenon
       DEF Enters, Working, Ended, Route, Loading, Pinning, Polling, Switches, Loaders
  <2> QED
    BY <2>3, <2>5 DEF Arrives
<1>6. CASE __load_bpf_object_file(p)
  <2>1. pc[p] = "start" /\ pc'[p] \in {"find_prog", "failed"} /\ Tool(p) = "basic02"
    BY <1>6, <1>c, GotoAt DEF __load_bpf_object_file
  <2>2. maps' = maps /\ id' = id
    BY <1>6, Zenon DEF __load_bpf_object_file, kernel, stats
  <2>3. Route(p)'
    BY <1>c, <2>1, <2>2 DEF Route, Ended, Loading, Pinning, Polling, Switches, Loaders
  <2>4. pc[p] = "start" => Starts(p)
    BY <1>6 DEF __load_bpf_object_file
  <2>5. Enters(p)
    BY <1>6, <2>1, <2>4, Zenon
       DEF Enters, Working, Ended, Route, Loading, Pinning, Polling, Switches, Loaders
  <2> QED
    BY <2>3, <2>5 DEF Arrives
<1>7. CASE __load_bpf_and_xdp_attach(p)
  <2>1. pc[p] = "find_prog" /\ pc'[p] \in {"attach", "failed"}
    BY <1>7, <1>c, GotoAt DEF __load_bpf_and_xdp_attach
  <2>2. maps' = maps /\ id' = id
    BY <1>7, Zenon DEF __load_bpf_and_xdp_attach, kernel, stats
  <2>3. Route(p)'
    BY <1>c, <2>1, <2>2 DEF Route, Ended, Loading, Pinning, Polling, Switches, Loaders
  <2>4. Enters(p)
    BY <1>7, <2>1, Zenon DEF Enters, Working, Ended, Route, Loading, Pinning, Polling, Switches, Loaders
  <2> QED
    BY <2>3, <2>4 DEF Arrives
<1>8. CASE load_bpf_and_xdp_attach(p)
  <2>1. pc[p] = "find_prog" /\ pc'[p] \in {"attach", "failed"}
    BY <1>8, <1>c, GotoAt DEF load_bpf_and_xdp_attach
  <2>2. maps' = maps /\ id' = id
    BY <1>8 DEF load_bpf_and_xdp_attach, kernel, stats
  <2>3. Route(p)'
    BY <1>c, <2>1, <2>2 DEF Route, Ended, Loading, Pinning, Polling, Switches, Loaders
  <2>4. Enters(p)
    BY <1>8, <2>1, Zenon DEF Enters, Working, Ended, Route, Loading, Pinning, Polling, Switches, Loaders
  <2> QED
    BY <2>3, <2>4 DEF Arrives
<1>9. CASE GetProgInfo(p)
  <2>1. pc[p] = "prog_info" /\ pc'[p] \in {"ok", "failed"}
    BY <1>9, <1>c, GotoAt DEF GetProgInfo
  <2>2. maps' = maps /\ id' = id
    BY <1>9, Zenon DEF GetProgInfo, kernel, stats
  <2>3. Route(p)'
    BY <1>c, <2>1, <2>2 DEF Route, Ended, Loading, Pinning, Polling, Switches, Loaders
  <2>4. Enters(p)
    BY <1>9, <2>1, Zenon DEF Enters, Working, Ended, Route, Loading, Pinning, Polling, Switches, Loaders
  <2> QED
    BY <2>3, <2>4 DEF Arrives
<1>10. CASE DetachSimple(p)
  <2>1. pc[p] = "start" /\ pc'[p] = "ok" /\ Tool(p) = "unload01"
    BY <1>10, <1>c, GotoAt DEF DetachSimple
  <2>2. maps' = maps /\ id' = id
    BY <1>10, ZenonT(30) DEF DetachSimple, kernel, stats
  <2>3. Route(p)'
    BY <1>c, <2>1, <2>2 DEF Route, Ended, Loading, Pinning, Polling, Switches, Loaders
  <2>4. Enters(p)
    BY <1>10, <2>1, ZenonT(30)
       DEF Enters, Working, Ended, Route, Loading, Pinning, Polling, Switches, Loaders
  <2> QED
    BY <2>3, <2>4 DEF Arrives
<1>11. CASE GetLinkId(p)
  <2>1. /\ pc[p] \in {"get_id", "start"}
        /\ pc'[p] \in {"ok", "detach"} /\ (pc[p] = "start" => Tool(p) = "unload")
    BY <1>11, <1>c, GotoAt, ZenonT(30) DEF GetLinkId
  <2>2. maps' = maps /\ id' = id
    BY <1>11, ZenonT(30) DEF GetLinkId, kernel, stats
  <2>3. Route(p)'
    BY <1>c, <2>1, <2>2, ZenonT(30) DEF Route, Ended, Loading, Pinning, Polling, Switches, Loaders
  <2>4. Enters(p)
    BY <1>11, <2>1, Zenon DEF Enters, Working, Ended, Route, Loading, Pinning, Polling, Switches, Loaders
  <2> QED
    BY <2>3, <2>4 DEF Arrives
<1>12. CASE Detach(p)
  <2>1. pc[p] = "detach" /\ pc'[p] = "ok"
    BY <1>12, <1>c, GotoAt, Zenon DEF Detach
  <2>2. maps' = maps /\ id' = id
    BY <1>12 DEF Detach, kernel, stats
  <2>3. Route(p)'
    BY <1>c, <2>1, <2>2, ZenonT(30) DEF Route, Ended, Loading, Pinning, Polling, Switches, Loaders
  <2>4. Enters(p)
    BY <1>12, <2>1, ZenonT(30)
       DEF Enters, Working, Ended, Route, Loading, Pinning, Polling, Switches, Loaders
  <2> QED
    BY <2>3, <2>4 DEF Arrives
<1>13. CASE find_map_fd(p)
  <2>1. pc[p] = "find_map" /\ pc'[p] \in {"check_info", "get_id"}
    BY <1>13, <1>c, GotoAt, Zenon DEF find_map_fd
  <2>2. maps' = maps /\ id' = id
    BY <1>13 DEF find_map_fd, kernel, stats
  <2>3. Route(p)'
    BY <1>c, <2>1, <2>2, ZenonT(30) DEF Route, Ended, Loading, Pinning, Polling, Switches, Loaders
  <2>4. Enters(p)
    BY <1>13, <2>1, Zenon DEF Enters, Working, Ended, Route, Loading, Pinning, Polling, Switches, Loaders
  <2> QED
    BY <2>3, <2>4 DEF Arrives
<1>14. CASE __check_map_fd_info(p)
  <2>1. pc[p] = "check_info" /\ pc'[p] \in {"own_first", "failed"}
    BY <1>14, <1>c, GotoAt DEF __check_map_fd_info
  <2>2. maps' = maps /\ id' = id
    BY <1>14 DEF __check_map_fd_info, kernel, stats
  <2>3. Route(p)'
    BY <1>c, <2>1, <2>2, ZenonT(30) DEF Route, Ended, Loading, Pinning, Polling, Switches, Loaders
  <2>4. Enters(p)
    BY <1>14, <2>1, ZenonT(30)
       DEF Enters, Working, Ended, Route, Loading, Pinning, Polling, Switches, Loaders
  <2> QED
    BY <2>3, <2>4 DEF Arrives
<1>15. CASE CollectOwn(p)
  <2>1. pc[p] \in {"own_first", "poll"} /\ pc'[p] = "poll"
    BY <1>15, <1>c, GotoAt, Zenon DEF CollectOwn
  <2>2. maps' = maps /\ id' = id
    BY <1>15 DEF CollectOwn, kernel, stats
  <2>3. Route(p)'
    BY <1>c, <2>1, <2>2, ZenonT(30) DEF Route, Ended, Loading, Pinning, Polling, Switches, Loaders
  <2>4. Enters(p)
    BY <1>15, <2>1, Zenon DEF Enters, Working, Ended, Route, Loading, Pinning, Polling, Switches, Loaders
  <2> QED
    BY <2>3, <2>4 DEF Arrives
<1>16. CASE Access(p)
  <2>1. pc[p] = "access" /\ pc'[p] \in {"unpin", "pin"}
    BY <1>16, <1>c, GotoAt DEF Access
  <2>2. maps' = maps /\ id' = id
    BY <1>16 DEF Access, kernel, stats
  <2>3. Route(p)'
    BY <1>c, <2>1, <2>2, ZenonT(30) DEF Route, Ended, Loading, Pinning, Polling, Switches, Loaders
  <2>4. Enters(p)
    BY <1>16, <2>1, ZenonT(30)
       DEF Enters, Working, Ended, Route, Loading, Pinning, Polling, Switches, Loaders
  <2> QED
    BY <2>3, <2>4 DEF Arrives
<1>17. CASE UnpinMap(p)
  <2>1. pc[p] = "unpin" /\ pc'[p] \in {"unpin", "pin", "failed"}
    BY <1>17, <1>c, <1>i, GotoAt, ZenonT(30) DEF UnpinMap, Step
  <2>2. maps' = maps /\ id' = id
    BY <1>17, ZenonT(30) DEF UnpinMap, kernel, stats
  <2>3. Route(p)'
    BY <1>c, <2>1, <2>2, ZenonT(30) DEF Route, Ended, Loading, Pinning, Polling, Switches, Loaders
  <2>4. Enters(p)
    BY <1>17, <2>1, Zenon DEF Enters, Working, Ended, Route, Loading, Pinning, Polling, Switches, Loaders
  <2> QED
    BY <2>3, <2>4 DEF Arrives
<1>18. CASE PinMap(p)
  <2>1. pc[p] = "pin" /\ pc'[p] \in {"pin", "ok", "unpin_back"}
    BY <1>18, <1>c, <1>i, GotoAt DEF PinMap, Step
  <2>2. maps' = maps /\ id' = id
    BY <1>18, ZenonT(30) DEF PinMap, kernel, stats
  <2>3. Route(p)'
    BY <1>c, <2>1, <2>2, ZenonT(30) DEF Route, Ended, Loading, Pinning, Polling, Switches, Loaders
  <2>4. Enters(p)
    BY <1>18, <2>1, ZenonT(30)
       DEF Enters, Working, Ended, Route, Loading, Pinning, Polling, Switches, Loaders
  <2> QED
    BY <2>3, <2>4 DEF Arrives
<1>19. CASE UnpinBack(p)
  <2>1. pc[p] = "unpin_back" /\ pc'[p] \in {"unpin_back", "failed"}
    BY <1>19, <1>c, <1>i, GotoAt, Zenon DEF UnpinBack
  <2>2. maps' = maps /\ id' = id
    BY <1>19, Zenon DEF UnpinBack, kernel, stats
  <2>3. Route(p)'
    BY <1>c, <2>1, <2>2 DEF Route, Ended, Loading, Pinning, Polling, Switches, Loaders
  <2>4. Enters(p)
    BY <1>19, <2>1, ZenonT(30)
       DEF Enters, Working, Ended, Route, Loading, Pinning, Polling, Switches, Loaders
  <2> QED
    BY <2>3, <2>4 DEF Arrives
<1>20. CASE ConfigureSocket(p)
  <2>1. /\ pc[p] \in {"socket", "start"} /\ (pc[p] = "start" => Tool(p) = "switch_default")
        /\ maps' = maps
        /\ id'[p] = get_xdp_id(cfg[p].mode)
        /\ Goto(p, IF get_xdp_id(cfg[p].mode) = none THEN "own_prog" ELSE "enter")
    BY <1>20, <1>i, Zenon DEF ConfigureSocket, kernel
  <2>2. pc'[p] \in {"own_prog", "enter"} /\ (pc'[p] = "enter" => id'[p] # none)
    BY <1>c, <2>1, GotoAt
  <2>3. Route(p)'
    BY <1>c, <2>1, <2>2 DEF Route, Ended, Loading, Pinning, Polling, Switches, Loaders
  <2>4. Enters(p)
    BY <1>20, <2>1, <2>2, ZenonT(30)
       DEF Enters, Working, Ended, Route, Loading, Pinning, Polling, Switches, Loaders
  <2> QED
    BY <2>3, <2>4 DEF Arrives
<1>21. CASE LeaveLoop(p)
  <2>1. pc[p] = "running" /\ pc'[p] = "get_id"
    BY <1>21, <1>c, GotoAt DEF LeaveLoop
  <2>2. maps' = maps /\ id' = id
    BY <1>21 DEF LeaveLoop, kernel, stats
  <2>3. Route(p)'
    BY <1>c, <2>1, <2>2, ZenonT(30) DEF Route, Ended, Loading, Pinning, Polling, Switches, Loaders
  <2>4. Enters(p)
    BY <1>21, <2>1, ZenonT(30)
       DEF Enters, Working, Ended, Route, Loading, Pinning, Polling, Switches, Loaders
  <2> QED
    BY <2>3, <2>4 DEF Arrives
<1>22. CASE WriteParams(p)
  <2>1. /\ pc[p] \in {"start", "params"} /\ Tool(p) = "params"
        /\ pc'[p] = "ok" \/ (pc'[p] = "params" /\ i'[p] = 2)
    <3>1. CASE i[p] = 2
      <4>1. Goto(p, "ok")
        BY <1>22, <3>1, Three, Zenon DEF WriteParams
      <4> QED
        BY <1>22, <1>c, <4>1, GotoAt, Zenon DEF WriteParams
    <3>2. CASE i[p] = 1
      BY <1>22, <1>i, <3>2, Three DEF WriteParams
    <3> QED
      BY <1>22, <3>1, <3>2, ZenonT(30) DEF WriteParams, Route
  <2>2. maps' = maps /\ id' = id
    BY <1>22, Zenon DEF WriteParams, kernel, stats
  <2>3. Route(p)'
    BY <1>c, <2>1, <2>2, Zenon DEF Route, Ended, Loading, Pinning, Polling, Switches, Loaders
  <2>4. pc[p] = "start" => Starts(p)
    BY <1>22 DEF WriteParams
  <2>5. Enters(p)
    BY <1>22, <2>1, <2>4, ZenonT(30)
       DEF Enters, Working, Ended, Route, Loading, Pinning, Polling, Switches, Loaders
  <2> QED
    BY <2>3, <2>5 DEF Arrives
<1>23. CASE OpenMap(p)
  <2>1. pc[p] \in {"start", "open"} /\ pc'[p] = "first_poll" /\ Tool(p) = "stats"
    BY <1>23, <1>c, GotoAt, Zenon DEF OpenMap
  <2>2. maps' = maps /\ id'[p] # none
    BY <1>23, <1>i, Zenon DEF OpenMap, kernel, stats
  <2>3. Route(p)'
    BY <1>c, <2>1, <2>2 DEF Route, Ended, Loading, Pinning, Polling, Switches, Loaders
  <2>4. Enters(p)
    BY <1>23, <2>1, Zenon DEF Enters, Working, Ended, Route, Loading, Pinning, Polling, Switches, Loaders
  <2> QED
    BY <2>3, <2>4 DEF Arrives
<1>24. CASE PollStats(p)
  <2>1. pc[p] \in {"first_poll", "stats_poll"} /\ pc'[p] \in {"open", "stats_poll"}
    BY <1>24, <1>c, GotoAt, Zenon DEF PollStats, Polling
  <2>2. maps' = maps /\ id' = id
    BY <1>24 DEF PollStats, kernel, stats
  <2>3. Route(p)'
    BY <1>c, <2>1, <2>2, ZenonT(30) DEF Route, Ended, Loading, Pinning, Polling, Switches, Loaders
  <2>4. Enters(p)
    BY <1>24, <2>1, Zenon DEF Enters, Working, Ended, Route, Loading, Pinning, Polling, Switches, Loaders
  <2> QED
    BY <2>3, <2>4 DEF Arrives
<1>25. CASE GiveUp(p)
  <2>1. pc[p] \in {"start", "open", "params", "reuse"} /\ pc'[p] = "failed"
    BY <1>25, <1>c, GotoAt, Zenon DEF GiveUp
  <2>2. maps' = maps /\ id' = id
    BY <1>25 DEF GiveUp, kernel, stats
  <2>3. Route(p)'
    BY <1>c, <2>1, <2>2, ZenonT(30) DEF Route, Ended, Loading, Pinning, Polling, Switches, Loaders
  <2>4. Enters(p)
    BY <1>25, <2>1, Zenon DEF Enters, Working, Ended, Route, Loading, Pinning, Polling, Switches, Loaders
  <2> QED
    BY <2>3, <2>4 DEF Arrives
<1>26. CASE Exit(p)
  <2>1. pc[p] \notin Ended /\ pc'[p] = "killed"
    BY <1>26, <1>c, GotoAt DEF Exit
  <2>2. maps' = maps /\ id' = id
    BY <1>26 DEF Exit, kernel, stats
  <2>3. Route(p)'
    BY <1>c, <2>1, <2>2, ZenonT(30) DEF Route, Ended, Loading, Pinning, Polling, Switches, Loaders
  <2>4. Enters(p)
    BY <1>26, <2>1, ZenonT(30)
       DEF Enters, Working, Ended, Route, Loading, Pinning, Polling, Switches, Loaders
  <2> QED
    BY <2>3, <2>4 DEF Arrives
<1>27. CASE InfoFails(p)
  <2>1. /\ pc[p] \in {"first_poll", "stats_poll", "open"}
        /\ pc'[p] \in {"first_poll", "stats_poll", "open"}
    BY <1>27, <1>c, <1>i, GotoAt, Zenon DEF InfoFails, Polling
  <2>2. maps' = maps /\ id' = id
    BY <1>27, Zenon DEF InfoFails, kernel, stats
  <2>3. Route(p)'
    BY <1>c, <2>1, <2>2 DEF Route, Ended, Loading, Pinning, Polling, Switches, Loaders
  <2>4. Enters(p)
    BY <1>27, <2>1, Zenon DEF Enters, Working, Ended, Route, Loading, Pinning, Polling, Switches, Loaders
  <2> QED
    BY <2>3, <2>4 DEF Arrives
<1>28. CASE xsk_load_xdp_prog(p)
  <2>1. pc[p] = "own_prog" /\ maps' = maps
    BY <1>28, Zenon DEF xsk_load_xdp_prog
  <2>2. pc'[p] = "failed" \/ (pc'[p] = "enter" /\ id'[p] # none)
    <3>1. p # none
      BY ToolsAssumption
    <3> QED
      BY <1>28, <1>c, <1>i, <3>1, GotoAt, Zenon DEF xsk_load_xdp_prog
  <2>3. Route(p)'
    BY <1>c, <2>1, <2>2 DEF Route, Ended, Loading, Pinning, Polling, Switches, Loaders
  <2>4. Enters(p)
    BY <1>28, <2>1, <2>2, ZenonT(30)
       DEF Enters, Working, Ended, Route, Loading, Pinning, Polling, Switches, Loaders
  <2> QED
    BY <2>3, <2>4 DEF Arrives
<1>29. CASE xsk_set_bpf_maps(p)
  <2>1. pc[p] = "enter" /\ pc'[p] \in {"running", "failed"}
    BY <1>29, <1>c, GotoAt, Zenon DEF xsk_set_bpf_maps
  <2>2. maps' = maps /\ id' = id
    BY <1>29, Zenon DEF xsk_set_bpf_maps, kernel, stats
  <2>3. Route(p)'
    BY <1>c, <2>1, <2>2 DEF Route, Ended, Loading, Pinning, Polling, Switches, Loaders
  <2>4. Enters(p)
    BY <1>29, <2>1, ZenonT(30)
       DEF Enters, Working, Ended, Route, Loading, Pinning, Polling, Switches, Loaders
  <2> QED
    BY <2>3, <2>4 DEF Arrives
<1> QED
  BY <1>1, <1>2, <1>3, <1>4, <1>5, <1>6, <1>7, <1>8, <1>9, <1>10, <1>11, <1>12, <1>13, <1>14,
     <1>15, <1>16, <1>17, <1>18, <1>19, <1>20, <1>21, <1>22, <1>23, <1>24, <1>25, <1>26, <1>27,
     <1>28, <1>29, Zenon
     DEF Moves, Proc

\* What an arrival is.
LEMMA Goes == ASSUME TypeOK, NEW p \in Procs, Route(p), Moves(p) PROVE Route(p)' /\ Enters(p)
BY Arrival DEF Arrives
=============================================================================
