------------------------------ MODULE BpfObject ------------------------------
(***************************************************************************)
(* libbpf's life cycle of an object file: open, load with the reuse and    *)
(* the automatic pinning of maps, pinning and unpinning of maps and        *)
(* programs, close.  Several objects, in as many processes, share the BPF  *)
(* file system; each system call on it is a step and may fail.             *)
(*                                                                         *)
(* The kernel's map made for map i of object o is <<o, i>>.                *)
(***************************************************************************)
EXTENDS Naturals, FiniteSets

CONSTANTS
  Objects, none,
  NumMaps, NumProgs,
  PinByName,     \* the maps declared with LIBBPF_PIN_BY_NAME
  MaxFail,       \* most system calls that fail
  MaxCalls       \* most pin calls

Maps == 1 .. NumMaps
Progs == 1 .. NumProgs

\* Directories: the pin_root_path of the open, and one given to pin calls.
Dirs == {"root", "dir"}

ObjectAssumption ==
  /\ NumMaps \in Nat \ {0} /\ NumProgs \in Nat \ {0}
  /\ none \notin Objects \cup (Objects \X Maps) /\ none \notin Dirs

VARIABLES
  pc,       \* where the object's process is
  i,        \* the map or program a loop has reached
  arg,      \* the path given to the pin call under way, none for NULL
  whole,    \* the pin call is bpf_object__pin
  calls,    \* pin calls made
  map,      \* the object's struct bpf_map, with left: unlink failed on its pin
  progfd,   \* program loaded
  leaked,   \* kernel maps to which a descriptor was left open for good
  pins,     \* the BPF file system: the map pinned under each name
  ppins,    \* and the object whose program is pinned
  maker,    \* the object that made each pin of a map
  stale,    \* maps of an object whose pin another object removed: <<object, map>>
  fails

shared == <<pins, ppins, maker, stale>>
call == <<arg, whole, calls>>
objVars == <<pc, i, call, map, progfd, leaked, shared, fails>>

Fresh(m) == [fd |-> none, path |-> IF m \in PinByName THEN "root" ELSE none,
             pinned |-> FALSE, reused |-> FALSE, left |-> FALSE]
Closed == [fd |-> none, path |-> none, pinned |-> FALSE, reused |-> FALSE, left |-> FALSE]

ObjInit ==
  /\ pc = [o \in Objects |-> "closed"] /\ i = [o \in Objects |-> 1]
  /\ arg = [o \in Objects |-> none] /\ whole = [o \in Objects |-> FALSE]
  /\ calls = 0
  /\ map = [o \in Objects |-> [m \in Maps |-> Closed]]
  /\ progfd = [o \in Objects |-> [k \in Progs |-> FALSE]]
  /\ leaked = [o \in Objects |-> {}]
  /\ pins = [d \in Dirs |-> [m \in Maps |-> none]]
  /\ ppins = [d \in Dirs |-> [k \in Progs |-> none]]
  /\ maker = [d \in Dirs |-> [m \in Maps |-> none]]
  /\ stale = {} /\ fails = 0

Goto(o, l, n) == pc' = [pc EXCEPT ![o] = l] /\ i' = [i EXCEPT ![o] = n]
At(o, l) == pc[o] = l
Fail == fails < MaxFail /\ fails' = fails + 1
NoFail == fails' = fails
PinAt(d, m) == IF d = none THEN none ELSE pins[d][m]

-----------------------------------------------------------------------------
(* __bpf_object__open and what a caller may do before the load *)

Open(o) ==
  /\ At(o, "closed") /\ Goto(o, "open", 1)
  /\ map' = [map EXCEPT ![o] = [m \in Maps |-> Fresh(m)]]
  /\ UNCHANGED <<call, progfd, leaked, shared, fails>>

bpf_map__set_pin_path(o, m, d) ==
  /\ At(o, "open")
  /\ map' = [map EXCEPT ![o][m].path = d]
  /\ UNCHANGED <<pc, i, call, progfd, leaked, shared, fails>>

\* bpf_map__reuse_fd on a map the caller opened by its name.
bpf_map__reuse_fd(o, m, d) ==
  /\ At(o, "open") /\ pins[d][m] # none
  /\ map' = [map EXCEPT ![o][m].fd = pins[d][m], ![o][m].reused = TRUE]
  /\ UNCHANGED <<pc, i, call, progfd, leaked, shared, fails>>

-----------------------------------------------------------------------------
(* bpf_object__load_xattr *)

\* An object is loaded once: obj->loaded is set before anything is tried.
Load(o) ==
  /\ At(o, "open") /\ Goto(o, "map", 1)
  /\ UNCHANGED <<call, map, progfd, leaked, shared, fails>>

NextMap(o) ==
  IF i[o] = NumMaps THEN Goto(o, "progs", 1) ELSE Goto(o, "map", i[o] + 1)

\* bpf_object__reuse_map: a map pinned at the map's path takes its place.  The
\* descriptor it was opened with stays open.
bpf_object__reuse_map(o) ==
  /\ At(o, "map")
  /\ LET m == i[o] d == map[o][m].path IN
     /\ d # none
     /\ \/ /\ pins[d][m] = none /\ NoFail /\ UNCHANGED <<map, leaked>>
           /\ Goto(o, "create", m)
        \/ /\ pins[d][m] # none /\ NoFail
           /\ map' = [map EXCEPT ![o][m] = [fd |-> pins[d][m], path |-> d,
                                            pinned |-> TRUE, reused |-> TRUE, left |-> FALSE]]
           /\ leaked' = [leaked EXCEPT ![o] = @ \cup {pins[d][m]}]
           /\ NextMap(o)
        \/ /\ pins[d][m] # none
           /\ Fail /\ Goto(o, "out", 1) /\ UNCHANGED <<map, leaked>>
  /\ UNCHANGED <<call, progfd, shared>>

\* The creation of a map that is not preset, and the filling of an internal
\* one; its failure closes the maps before it.
CreateMap(o) ==
  /\ \/ At(o, "create")
     \/ At(o, "map") /\ map[o][i[o]].path = none
  /\ LET m == i[o]
         made == [map EXCEPT ![o][m].fd = <<o, m>>]
     IN
     \/ /\ map[o][m].fd # none /\ NoFail /\ map' = map
        /\ NextMap(o)
     \/ /\ map[o][m].fd = none /\ NoFail /\ map' = made
        /\ IF map[o][m].path # none THEN Goto(o, "autopin", m) ELSE NextMap(o)
     \/ /\ map[o][m].fd = none /\ Fail
        /\ map' = [map EXCEPT ![o] = [j \in Maps |-> IF j < m THEN [@[j] EXCEPT !.fd = none] ELSE @[j]]]
        /\ Goto(o, "out", 1)
  /\ UNCHANGED <<call, progfd, leaked, shared>>

\* bpf_map__pin(map, NULL) of a map just created.
AutoPin(o) ==
  /\ At(o, "autopin")
  /\ LET m == i[o] d == map[o][m].path IN
     \/ /\ pins[d][m] = none /\ NoFail
        /\ pins' = [pins EXCEPT ![d][m] = map[o][m].fd]
        /\ maker' = [maker EXCEPT ![d][m] = o]
        /\ map' = [map EXCEPT ![o][m].pinned = TRUE] /\ NextMap(o)
     \/ /\ IF pins[d][m] # none THEN NoFail ELSE Fail
        /\ Goto(o, "out", 1) /\ UNCHANGED <<map, pins, maker>>
  /\ UNCHANGED <<call, progfd, leaked, ppins, stale>>

\* Relocation and bpf_object__load_progs, program by program.
LoadProg(o) ==
  /\ At(o, "progs")
  /\ \/ /\ NoFail /\ progfd' = [progfd EXCEPT ![o][i[o]] = TRUE]
        /\ IF i[o] = NumProgs THEN Goto(o, "loaded", 1) ELSE Goto(o, "progs", i[o] + 1)
     \/ /\ Fail /\ progfd' = progfd /\ Goto(o, "out", 1)
  /\ UNCHANGED <<call, map, leaked, shared>>

\* unlink by name, whoever pinned the map there.
Unlink(o, m, d) ==
  /\ pins' = [pins EXCEPT ![d][m] = none] /\ maker' = [maker EXCEPT ![d][m] = none]
  /\ stale' = (stale \cup {<<q, m>> : q \in {q \in Objects : map[q][m].pinned /\ map[q][m].path = d}})
               \ {<<o, m>>}

\* The end of the clean-up's step at map i[o]: after the last map,
\* bpf_object__unload closes everything.
UndoEnds(o, maps) ==
  LET last == i[o] = NumMaps IN
  /\ map' = IF last THEN [maps EXCEPT ![o] = [j \in Maps |-> [@[j] EXCEPT !.fd = none]]] ELSE maps
  /\ progfd' = IF last THEN [progfd EXCEPT ![o] = [k \in Progs |-> FALSE]] ELSE progfd
  /\ IF last THEN Goto(o, "failed", 1) ELSE Goto(o, "out", i[o] + 1)

\* Mutant: pins of reused maps are removed as well.
UndoPin_Reused(o) ==
  /\ At(o, "out")
  /\ LET m == i[o] d == map[o][m].path
         there == map[o][m].pinned /\ PinAt(d, m) # none
     IN
     \/ /\ there /\ NoFail
        /\ Unlink(o, m, d) /\ UndoEnds(o, [map EXCEPT ![o][m].pinned = FALSE])
     \/ /\ there /\ Fail
        /\ UNCHANGED <<pins, maker, stale>> /\ UndoEnds(o, [map EXCEPT ![o][m].left = TRUE])
     \/ /\ ~there /\ NoFail
        /\ UNCHANGED <<pins, maker, stale>> /\ UndoEnds(o, map)
  /\ UNCHANGED <<call, leaked, ppins>>

\* The end of a load that failed: the pins it made are removed, by name, then
\* everything is closed.  What bpf_map__unpin returns is ignored: a pin whose
\* unlink fails stays, and so does the flag, also when there is no such file.
UndoPin(o) ==
  /\ At(o, "out")
  /\ LET m == i[o] d == map[o][m].path
         there == map[o][m].pinned /\ ~map[o][m].reused /\ PinAt(d, m) # none
     IN
     \/ /\ there /\ NoFail
        /\ Unlink(o, m, d) /\ UndoEnds(o, [map EXCEPT ![o][m].pinned = FALSE])
     \/ /\ there /\ Fail
        /\ UNCHANGED <<pins, maker, stale>> /\ UndoEnds(o, [map EXCEPT ![o][m].left = TRUE])
     \/ /\ ~there /\ NoFail
        /\ UNCHANGED <<pins, maker, stale>> /\ UndoEnds(o, map)
  /\ UNCHANGED <<call, leaked, ppins>>

-----------------------------------------------------------------------------
(* bpf_object__pin_maps, __unpin_maps, __pin_programs, __unpin_programs, __pin *)

Call(o, l, d, w) ==
  /\ At(o, "loaded") /\ Goto(o, l, 1) /\ calls < MaxCalls /\ calls' = calls + 1
  /\ arg' = [arg EXCEPT ![o] = d] /\ whole' = [whole EXCEPT ![o] = w]
  /\ UNCHANGED <<map, progfd, leaked, shared, fails>>

Step(o, l, n) == Goto(o, l, n) /\ UNCHANGED <<arg, whole>>
Return(o) ==
  /\ Goto(o, "loaded", 1)
  /\ arg' = [arg EXCEPT ![o] = none] /\ whole' = [whole EXCEPT ![o] = FALSE]

PinCall(o) ==
  \/ \E d \in Dirs \cup {none} : Call(o, "pin_maps", d, FALSE) \/ Call(o, "unpin_maps", d, FALSE)
  \/ \E d \in Dirs : Call(o, "pin_progs", d, FALSE) \/ Call(o, "unpin_progs", d, FALSE)
                       \/ Call(o, "pin_maps", d, TRUE)

PinnedAll(o) == IF whole[o] THEN Step(o, "pin_progs", 1) ELSE Return(o)
PinNext(o) == IF i[o] = NumMaps THEN PinnedAll(o) ELSE Step(o, "pin_maps", i[o] + 1)

\* bpf_map__pin: a map keeps its pin path, and is pinned at one place.  A pin
\* that fails leaves the path set.
bpf_map__pin(o) ==
  /\ At(o, "pin_maps")
  /\ LET m == i[o] mp == map[o][m]
         d == IF mp.path # none THEN mp.path ELSE arg[o]
     IN
     \/ /\ \/ arg[o] = none /\ mp.path = none
           \/ mp.path # none /\ arg[o] \in {none, mp.path} /\ mp.pinned
        /\ PinNext(o) /\ NoFail /\ UNCHANGED <<map, pins, maker>>
     \/ /\ mp.path # none /\ arg[o] \notin {none, mp.path}
        /\ Step(o, "pin_back", m) /\ NoFail /\ UNCHANGED <<map, pins, maker>>
     \/ /\ mp.path = none /\ arg[o] # none /\ mp.pinned
        /\ Step(o, "pin_back", m) /\ NoFail /\ UNCHANGED <<map, pins, maker>>
     \/ /\ d # none /\ arg[o] \in {none, d} /\ ~mp.pinned
        /\ \/ /\ pins[d][m] = none /\ NoFail
              /\ pins' = [pins EXCEPT ![d][m] = mp.fd] /\ maker' = [maker EXCEPT ![d][m] = o]
              /\ map' = [map EXCEPT ![o][m].path = d, ![o][m].pinned = TRUE]
              /\ PinNext(o)
           \/ /\ IF pins[d][m] # none THEN NoFail ELSE Fail
              /\ map' = [map EXCEPT ![o][m].path = d]
              /\ Step(o, "pin_back", m) /\ UNCHANGED <<pins, maker>>
  /\ UNCHANGED <<calls, progfd, leaked, ppins, stale>>

\* The roll-back of bpf_object__pin_maps unpins every earlier map with a path,
\* and goes on when that fails.
PinBack(o) ==
  /\ At(o, "pin_back")
  /\ LET m == i[o] - 1 d == IF m = 0 THEN none ELSE map[o][m].path IN
     \/ m = 0 /\ Return(o) /\ NoFail /\ UNCHANGED <<map, pins, maker, stale>>
     \/ /\ m > 0 /\ (IF PinAt(d, m) = none THEN NoFail ELSE Fail)
        /\ Step(o, "pin_back", m) /\ UNCHANGED <<map, pins, maker, stale>>
     \/ /\ m > 0 /\ d # none /\ pins[d][m] # none /\ NoFail
        /\ Unlink(o, m, d) /\ map' = [map EXCEPT ![o][m].pinned = FALSE]
        /\ Step(o, "pin_back", m)
  /\ UNCHANGED <<calls, progfd, leaked, ppins>>

\* bpf_object__unpin_maps stops at the first map it cannot unpin.
bpf_map__unpin(o) ==
  /\ At(o, "unpin_maps")
  /\ LET m == i[o] p == map[o][m].path
         d == IF p # none THEN p ELSE arg[o]
         next == IF m = NumMaps THEN Return(o) ELSE Step(o, "unpin_maps", m + 1)
     IN
     \/ d = none /\ next /\ NoFail /\ UNCHANGED <<map, pins, maker, stale>>
     \/ /\ d # none /\ (IF arg[o] \in {none, d} => PinAt(d, m) = none THEN NoFail ELSE Fail)
        /\ Return(o) /\ UNCHANGED <<map, pins, maker, stale>>
     \/ /\ d # none /\ arg[o] \in {none, d} /\ pins[d][m] # none /\ NoFail
        /\ Unlink(o, m, d) /\ map' = [map EXCEPT ![o][m].pinned = FALSE] /\ next
  /\ UNCHANGED <<calls, progfd, leaked, ppins>>

\* bpf_program__pin; a failure unpins the programs before it, and in
\* bpf_object__pin the maps.
bpf_program__pin(o) ==
  /\ At(o, "pin_progs")
  /\ LET k == i[o] d == arg[o] IN
     \/ /\ ppins[d][k] = none /\ NoFail
        /\ ppins' = [ppins EXCEPT ![d][k] = o]
        /\ IF k = NumProgs THEN Return(o) ELSE Step(o, "pin_progs", k + 1)
     \/ /\ IF ppins[d][k] # none THEN NoFail ELSE Fail
        /\ ppins' = ppins /\ Step(o, "progs_back", k)
  /\ UNCHANGED <<calls, map, progfd, leaked, pins, maker, stale>>

ProgsBack(o) ==
  /\ At(o, "progs_back")
  /\ LET k == i[o] - 1 IN
     \/ /\ k = 0 /\ NoFail /\ ppins' = ppins
        /\ IF whole[o] THEN Step(o, "unpin_maps", 1) ELSE Return(o)
     \/ /\ k > 0 /\ Step(o, "progs_back", k)
        /\ \/ NoFail /\ ppins' = [ppins EXCEPT ![arg[o]][k] = none]
           \/ Fail /\ ppins' = ppins
  /\ UNCHANGED <<calls, map, progfd, leaked, pins, maker, stale>>

bpf_program__unpin(o) ==
  /\ At(o, "unpin_progs")
  /\ LET k == i[o] d == arg[o] IN
     \/ /\ IF ppins[d][k] = none THEN NoFail ELSE Fail
        /\ ppins' = ppins /\ Return(o)
     \/ /\ ppins[d][k] # none /\ NoFail /\ ppins' = [ppins EXCEPT ![d][k] = none]
        /\ IF k = NumProgs THEN Return(o) ELSE Step(o, "unpin_progs", k + 1)
  /\ UNCHANGED <<calls, map, progfd, leaked, pins, maker, stale>>

-----------------------------------------------------------------------------

\* bpf_object__close; pins outlive the object.
bpf_object__close(o) ==
  /\ pc[o] \in {"open", "loaded", "failed"} /\ Goto(o, "done", 1)
  /\ map' = [map EXCEPT ![o] = [m \in Maps |-> Closed]]
  /\ progfd' = [progfd EXCEPT ![o] = [k \in Progs |-> FALSE]]
  /\ UNCHANGED <<call, leaked, shared, fails>>

Steps(o) ==
  \/ Open(o) \/ Load(o) \/ bpf_object__close(o)
  \/ \E m \in Maps, d \in Dirs : bpf_map__reuse_fd(o, m, d)
  \/ \E m \in Maps, d \in {"root", none} : bpf_map__set_pin_path(o, m, d)
  \/ bpf_object__reuse_map(o) \/ CreateMap(o) \/ AutoPin(o) \/ LoadProg(o) \/ UndoPin(o)
  \/ PinCall(o) \/ bpf_map__pin(o) \/ PinBack(o) \/ bpf_map__unpin(o)
  \/ bpf_program__pin(o) \/ ProgsBack(o) \/ bpf_program__unpin(o)

ObjNext == \E o \in Objects : Steps(o)

ObjSpec == ObjInit /\ [][ObjNext]_objVars

-----------------------------------------------------------------------------
\* The descriptors of an object's process: those the object knows, and those
\* bpf_object__reuse_map left open.
HoldsNothing(o) ==
  /\ \A m \in Maps : map[o][m].fd = none
  /\ \A k \in Progs : ~progfd[o][k]
  /\ \A f \in leaked[o] : f[1] # o

\* A load that failed, at whatever step, leaves the process no descriptor but
\* those of other objects' maps that it had found pinned, and no pin that it
\* made but those whose unlink failed; these the object still says are pinned.
FailedLoadClean ==
  \A o \in Objects : pc[o] = "failed" =>
    /\ HoldsNothing(o)
    /\ \A d \in Dirs, m \in Maps : maker[d][m] = o => map[o][m].left /\ map[o][m].pinned

\* Its clean-up, which removes pins by name, takes no pin another object made,
\* unless its own was removed from that name behind its back.
UndoesOwn ==
  \A o \in Objects, d \in Dirs, m \in Maps :
    /\ pc[o] = "out" /\ <<pc'[o], i'[o]>> # <<pc[o], i[o]>>
    /\ pins'[d][m] # pins[d][m]
    => maker[d][m] = o \/ <<o, m>> \in stale

\* Objects that take a map from the same name share it: also when they were
\* loaded at the same time and each found no map there at first.  Only a pin
\* removed while both use it, by an unpin or by the clean-up of the load that
\* made it, ends that.
SharedByName ==
  \A o, q \in Objects, m \in Maps :
    /\ map[o][m].pinned /\ map[q][m].pinned
    /\ map[o][m].path = map[q][m].path /\ {<<o, m>>, <<q, m>>} \cap stale = {}
    /\ map[o][m].fd # none /\ map[q][m].fd # none
    => map[o][m].fd = map[q][m].fd

\* The pinned flag tells where the map is pinned, until somebody else unpins it.
PinnedIsPinned ==
  \A o \in Objects, m \in Maps :
    LET mp == map[o][m] IN
    mp.pinned /\ mp.fd # none /\ <<o, m>> \notin stale =>
      mp.path # none /\ pins[mp.path][m] = mp.fd

\* A closed object leaves its process no descriptor of a map of its own or of a
\* program: what bpf_object__reuse_map left open is of other objects' maps.
ClosedHoldsNothing ==
  \A o \in Objects : pc[o] \in {"closed", "done"} => HoldsNothing(o)

\* Loops stay inside the object's arrays.
ObjTypeOK ==
  /\ \A o \in Objects :
       /\ i[o] \in 1 .. (IF pc[o] \in {"progs", "pin_progs", "unpin_progs"} THEN NumProgs ELSE NumMaps)
       /\ \A m \in Maps : map[o][m].fd \in {none} \cup (Objects \X Maps)
  /\ \A d \in Dirs, m \in Maps : (pins[d][m] = none) = (maker[d][m] = none)

=============================================================================
