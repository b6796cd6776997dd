------------------------------ MODULE BpfProofs ------------------------------
(***************************************************************************)
(* For any objects on one BPF file system: BpfObject's loads, pins and     *)
(* clean-ups stay consistent.  The invariant follows each object through   *)
(* its load: which maps have a descriptor, which pins are its own, and     *)
(* that its flags are true of the file system until another object's       *)
(* unlink is noted in stale.                                               *)
(***************************************************************************)
EXTENDS BpfObject, TLAPS

-----------------------------------------------------------------------------
(* The inductive invariant of BpfObject.  What it claims of an object      *)
(* rests on what its load has done so far, and on what the other objects   *)
(* may do to the pins.                                                     *)

Fds == {none} \cup (Objects \X Maps)
MapRec == [fd : Fds, path : Dirs \cup {none}, pinned : BOOLEAN, reused : BOOLEAN, left : BOOLEAN]

MapLoops == {"map", "create", "autopin", "out", "pin_maps", "pin_back", "unpin_maps"}
ProgLoops == {"progs", "pin_progs", "progs_back", "unpin_progs"}

ObjPcs == {"closed", "open", "loaded", "failed", "done"} \cup MapLoops \cup ProgLoops

ObjTypes ==
  /\ pc \in [Objects -> ObjPcs]
  /\ i \in [Objects -> Nat]
  /\ arg \in [Objects -> Dirs \cup {none}]
  /\ map \in [Objects -> [Maps -> MapRec]]
  /\ progfd \in [Objects -> [Progs -> BOOLEAN]]
  /\ pins \in [Dirs -> [Maps -> Fds]]
  /\ maker \in [Dirs -> [Maps -> Objects \cup {none}]]

\* A loop has reached a map of the object.
InArray(o) ==
  /\ pc[o] \in MapLoops => i[o] \in Maps
  /\ pc[o] = "open" => i[o] = 1

\* The load has yet to come to a map: it is not pinned, and a caller's
\* descriptor is there.  One that is about to be pinned was created.
Ahead(o) ==
  /\ pc[o] \in {"open", "map", "create", "autopin"} =>
       \A m \in Maps : m >= i[o] => ~map[o][m].pinned /\ (map[o][m].reused => map[o][m].fd # none)
  /\ pc[o] = "autopin" => ~map[o][i[o]].reused /\ map[o][i[o]].path # none

\* The maps the load has come past, and then all of them, have a descriptor.
Later == {"loaded", "pin_maps", "pin_back", "unpin_maps", "pin_progs", "progs_back", "unpin_progs"}
HasFds(o) ==
  /\ pc[o] \in Later \cup {"progs"} => \A m \in Maps : map[o][m].fd # none
  /\ pc[o] \in {"map", "create", "autopin"} => \A m \in Maps : m < i[o] => map[o][m].fd # none
  /\ pc[o] = "autopin" => map[o][i[o]].fd # none

\* The pins an object made by the end of a load are those its maps tell of,
\* and the clean-up of a load that failed has removed them so far, or could not.
Loading == {"map", "create", "autopin", "progs", "out"}
OwnPins(o) ==
  /\ pc[o] \in {"closed", "open"} => \A d \in Dirs, m \in Maps : maker[d][m] # o
  /\ pc[o] \in Loading => \A d \in Dirs, m \in Maps : maker[d][m] = o =>
       /\ map[o][m].pinned /\ ~map[o][m].reused /\ map[o][m].path = d
       /\ pc[o] = "out" => m >= i[o] \/ map[o][m].left
  /\ pc[o] = "failed" => \A d \in Dirs, m \in Maps : maker[d][m] = o => map[o][m].left /\ map[o][m].pinned

\* A map a load pinned is pinned by it, until somebody else unpins it.
StillOwn(o) ==
  pc[o] \in Loading => \A m \in Maps :
    map[o][m].pinned /\ ~map[o][m].reused /\ <<o, m>> \notin stale =>
      map[o][m].path \in Dirs /\ maker[map[o][m].path][m] = o

\* The flag tells where the map is pinned, until somebody else unpins it.
FlagTrue(o) ==
  \A m \in Maps :
    map[o][m].pinned /\ map[o][m].fd # none /\ <<o, m>> \notin stale =>
      map[o][m].path \in Dirs /\ pins[map[o][m].path][m] = map[o][m].fd

\* A pinned map has a path.
HasPath(o) == \A m \in Maps : map[o][m].pinned => map[o][m].path \in Dirs

\* An object that is not in use holds nothing.
Empty(o) ==
  pc[o] \in {"closed", "done", "failed"} =>
    (\A m \in Maps : map[o][m].fd = none) /\ (\A k \in Progs : ~progfd[o][k])

ObjectOK(o) ==
  /\ InArray(o) /\ Ahead(o) /\ HasFds(o) /\ Empty(o)
  /\ OwnPins(o) /\ StillOwn(o) /\ FlagTrue(o) /\ HasPath(o)

ObjInv ==
  /\ ObjTypes
  /\ \A d \in Dirs, m \in Maps : pins[d][m] = none <=> maker[d][m] = none
  /\ \A o \in Objects : ObjectOK(o)

-----------------------------------------------------------------------------
(* What a step does to the maps and the pins *)

\* One struct bpf_map changes.
LEMMA MapSet ==
  ASSUME ObjTypes, NEW a \in Objects, NEW m \in Maps, NEW r \in MapRec, map' = [map EXCEPT ![a][m] = r]
  PROVE  /\ map' \in [Objects -> [Maps -> MapRec]] /\ map'[a][m] = r
         /\ \A n \in Maps : n # m => map'[a][n] = map[a][n]
         /\ \A o \in Objects : o # a => map'[o] = map[o]
BY Zenon DEF ObjTypes

\* The struct bpf_map of an object all change.
LEMMA MapsSet ==
  ASSUME ObjTypes, NEW a \in Objects, NEW f \in [Maps -> MapRec], map' = [map EXCEPT ![a] = f]
  PROVE  /\ map' \in [Objects -> [Maps -> MapRec]] /\ map'[a] = f
         /\ \A o \in Objects : o # a => map'[o] = map[o]
BY Zenon DEF ObjTypes

\* An object's process goes on.
LEMMA Went ==
  ASSUME ObjTypes, NEW a \in Objects, NEW l, NEW n, Goto(a, l, n)
  PROVE  /\ pc'[a] = l /\ i'[a] = n
         /\ \A o \in Objects : o # a => pc'[o] = pc[o] /\ i'[o] = i[o]
BY Zenon DEF ObjTypes, Goto

\* An object pins its map m at a free name.
PinsAt(a, d, m) ==
  /\ pins[d][m] = none /\ map[a][m].fd # none
  /\ pins' = [pins EXCEPT ![d][m] = map[a][m].fd] /\ maker' = [maker EXCEPT ![d][m] = a]
  /\ stale' = stale

\* A pin changes one name: it leads to the map, and the object made it.
LEMMA PinsAtFacts ==
  ASSUME ObjTypes, NEW a \in Objects, NEW d \in Dirs, NEW m \in Maps, PinsAt(a, d, m)
  PROVE  /\ pins' \in [Dirs -> [Maps -> Fds]] /\ maker' \in [Dirs -> [Maps -> Objects \cup {none}]]
         /\ pins'[d][m] = map[a][m].fd /\ maker'[d][m] = a
         /\ \A e \in Dirs, n \in Maps : e # d \/ n # m => pins'[e][n] = pins[e][n] /\ maker'[e][n] = maker[e][n]
<1>1. map[a][m].fd \in Fds
  BY Zenon DEF ObjTypes, MapRec
<1>2. /\ pins' \in [Dirs -> [Maps -> Fds]] /\ pins'[d][m] = map[a][m].fd
      /\ \A e \in Dirs, n \in Maps : e # d \/ n # m => pins'[e][n] = pins[e][n]
  BY <1>1, Zenon DEF ObjTypes, PinsAt
<1>3. /\ maker' \in [Dirs -> [Maps -> Objects \cup {none}]] /\ maker'[d][m] = a
      /\ \A e \in Dirs, n \in Maps : e # d \/ n # m => maker'[e][n] = maker[e][n]
  BY Zenon DEF ObjTypes, PinsAt
<1> QED
  BY <1>2, <1>3, Zenon

\* An unlink frees one name, and is noted for every other object whose map
\* is pinned there.
LEMMA UnlinkFacts ==
  ASSUME ObjTypes, NEW a \in Objects, NEW d \in Dirs, NEW m \in Maps, Unlink(a, m, d)
  PROVE  /\ pins' \in [Dirs -> [Maps -> Fds]] /\ maker' \in [Dirs -> [Maps -> Objects \cup {none}]]
         /\ pins'[d][m] = none /\ maker'[d][m] = none
         /\ \A e \in Dirs, n \in Maps : e # d \/ n # m => pins'[e][n] = pins[e][n] /\ maker'[e][n] = maker[e][n]
         /\ \A o \in Objects, n \in Maps : <<o, n>> \notin stale' =>
              \/ o = a /\ n = m
              \/ <<o, n>> \notin stale /\ (n = m => ~(map[o][m].pinned /\ map[o][m].path = d))
<1>1. /\ pins' \in [Dirs -> [Maps -> Fds]] /\ pins'[d][m] = none
      /\ \A e \in Dirs, n \in Maps : e # d \/ n # m => pins'[e][n] = pins[e][n]
  BY Zenon DEF ObjTypes, Unlink, Fds
<1>2. /\ maker' \in [Dirs -> [Maps -> Objects \cup {none}]] /\ maker'[d][m] = none
      /\ \A e \in Dirs, n \in Maps : e # d \/ n # m => maker'[e][n] = maker[e][n]
  BY Zenon DEF ObjTypes, Unlink
<1>3. ASSUME NEW o \in Objects, NEW n \in Maps, <<o, n>> \notin stale', ~(o = a /\ n = m)
      PROVE  <<o, n>> \notin stale /\ (n = m => ~(map[o][m].pinned /\ map[o][m].path = d))
  <2>1. <<o, n>> # <<a, m>>
    BY <1>3
  <2>2. <<o, n>> \notin stale \cup {<<q, m>> : q \in {q \in Objects : map[q][m].pinned /\ map[q][m].path = d}}
    BY <1>3, <2>1, Zenon DEF Unlink
  <2> QED
    BY <2>2, Zenon
<1> QED
  BY <1>1, <1>2, <1>3, Zenon

\* What a step of an object may do to the pins.
SharedStep(a) ==
  \/ UNCHANGED <<pins, maker, stale>>
  \/ \E d \in Dirs, m \in Maps : PinsAt(a, d, m)
  \/ \E d \in Dirs, m \in Maps : Unlink(a, m, d)

\* A step of another object keeps what is said of an object: it takes no name
\* that is taken, and a pin it removes is stale for the object.
LEMMA Bystander ==
  ASSUME ObjectAssumption, ObjInv, NEW a \in Objects, NEW o \in Objects, o # a, SharedStep(a),
         pc'[o] = pc[o], i'[o] = i[o], map'[o] = map[o], progfd'[o] = progfd[o]
  PROVE  ObjectOK(o)'
<1>1. /\ ObjTypes /\ ObjectOK(o) /\ none # o /\ none # a
      /\ \A d \in Dirs, m \in Maps : pins[d][m] = none <=> maker[d][m] = none
  BY Zenon DEF ObjInv, ObjectAssumption
<1>2. InArray(o)' /\ Ahead(o)' /\ HasFds(o)' /\ Empty(o)' /\ HasPath(o)'
  <2>1. InArray(o) /\ Ahead(o) /\ HasFds(o) /\ Empty(o) /\ HasPath(o)
    BY <1>1, Zenon DEF ObjectOK
  <2>2. InArray(o)' /\ HasFds(o)'
    BY <2>1, Zenon DEF InArray, HasFds
  <2>3. Ahead(o)' /\ Empty(o)' /\ HasPath(o)'
    BY <2>1, Zenon DEF Ahead, Empty, HasPath
  <2> QED
    BY <2>2, <2>3, Zenon
<1>3. OwnPins(o)' /\ StillOwn(o)' /\ FlagTrue(o)'
  <2>1. ASSUME NEW e \in Dirs, NEW n \in Maps, maker'[e][n] = o PROVE maker[e][n] = o
    <3>1. CASE UNCHANGED <<pins, maker, stale>>
      BY <2>1, <3>1, Zenon
    <3>2. ASSUME NEW d \in Dirs, NEW m \in Maps, PinsAt(a, d, m) PROVE maker[e][n] = o
      <4>1. maker'[d][m] = a /\ \A y \in Dirs, z \in Maps : y # d \/ z # m => maker'[y][z] = maker[y][z]
        BY <1>1, <3>2, PinsAtFacts
      <4> QED
        BY <2>1, <4>1, Zenon
    <3>3. ASSUME NEW d \in Dirs, NEW m \in Maps, Unlink(a, m, d) PROVE maker[e][n] = o
      <4>1. maker'[d][m] = none /\ \A y \in Dirs, z \in Maps : y # d \/ z # m => maker'[y][z] = maker[y][z]
        BY <1>1, <3>3, UnlinkFacts
      <4> QED
        BY <1>1, <2>1, <4>1, Zenon
    <3> QED
      BY <3>1, <3>2, <3>3, Zenon DEF SharedStep
  <2>2. ASSUME NEW n \in Maps, <<o, n>> \notin stale' PROVE <<o, n>> \notin stale
    <3>1. ASSUME NEW d \in Dirs, NEW m \in Maps, Unlink(a, m, d) PROVE <<o, n>> \notin stale
      BY <1>1, <2>2, <3>1, UnlinkFacts
    <3> QED
      BY <2>2, <3>1, Zenon DEF SharedStep, PinsAt
  <2>3. ASSUME NEW n \in Maps, <<o, n>> \notin stale', map[o][n].pinned,
               map[o][n].path \in Dirs, pins[map[o][n].path][n] # none
        PROVE  /\ pins'[map[o][n].path][n] = pins[map[o][n].path][n]
               /\ maker'[map[o][n].path][n] = maker[map[o][n].path][n]
    <3>1. CASE UNCHANGED <<pins, maker, stale>>
      BY <3>1, Zenon
    <3>2. ASSUME NEW d \in Dirs, NEW m \in Maps, PinsAt(a, d, m)
          PROVE  /\ pins'[map[o][n].path][n] = pins[map[o][n].path][n]
                 /\ maker'[map[o][n].path][n] = maker[map[o][n].path][n]
      <4>1. pins[d][m] = none
        BY <3>2, Zenon DEF PinsAt
      <4>2. map[o][n].path # d \/ n # m
        BY <2>3, <4>1, Zenon
      <4>3. \A y \in Dirs, z \in Maps : y # d \/ z # m => pins'[y][z] = pins[y][z] /\ maker'[y][z] = maker[y][z]
        BY <1>1, <3>2, PinsAtFacts
      <4> QED
        BY <2>3, <4>2, <4>3, Zenon
    <3>3. ASSUME NEW d \in Dirs, NEW m \in Maps, Unlink(a, m, d)
          PROVE  /\ pins'[map[o][n].path][n] = pins[map[o][n].path][n]
                 /\ maker'[map[o][n].path][n] = maker[map[o][n].path][n]
      <4>1. /\ \A q \in Objects, z \in Maps : <<q, z>> \notin stale' =>
                 \/ q = a /\ z = m
                 \/ <<q, z>> \notin stale /\ (z = m => ~(map[q][m].pinned /\ map[q][m].path = d))
            /\ \A y \in Dirs, z \in Maps : y # d \/ z # m => pins'[y][z] = pins[y][z] /\ maker'[y][z] = maker[y][z]
        BY <1>1, <3>3, UnlinkFacts
      <4>2. map[o][n].path # d \/ n # m
        BY <2>3, <4>1, ZenonT(30)
      <4> QED
        BY <2>3, <4>1, <4>2, Zenon
    <3> QED
      BY <3>1, <3>2, <3>3, Zenon DEF SharedStep
  <2>4. OwnPins(o)'
    BY <1>1, <2>1 DEF ObjectOK, OwnPins
  <2>5. ASSUME pc[o] \in Loading, NEW n \in Maps, map[o][n].pinned, ~map[o][n].reused, <<o, n>> \notin stale'
        PROVE  map[o][n].path \in Dirs /\ maker'[map[o][n].path][n] = o
    <3>1. map[o][n].path \in Dirs /\ maker[map[o][n].path][n] = o
      BY <1>1, <2>2, <2>5, Zenon DEF ObjectOK, StillOwn
    <3>2. pins[map[o][n].path][n] # none
      BY <1>1, <3>1, Zenon
    <3> QED
      BY <2>3, <2>5, <3>1, <3>2, Zenon
  <2>6. StillOwn(o)'
    BY <2>5, Zenon DEF StillOwn
  <2>7. ASSUME NEW n \in Maps, map[o][n].pinned, map[o][n].fd # none, <<o, n>> \notin stale'
        PROVE  map[o][n].path \in Dirs /\ pins'[map[o][n].path][n] = map[o][n].fd
    <3>1. map[o][n].path \in Dirs /\ pins[map[o][n].path][n] = map[o][n].fd
      BY <1>1, <2>2, <2>7, Zenon DEF ObjectOK, FlagTrue
    <3> QED
      BY <2>3, <2>7, <3>1, Zenon
  <2>8. FlagTrue(o)'
    BY <2>7, Zenon DEF FlagTrue
  <2> QED
    BY <2>4, <2>6, <2>8, Zenon
<1> QED
  BY <1>2, <1>3, Zenon DEF ObjectOK

\* The pins and their makers agree after a step.
LEMMA Agree ==
  ASSUME ObjectAssumption, ObjInv, NEW a \in Objects, SharedStep(a)
  PROVE  /\ pins' \in [Dirs -> [Maps -> Fds]] /\ maker' \in [Dirs -> [Maps -> Objects \cup {none}]]
         /\ \A d \in Dirs, m \in Maps : pins'[d][m] = none <=> maker'[d][m] = none
<1>1. /\ ObjTypes /\ none # a
      /\ \A d \in Dirs, m \in Maps : pins[d][m] = none <=> maker[d][m] = none
  BY Zenon DEF ObjInv, ObjectAssumption
<1>2. CASE UNCHANGED <<pins, maker, stale>>
  BY <1>1, <1>2 DEF ObjTypes
<1>3. ASSUME NEW d \in Dirs, NEW m \in Maps, PinsAt(a, d, m)
      PROVE  /\ pins' \in [Dirs -> [Maps -> Fds]] /\ maker' \in [Dirs -> [Maps -> Objects \cup {none}]]
             /\ \A e \in Dirs, n \in Maps : pins'[e][n] = none <=> maker'[e][n] = none
  <2>1. /\ pins' \in [Dirs -> [Maps -> Fds]] /\ maker' \in [Dirs -> [Maps -> Objects \cup {none}]]
        /\ pins'[d][m] = map[a][m].fd /\ maker'[d][m] = a
        /\ \A e \in Dirs, n \in Maps : e # d \/ n # m => pins'[e][n] = pins[e][n] /\ maker'[e][n] = maker[e][n]
    BY <1>1, <1>3, PinsAtFacts
  <2>2. map[a][m].fd # none
    BY <1>3 DEF PinsAt
  <2>3. ASSUME NEW e \in Dirs, NEW n \in Maps PROVE pins'[e][n] = none <=> maker'[e][n] = none
    <3>1. CASE e = d /\ n = m
      BY <1>1, <2>1, <2>2, <3>1, Zenon
    <3>2. CASE e # d \/ n # m
      <4>1. pins'[e][n] = pins[e][n] /\ maker'[e][n] = maker[e][n]
        BY <2>1, <3>2, Zenon
      <4>2. pins[e][n] = none <=> maker[e][n] = none
        BY <1>1, Zenon
      <4> QED
        BY <4>1, <4>2, Zenon
    <3> QED
      BY <3>1, <3>2, Zenon
  <2> QED
    BY <2>1, <2>3, Zenon
<1>4. ASSUME NEW d \in Dirs, NEW m \in Maps, Unlink(a, m, d)
      PROVE  /\ pins' \in [Dirs -> [Maps -> Fds]] /\ maker' \in [Dirs -> [Maps -> Objects \cup {none}]]
             /\ \A e \in Dirs, n \in Maps : pins'[e][n] = none <=> maker'[e][n] = none
  <2>1. /\ pins' \in [Dirs -> [Maps -> Fds]] /\ maker' \in [Dirs -> [Maps -> Objects \cup {none}]]
        /\ pins'[d][m] = none /\ maker'[d][m] = none
        /\ \A e \in Dirs, n \in Maps : e # d \/ n # m => pins'[e][n] = pins[e][n] /\ maker'[e][n] = maker[e][n]
    BY <1>1, <1>4, UnlinkFacts
  <2>2. ASSUME NEW e \in Dirs, NEW n \in Maps PROVE pins'[e][n] = none <=> maker'[e][n] = none
    <3>1. CASE e = d /\ n = m
      BY <2>1, <3>1, Zenon
    <3>2. CASE e # d \/ n # m
      <4>1. pins'[e][n] = pins[e][n] /\ maker'[e][n] = maker[e][n]
        BY <2>1, <3>2, Zenon
      <4>2. pins[e][n] = none <=> maker[e][n] = none
        BY <1>1, Zenon
      <4> QED
        BY <4>1, <4>2, Zenon
    <3> QED
      BY <3>1, <3>2, Zenon
  <2> QED
    BY <2>1, <2>2, Zenon
<1> QED
  BY <1>2, <1>3, <1>4, Zenon DEF SharedStep

\* What the process of an object has to show of a step of its own.
Mine(a) ==
  /\ pc' \in [Objects -> ObjPcs]
  /\ i' \in [Objects -> Nat] /\ arg' \in [Objects -> Dirs \cup {none}]
  /\ map' \in [Objects -> [Maps -> MapRec]] /\ progfd' \in [Objects -> [Progs -> BOOLEAN]]
  /\ \A o \in Objects : o # a => pc'[o] = pc[o] /\ i'[o] = i[o] /\ map'[o] = map[o] /\ progfd'[o] = progfd[o]

\* A step of a process keeps the invariant when it does for its own object.
LEMMA OwnStep ==
  ASSUME ObjectAssumption, ObjInv, NEW a \in Objects, Mine(a), SharedStep(a), ObjectOK(a)'
  PROVE  ObjInv'
<1>1. /\ pins' \in [Dirs -> [Maps -> Fds]] /\ maker' \in [Dirs -> [Maps -> Objects \cup {none}]]
      /\ \A d \in Dirs, m \in Maps : pins'[d][m] = none <=> maker'[d][m] = none
  BY Agree, Zenon
<1>2. ObjTypes'
  BY <1>1, Zenon DEF Mine, ObjTypes
<1>3. ASSUME NEW o \in Objects PROVE ObjectOK(o)'
  <2>1. CASE o # a
    <3>1. pc'[o] = pc[o] /\ i'[o] = i[o] /\ map'[o] = map[o] /\ progfd'[o] = progfd[o]
      BY <2>1, Zenon DEF Mine
    <3> QED
      BY <2>1, <3>1, Bystander, Zenon
  <2> QED
    BY <2>1, Zenon
<1> QED
  BY <1>1, <1>2, <1>3, Zenon DEF ObjInv

\* A step between the calls after a load has only the flags to keep.
LEMMA LaterStep ==
  ASSUME ObjInv, NEW a \in Objects, pc[a] \in Later, pc'[a] \in Later,
         pc'[a] \in {"pin_maps", "pin_back", "unpin_maps"} => i'[a] \in Maps,
         \A m \in Maps : map'[a][m].fd = map[a][m].fd, FlagTrue(a)', HasPath(a)'
  PROVE  ObjectOK(a)'
<1>1. \A m \in Maps : map[a][m].fd # none
  BY Zenon DEF ObjInv, ObjectOK, HasFds
<1>2. pc'[a] \notin {"map", "create", "autopin", "out", "open", "closed", "failed", "done", "progs"}
  BY DEF Later
<1>3. InArray(a)'
  BY <1>2 DEF InArray, MapLoops
<1>4. Ahead(a)' /\ Empty(a)'
  BY <1>2 DEF Ahead, Empty
<1>5. HasFds(a)'
  BY <1>1, <1>2, Zenon DEF HasFds
<1>6. OwnPins(a)' /\ StillOwn(a)'
  BY <1>2 DEF OwnPins, StillOwn, Loading
<1> QED
  BY <1>3, <1>4, <1>5, <1>6, Zenon DEF ObjectOK

\* The flags of an object whose maps and pins stay.
LEMMA FlagsStay ==
  ASSUME ObjInv, NEW a \in Objects, UNCHANGED <<pins, maker, stale>>,
         \A m \in Maps : map'[a][m].pinned /\ map'[a][m].fd # none => map'[a][m] = map[a][m]
  PROVE  FlagTrue(a)'
<1>1. FlagTrue(a)
  BY Zenon DEF ObjInv, ObjectOK
<1> QED
  BY <1>1, Zenon DEF FlagTrue

\* The flags of an object that pins a map.
LEMMA FlagsPinned ==
  ASSUME ObjInv, NEW a \in Objects, NEW d \in Dirs, NEW m \in Maps, PinsAt(a, d, m),
         map'[a][m].path = d, map'[a][m].fd = map[a][m].fd,
         \A n \in Maps : n # m => map'[a][n] = map[a][n]
  PROVE  FlagTrue(a)'
<1>1. FlagTrue(a) /\ ObjTypes /\ stale' = stale
  BY Zenon DEF ObjInv, ObjectOK, PinsAt
<1>2. /\ pins'[d][m] = map[a][m].fd
      /\ \A e \in Dirs, n \in Maps : e # d \/ n # m => pins'[e][n] = pins[e][n]
  BY <1>1, PinsAtFacts
<1>3. ASSUME NEW n \in Maps, map'[a][n].pinned, map'[a][n].fd # none, <<a, n>> \notin stale'
      PROVE  map'[a][n].path \in Dirs /\ pins'[map'[a][n].path][n] = map'[a][n].fd
  <2>1. CASE n = m
    BY <1>2, <2>1, Zenon
  <2>2. CASE n # m
    <3>1. map'[a][n] = map[a][n]
      BY <2>2, Zenon
    <3>2. map[a][n].path \in Dirs /\ pins[map[a][n].path][n] = map[a][n].fd
      BY <1>1, <1>3, <3>1, Zenon DEF FlagTrue
    <3>3. pins'[map[a][n].path][n] = pins[map[a][n].path][n]
      BY <1>2, <2>2, <3>2, Zenon
    <3> QED
      BY <3>1, <3>2, <3>3, Zenon
  <2> QED
    BY <2>1, <2>2, Zenon
<1> QED
  BY <1>3, Zenon DEF FlagTrue

\* The flags of an object that removes the pin of a map.
LEMMA FlagsUnlinked ==
  ASSUME ObjInv, NEW a \in Objects, NEW d \in Dirs, NEW m \in Maps, Unlink(a, m, d),
         ~map'[a][m].pinned,
         \A n \in Maps : n # m /\ map'[a][n].fd # none => map'[a][n] = map[a][n]
  PROVE  FlagTrue(a)'
<1>1. FlagTrue(a) /\ ObjTypes
  BY Zenon DEF ObjInv, ObjectOK
<1>2. /\ \A e \in Dirs, n \in Maps : n # m => pins'[e][n] = pins[e][n]
      /\ \A n \in Maps : <<a, n>> \notin stale' /\ n # m => <<a, n>> \notin stale
  BY <1>1, UnlinkFacts
<1>3. ASSUME NEW n \in Maps, map'[a][n].pinned, map'[a][n].fd # none, <<a, n>> \notin stale'
      PROVE  map'[a][n].path \in Dirs /\ pins'[map'[a][n].path][n] = map'[a][n].fd
  <2>1. n # m /\ map'[a][n] = map[a][n] /\ <<a, n>> \notin stale
    BY <1>2, <1>3, Zenon
  <2>2. map[a][n].path \in Dirs /\ pins[map[a][n].path][n] = map[a][n].fd
    BY <1>1, <1>3, <2>1, Zenon DEF FlagTrue
  <2>3. pins'[map[a][n].path][n] = pins[map[a][n].path][n]
    BY <1>2, <2>1, <2>2, Zenon
  <2> QED
    BY <2>1, <2>2, <2>3, Zenon
<1> QED
  BY <1>3, Zenon DEF FlagTrue

\* A process that goes on changes its own part only.
LEMMA MovesOn ==
  ASSUME ObjTypes, NEW a \in Objects, NEW l \in ObjPcs, NEW n \in Nat, Goto(a, l, n),
         arg' \in [Objects -> Dirs \cup {none}],
         map' \in [Objects -> [Maps -> MapRec]], \A o \in Objects : o # a => map'[o] = map[o],
         progfd' \in [Objects -> [Progs -> BOOLEAN]], \A o \in Objects : o # a => progfd'[o] = progfd[o]
  PROVE  Mine(a) /\ pc'[a] = l /\ i'[a] = n
<1>1. /\ pc'[a] = l /\ i'[a] = n
      /\ \A o \in Objects : o # a => pc'[o] = pc[o] /\ i'[o] = i[o]
  BY Went, Zenon
<1>2. pc' \in [Objects -> ObjPcs] /\ i' \in [Objects -> Nat]
  BY Zenon DEF ObjTypes, Goto
<1> QED
  BY <1>1, <1>2, Zenon DEF Mine

-----------------------------------------------------------------------------
(* Open, and the calls before the load *)

\* An open object whose maps are not pinned is in order.
LEMMA AtOpen ==
  ASSUME ObjectAssumption, ObjInv, NEW a \in Objects, pc[a] \in {"closed", "open"}, pc'[a] = "open", i'[a] = 1,
         UNCHANGED <<pins, maker, stale>>,
         \A m \in Maps : ~map'[a][m].pinned /\ (map'[a][m].reused => map'[a][m].fd # none)
  PROVE  ObjectOK(a)'
<1>1. \A d \in Dirs, m \in Maps : maker[d][m] # a
  BY Zenon DEF ObjInv, ObjectOK, OwnPins
<1>2. InArray(a)' /\ Ahead(a)' /\ HasFds(a)' /\ Empty(a)'
  BY DEF InArray, Ahead, HasFds, Empty, MapLoops, Later
<1>3. OwnPins(a)' /\ StillOwn(a)'
  BY <1>1 DEF OwnPins, StillOwn, Loading
<1>4. FlagTrue(a)' /\ HasPath(a)'
  BY Zenon DEF FlagTrue, HasPath
<1> QED
  BY <1>2, <1>3, <1>4, Zenon DEF ObjectOK

\* __bpf_object__open gives unpinned maps without descriptors.
LEMMA OpenStep ==
  ASSUME ObjectAssumption, ObjInv, NEW a \in Objects, Open(a)
  PROVE  ObjInv'
<1>1. /\ ObjTypes /\ pc[a] = "closed" /\ Goto(a, "open", 1)
      /\ map' = [map EXCEPT ![a] = [m \in Maps |-> Fresh(m)]]
      /\ progfd' = progfd /\ arg' = arg
      /\ UNCHANGED <<pins, maker, stale>>
  BY DEF ObjInv, Open, At, call, shared
<1>2. \A m \in Maps : Fresh(m) \in MapRec /\ ~Fresh(m).pinned /\ ~Fresh(m).reused
  BY DEF Fresh, MapRec, Fds, Dirs
<1>3. [m \in Maps |-> Fresh(m)] \in [Maps -> MapRec]
  BY <1>2, Zenon
<1>4. /\ map' \in [Objects -> [Maps -> MapRec]] /\ map'[a] = [m \in Maps |-> Fresh(m)]
      /\ \A o \in Objects : o # a => map'[o] = map[o]
  BY <1>1, <1>3, MapsSet, Zenon
<1>5. \A m \in Maps : ~map'[a][m].pinned /\ ~map'[a][m].reused
  BY <1>2, <1>4, Zenon
<1>6. Mine(a) /\ pc'[a] = "open" /\ i'[a] = 1
  <2>1. "open" \in ObjPcs /\ 1 \in Nat
    BY DEF ObjPcs
  <2> QED
    BY <1>1, <1>4, <2>1, MovesOn, Zenon DEF ObjTypes
<1>7. ObjectOK(a)'
  BY <1>1, <1>5, <1>6, AtOpen, Zenon
<1>8. SharedStep(a)
  BY <1>1, Zenon DEF SharedStep
<1> QED
  BY <1>6, <1>7, <1>8, OwnStep, Zenon

\* Before the load no map is pinned.
LEMMA OpenFacts ==
  ASSUME ObjInv, NEW a \in Objects, pc[a] = "open"
  PROVE  i[a] = 1 /\ \A m \in Maps : ~map[a][m].pinned /\ (map[a][m].reused => map[a][m].fd # none)
<1>1. InArray(a) /\ Ahead(a)
  BY Zenon DEF ObjInv, ObjectOK
<1> QED
  BY <1>1 DEF InArray, Ahead, Maps

\* A call before the load that sets a map, which stays unpinned.
LEMMA CallStep ==
  ASSUME ObjectAssumption, ObjInv, NEW a \in Objects, NEW m \in Maps, NEW r \in MapRec, pc[a] = "open",
         map' = [map EXCEPT ![a][m] = r], ~r.pinned, r.reused => r.fd # none,
         pc' = pc, i' = i, arg' = arg, progfd' = progfd, UNCHANGED <<pins, maker, stale>>
  PROVE  ObjInv'
<1>1. ObjTypes
  BY Zenon DEF ObjInv
<1>2. /\ map' \in [Objects -> [Maps -> MapRec]] /\ map'[a][m] = r
      /\ \A n \in Maps : n # m => map'[a][n] = map[a][n]
      /\ \A o \in Objects : o # a => map'[o] = map[o]
  BY <1>1, MapSet, Zenon
<1>3. i[a] = 1 /\ \A n \in Maps : ~map[a][n].pinned /\ (map[a][n].reused => map[a][n].fd # none)
  BY OpenFacts, Zenon
<1>4. \A n \in Maps : ~map'[a][n].pinned /\ (map'[a][n].reused => map'[a][n].fd # none)
  BY <1>2, <1>3, Zenon
<1>5. ObjectOK(a)'
  BY <1>3, <1>4, AtOpen, Zenon
<1>6. Mine(a) /\ SharedStep(a)
  BY <1>1, <1>2, Zenon DEF Mine, SharedStep, ObjTypes
<1> QED
  BY <1>5, <1>6, OwnStep, Zenon

\* bpf_map__set_pin_path comes before the load, when no map is pinned.
LEMMA SetPinPathStep ==
  ASSUME ObjectAssumption, ObjInv, NEW a \in Objects, NEW m \in Maps, NEW d \in {"root", none},
         bpf_map__set_pin_path(a, m, d)
  PROVE  ObjInv'
<1>1. /\ map[a][m] \in MapRec /\ pc[a] = "open" /\ map' = [map EXCEPT ![a][m].path = d]
      /\ pc' = pc /\ i' = i /\ arg' = arg /\ progfd' = progfd /\ UNCHANGED <<pins, maker, stale>>
  BY DEF ObjInv, ObjTypes, bpf_map__set_pin_path, At, call, shared
<1>2. ~map[a][m].pinned /\ (map[a][m].reused => map[a][m].fd # none)
  BY <1>1, OpenFacts, Zenon
<1>3. PICK r : r = [map[a][m] EXCEPT !.path = d]
  BY Zenon
<1>4. r \in MapRec /\ r.pinned = map[a][m].pinned /\ r.reused = map[a][m].reused /\ r.fd = map[a][m].fd
  BY <1>1, <1>3 DEF MapRec, Dirs
<1>5. map' = [map EXCEPT ![a][m] = r]
  BY <1>1, <1>3, Zenon
<1> QED
  BY <1>1, <1>2, <1>4, <1>5, CallStep, Zenon

\* bpf_map__reuse_fd gives the map a descriptor.
LEMMA ReuseFdStep ==
  ASSUME ObjectAssumption, ObjInv, NEW a \in Objects, NEW m \in Maps, NEW d \in Dirs, bpf_map__reuse_fd(a, m, d)
  PROVE  ObjInv'
<1>1. /\ map[a][m] \in MapRec /\ pc[a] = "open" /\ pins[d][m] # none /\ pins[d][m] \in Fds
      /\ map' = [map EXCEPT ![a][m].fd = pins[d][m], ![a][m].reused = TRUE]
      /\ pc' = pc /\ i' = i /\ arg' = arg /\ progfd' = progfd /\ UNCHANGED <<pins, maker, stale>>
  BY DEF ObjInv, ObjTypes, bpf_map__reuse_fd, At, call, shared
<1>2. ~map[a][m].pinned
  BY <1>1, OpenFacts, Zenon
<1>3. PICK r : r = [map[a][m] EXCEPT !.fd = pins[d][m], !.reused = TRUE]
  BY Zenon
<1>4. r \in MapRec /\ r.pinned = map[a][m].pinned /\ r.fd = pins[d][m]
  BY <1>1, <1>3, Zenon DEF MapRec
<1>5. map' = [map EXCEPT ![a][m] = r]
  <2>1. map \in [Objects -> [Maps -> MapRec]]
    BY Zenon DEF ObjInv, ObjTypes
  <2> QED
    BY <1>1, <1>3, <2>1, Zenon
<1> QED
  BY <1>1, <1>2, <1>4, <1>5, CallStep, Zenon

-----------------------------------------------------------------------------
(* The load *)

\* A step of the load that makes no pin leaves the pins made so far as the
\* maps tell, also when it takes a map from its name.
LEMMA OwnKept ==
  ASSUME ObjInv, NEW a \in Objects, pc[a] \in {"open", "map", "create", "autopin", "progs"},
         pc'[a] = "out" => i'[a] = 1, pc'[a] # "closed", pc'[a] # "open", pc'[a] # "failed",
         UNCHANGED <<pins, maker, stale>>,
         \A m \in Maps :
           \/ /\ map'[a][m].pinned = map[a][m].pinned /\ map'[a][m].reused = map[a][m].reused
              /\ map'[a][m].path = map[a][m].path
           \/ ~map[a][m].pinned /\ map'[a][m].reused
  PROVE  OwnPins(a)' /\ StillOwn(a)'
<1>1. OwnPins(a) /\ StillOwn(a) /\ Ahead(a) /\ InArray(a)
  BY Zenon DEF ObjInv, ObjectOK
<1>2. ASSUME NEW d \in Dirs, NEW m \in Maps, maker[d][m] = a
      PROVE  pc[a] \in Loading /\ map[a][m].pinned /\ ~map[a][m].reused /\ map[a][m].path = d
  BY <1>1, <1>2 DEF OwnPins, Loading
<1>3. ASSUME NEW d \in Dirs, NEW m \in Maps, maker[d][m] = a
      PROVE  map'[a][m].pinned /\ ~map'[a][m].reused /\ map'[a][m].path = d
  <2>1. map[a][m].pinned /\ ~map[a][m].reused /\ map[a][m].path = d
    BY <1>2, <1>3
  <2>2. /\ map'[a][m].pinned = map[a][m].pinned /\ map'[a][m].reused = map[a][m].reused
        /\ map'[a][m].path = map[a][m].path
    BY <2>1, Zenon
  <2> QED
    BY <2>1, <2>2, Zenon
<1>4. OwnPins(a)'
  <2>1. \A m \in Maps : m >= 1
    BY DEF Maps
  <2> QED
    BY <1>3, <2>1, Zenon DEF OwnPins
<1>5. ASSUME NEW m \in Maps, map'[a][m].pinned, ~map'[a][m].reused, <<a, m>> \notin stale
      PROVE  map'[a][m].path \in Dirs /\ maker[map'[a][m].path][m] = a
  <2>1. map[a][m].pinned /\ ~map[a][m].reused /\ map'[a][m].path = map[a][m].path
    BY <1>5, Zenon
  <2>2. pc[a] \in Loading
    <3>1. pc[a] # "open"
      BY <2>1, OpenFacts, Zenon
    <3> QED
      BY <3>1 DEF Loading
  <2> QED
    BY <1>1, <1>5, <2>1, <2>2, Zenon DEF StillOwn
<1>6. StillOwn(a)'
  BY <1>5, Zenon DEF StillOwn
<1> QED
  BY <1>4, <1>6, Zenon

\* What a map the load has not come past, and one it has, is like.
LEMMA LoadFacts ==
  ASSUME ObjInv, NEW a \in Objects, pc[a] \in {"map", "create", "autopin"}
  PROVE  /\ i[a] \in Maps
         /\ \A m \in Maps : m >= i[a] => ~map[a][m].pinned /\ (map[a][m].reused => map[a][m].fd # none)
         /\ \A m \in Maps : m < i[a] => map[a][m].fd # none
<1>1. InArray(a) /\ Ahead(a) /\ HasFds(a)
  BY Zenon DEF ObjInv, ObjectOK
<1> QED
  BY <1>1 DEF InArray, Ahead, HasFds, MapLoops

\* The load goes on to the next map, or to the programs.
LEMMA ToNext ==
  ASSUME ObjectAssumption, ObjInv, NEW a \in Objects, pc[a] \in {"map", "create", "autopin"},
         \A n \in Maps : n # i[a] => map'[a][n] = map[a][n], map'[a][i[a]].fd # none,
         \/ i[a] = NumMaps /\ pc'[a] = "progs"
         \/ i[a] # NumMaps /\ pc'[a] = "map" /\ i'[a] = i[a] + 1
  PROVE  InArray(a)' /\ Ahead(a)' /\ HasFds(a)' /\ Empty(a)'
<1>1. /\ i[a] \in Maps
      /\ \A m \in Maps : m >= i[a] => ~map[a][m].pinned /\ (map[a][m].reused => map[a][m].fd # none)
      /\ \A m \in Maps : m < i[a] => map[a][m].fd # none
  BY LoadFacts, Zenon
<1>2. CASE i[a] = NumMaps /\ pc'[a] = "progs"
  <2>1. \A m \in Maps : m # i[a] => m < i[a]
    BY <1>2 DEF Maps, ObjectAssumption
  <2>2. \A m \in Maps : map'[a][m].fd # none
    BY <1>1, <2>1, Zenon
  <2> QED
    BY <1>2, <2>2 DEF InArray, Ahead, HasFds, Empty, MapLoops
<1>3. CASE i[a] # NumMaps /\ pc'[a] = "map" /\ i'[a] = i[a] + 1
  <2>1. i'[a] \in Maps /\ \A m \in Maps : /\ m >= i'[a] => m >= i[a] /\ m # i[a]
                                          /\ m < i'[a] => m < i[a] \/ m = i[a]
    BY <1>1, <1>3 DEF Maps, ObjectAssumption
  <2>2. \A m \in Maps : m >= i'[a] => ~map'[a][m].pinned /\ (map'[a][m].reused => map'[a][m].fd # none)
    BY <1>1, <2>1, Zenon
  <2>3. \A m \in Maps : m < i'[a] => map'[a][m].fd # none
    BY <1>1, <2>1, Zenon
  <2> QED
    BY <1>3, <2>1, <2>2, <2>3 DEF InArray, Ahead, HasFds, Empty, Later
<1> QED
  BY <1>2, <1>3, Zenon

\* The load fails.
LEMMA ToOut ==
  ASSUME ObjectAssumption, NEW a \in Objects, pc'[a] = "out", i'[a] = 1
  PROVE  InArray(a)' /\ Ahead(a)' /\ HasFds(a)' /\ Empty(a)'
<1>1. 1 \in Maps
  BY DEF Maps, ObjectAssumption
<1> QED
  BY <1>1 DEF InArray, Ahead, HasFds, Empty, Later

\* bpf_object__load begins at the first map.
LEMMA LoadStep ==
  ASSUME ObjectAssumption, ObjInv, NEW a \in Objects, Load(a)
  PROVE  ObjInv'
<1>1. /\ ObjTypes /\ pc[a] = "open" /\ Goto(a, "map", 1) /\ FlagTrue(a) /\ HasPath(a)
      /\ map' = map /\ progfd' = progfd /\ arg' = arg /\ UNCHANGED <<pins, maker, stale>>
  BY DEF ObjInv, ObjectOK, Load, At, call, shared
<1>2. Mine(a) /\ pc'[a] = "map" /\ i'[a] = 1
  <2>1. "map" \in ObjPcs /\ 1 \in Nat
    BY DEF ObjPcs, MapLoops
  <2> QED
    BY <1>1, <2>1, MovesOn, Zenon DEF ObjTypes
<1>3. i[a] = 1 /\ \A m \in Maps : ~map[a][m].pinned /\ (map[a][m].reused => map[a][m].fd # none)
  BY <1>1, OpenFacts, Zenon
<1>4. InArray(a)' /\ Ahead(a)' /\ HasFds(a)' /\ Empty(a)'
  <2>1. 1 \in Maps /\ \A m \in Maps : ~(m < 1)
    BY DEF Maps, ObjectAssumption
  <2> QED
    BY <1>1, <1>2, <1>3, <2>1 DEF InArray, Ahead, HasFds, Empty, Later
<1>5. OwnPins(a)' /\ StillOwn(a)'
  BY <1>1, <1>2, OwnKept
<1>6. FlagTrue(a)' /\ HasPath(a)'
  BY <1>1, Zenon DEF FlagTrue, HasPath
<1>7. ObjectOK(a)' /\ SharedStep(a)
  BY <1>1, <1>4, <1>5, <1>6, Zenon DEF ObjectOK, SharedStep
<1> QED
  BY <1>2, <1>7, OwnStep, Zenon

\* Where NextMap goes.
LEMMA NextMapGoes ==
  ASSUME ObjTypes, NEW a \in Objects, i[a] \in Maps, NextMap(a), arg' = arg, progfd' = progfd,
         map' \in [Objects -> [Maps -> MapRec]], \A o \in Objects : o # a => map'[o] = map[o]
  PROVE  /\ Mine(a)
         /\ \/ i[a] = NumMaps /\ pc'[a] = "progs"
            \/ i[a] # NumMaps /\ pc'[a] = "map" /\ i'[a] = i[a] + 1
<1>1. "progs" \in ObjPcs /\ "map" \in ObjPcs /\ 1 \in Nat /\ i[a] + 1 \in Nat
  BY DEF ObjPcs, MapLoops, ProgLoops, Maps
<1>2. arg' \in [Objects -> Dirs \cup {none}] /\ progfd' \in [Objects -> [Progs -> BOOLEAN]]
  BY Zenon DEF ObjTypes
<1>3. CASE i[a] = NumMaps /\ Goto(a, "progs", 1)
  BY <1>1, <1>2, <1>3, MovesOn, Zenon
<1>4. CASE i[a] # NumMaps /\ Goto(a, "map", i[a] + 1)
  BY <1>1, <1>2, <1>4, MovesOn, Zenon
<1> QED
  BY <1>3, <1>4, Zenon DEF NextMap

\* A load that fails without touching a pin; maps may have lost descriptors.
LEMMA FailsStep ==
  ASSUME ObjectAssumption, ObjInv, NEW a \in Objects, pc[a] \in {"map", "create", "autopin", "progs"},
         Goto(a, "out", 1), arg' = arg, progfd' = progfd, UNCHANGED <<pins, maker, stale>>,
         map' \in [Objects -> [Maps -> MapRec]], \A o \in Objects : o # a => map'[o] = map[o],
         \A m \in Maps : \/ map'[a][m] = map[a][m]
                         \/ /\ map'[a][m].pinned = map[a][m].pinned /\ map'[a][m].reused = map[a][m].reused
                            /\ map'[a][m].path = map[a][m].path /\ map'[a][m].fd = none
  PROVE  ObjInv'
<1>1. ObjTypes /\ FlagTrue(a) /\ HasPath(a)
  BY Zenon DEF ObjInv, ObjectOK
<1>2. Mine(a) /\ pc'[a] = "out" /\ i'[a] = 1
  <2>1. "out" \in ObjPcs /\ 1 \in Nat
    BY DEF ObjPcs, MapLoops
  <2> QED
    BY <1>1, <2>1, MovesOn, Zenon DEF ObjTypes
<1>3. \A m \in Maps : /\ map'[a][m].pinned = map[a][m].pinned /\ map'[a][m].reused = map[a][m].reused
                      /\ map'[a][m].path = map[a][m].path
  BY Zenon
<1>4. InArray(a)' /\ Ahead(a)' /\ HasFds(a)' /\ Empty(a)'
  BY <1>2, ToOut, Zenon
<1>5. OwnPins(a)' /\ StillOwn(a)'
  BY <1>2, <1>3, OwnKept
<1>6. FlagTrue(a)'
  <2>1. \A m \in Maps : map'[a][m].pinned /\ map'[a][m].fd # none => map'[a][m] = map[a][m]
    BY Zenon
  <2> QED
    BY <2>1, FlagsStay, Zenon
<1>7. HasPath(a)'
  BY <1>1, <1>3, Zenon DEF HasPath
<1>8. ObjectOK(a)' /\ SharedStep(a)
  BY <1>4, <1>5, <1>6, <1>7, Zenon DEF ObjectOK, SharedStep
<1> QED
  BY <1>2, <1>8, OwnStep, Zenon

\* bpf_object__reuse_map finds no pin.
LEMMA NothingToReuse ==
  ASSUME ObjectAssumption, ObjInv, NEW a \in Objects, pc[a] = "map", Goto(a, "create", i[a]),
         map' = map, progfd' = progfd, arg' = arg, UNCHANGED <<pins, maker, stale>>
  PROVE  ObjInv'
<1>1. ObjTypes /\ FlagTrue(a) /\ HasPath(a)
  BY Zenon DEF ObjInv, ObjectOK
<1>2. /\ i[a] \in Maps
      /\ \A m \in Maps : m >= i[a] => ~map[a][m].pinned /\ (map[a][m].reused => map[a][m].fd # none)
      /\ \A m \in Maps : m < i[a] => map[a][m].fd # none
  BY LoadFacts
<1>3. Mine(a) /\ pc'[a] = "create" /\ i'[a] = i[a]
  <2>1. "create" \in ObjPcs /\ i[a] \in Nat
    BY <1>2 DEF ObjPcs, MapLoops, Maps
  <2> QED
    BY <1>1, <2>1, MovesOn, Zenon DEF ObjTypes
<1>4. InArray(a)' /\ Ahead(a)' /\ HasFds(a)' /\ Empty(a)'
  BY <1>2, <1>3 DEF InArray, Ahead, HasFds, Empty, Later
<1>5. OwnPins(a)' /\ StillOwn(a)'
  BY <1>3, OwnKept
<1>6. FlagTrue(a)' /\ HasPath(a)'
  BY <1>1, Zenon DEF FlagTrue, HasPath
<1>7. ObjectOK(a)' /\ SharedStep(a)
  BY <1>4, <1>5, <1>6, Zenon DEF ObjectOK, SharedStep
<1> QED
  BY <1>3, <1>7, OwnStep, Zenon

\* The load comes past a map without making a pin.
LEMMA PastMap ==
  ASSUME ObjectAssumption, ObjInv, NEW a \in Objects, pc[a] \in {"map", "create"}, NextMap(a),
         arg' = arg, progfd' = progfd, UNCHANGED <<pins, maker, stale>>,
         NEW r \in MapRec, map' = [map EXCEPT ![a][i[a]] = r], r.fd # none,
         \/ /\ r.pinned = map[a][i[a]].pinned /\ r.reused = map[a][i[a]].reused /\ r.path = map[a][i[a]].path
         \/ r.reused /\ r.path \in Dirs /\ pins[r.path][i[a]] = r.fd
  PROVE  ObjInv'
<1>1. ObjTypes /\ FlagTrue(a) /\ HasPath(a)
  BY Zenon DEF ObjInv, ObjectOK
<1>2. /\ i[a] \in Maps /\ ~map[a][i[a]].pinned
  <2>1. /\ i[a] \in Maps /\ \A m \in Maps : m >= i[a] => ~map[a][m].pinned
    BY LoadFacts
  <2>2. i[a] >= i[a]
    BY <2>1 DEF Maps
  <2> QED
    BY <2>1, <2>2, Zenon
<1>3. PICK m \in Maps : m = i[a]
  BY <1>2, Zenon
<1>4. /\ map' \in [Objects -> [Maps -> MapRec]] /\ map'[a][m] = r
      /\ \A n \in Maps : n # m => map'[a][n] = map[a][n]
      /\ \A o \in Objects : o # a => map'[o] = map[o]
  <2>1. map' = [map EXCEPT ![a][m] = r]
    BY <1>3, Zenon
  <2> QED
    BY ONLY a \in Objects, m \in Maps, r \in MapRec, <1>1, <2>1, MapSet, Zenon
<1>5. /\ Mine(a)
      /\ \/ i[a] = NumMaps /\ pc'[a] = "progs"
         \/ i[a] # NumMaps /\ pc'[a] = "map" /\ i'[a] = i[a] + 1
  BY <1>1, <1>2, <1>4, NextMapGoes, Zenon
<1>6. InArray(a)' /\ Ahead(a)' /\ HasFds(a)' /\ Empty(a)'
  BY <1>3, <1>4, <1>5, ToNext
<1>7. \A n \in Maps :
        \/ /\ map'[a][n].pinned = map[a][n].pinned /\ map'[a][n].reused = map[a][n].reused
           /\ map'[a][n].path = map[a][n].path
        \/ ~map[a][n].pinned /\ map'[a][n].reused
  BY <1>2, <1>3, <1>4, Zenon
<1>8. OwnPins(a)' /\ StillOwn(a)'
  BY <1>5, <1>7, OwnKept
<1>9. r.pinned => r.path \in Dirs /\ pins[r.path][m] = r.fd
  BY <1>2, <1>3, Zenon
<1>10. FlagTrue(a)'
  <2>1. ASSUME NEW n \in Maps, map'[a][n].pinned, map'[a][n].fd # none, <<a, n>> \notin stale'
        PROVE  map'[a][n].path \in Dirs /\ pins'[map'[a][n].path][n] = map'[a][n].fd
    <3>1. CASE n = m
      BY <1>4, <1>9, <2>1, <3>1, Zenon
    <3>2. CASE n # m
      <4>1. map'[a][n] = map[a][n]
        BY <1>4, <3>2, Zenon
      <4>2. map[a][n].pinned /\ map[a][n].fd # none /\ <<a, n>> \notin stale
        BY <2>1, <4>1, Zenon
      <4>3. map[a][n].path \in Dirs /\ pins[map[a][n].path][n] = map[a][n].fd
        BY <1>1, <4>2, Zenon DEF FlagTrue
      <4> QED
        BY <4>1, <4>3, Zenon
    <3> QED
      BY <3>1, <3>2, Zenon
  <2> QED
    BY <2>1, Zenon DEF FlagTrue
<1>11. HasPath(a)'
  BY <1>1, <1>4, <1>9, Zenon DEF HasPath
<1>12. ObjectOK(a)' /\ SharedStep(a)
  BY <1>6, <1>8, <1>10, <1>11, Zenon DEF ObjectOK, SharedStep
<1> QED
  BY <1>5, <1>12, OwnStep, Zenon

\* bpf_object__reuse_map, whether it finds no pin, takes the map, or fails.
LEMMA ReuseMapStep ==
  ASSUME ObjectAssumption, ObjInv, NEW a \in Objects, bpf_object__reuse_map(a)
  PROVE  ObjInv'
<1>1. /\ ObjTypes /\ pc[a] = "map" /\ progfd' = progfd /\ arg' = arg /\ UNCHANGED <<pins, maker, stale>>
  BY Zenon DEF ObjInv, bpf_object__reuse_map, At, call, shared
<1>2. i[a] \in Maps
  BY <1>1, LoadFacts
<1>3. PICK m \in Maps : m = i[a]
  BY <1>2, Zenon
<1> DEFINE d == map[a][m].path
<1>4. /\ d # none
      /\ \/ map' = map /\ Goto(a, "create", m)
         \/ /\ pins[d][m] # none /\ NextMap(a)
            /\ map' = [map EXCEPT ![a][m] = [fd |-> pins[d][m], path |-> d, pinned |-> TRUE, reused |-> TRUE,
                                              left |-> FALSE]]
         \/ Goto(a, "out", 1) /\ map' = map
  BY <1>3, Zenon DEF bpf_object__reuse_map
<1>5. d \in Dirs
  <2>1. map[a][m] \in MapRec
    BY <1>1, Zenon DEF ObjTypes
  <2>2. map[a][m].path \in Dirs \cup {none}
    BY <2>1, Zenon DEF MapRec
  <2> QED
    BY <1>4, <2>2, Zenon
<1> HIDE DEF d
<1>6. CASE map' = map /\ Goto(a, "create", m)
  BY <1>1, <1>3, <1>6, NothingToReuse, Zenon
<1>7. CASE /\ pins[d][m] # none /\ NextMap(a)
           /\ map' = [map EXCEPT ![a][m] = [fd |-> pins[d][m], path |-> d, pinned |-> TRUE, reused |-> TRUE,
                                              left |-> FALSE]]
  <2>1. PICK r : r = [fd |-> pins[d][m], path |-> d, pinned |-> TRUE, reused |-> TRUE,
                                              left |-> FALSE]
    BY Zenon
  <2>2. pins[d][m] \in Fds
    BY <1>1, <1>5, Zenon DEF ObjTypes
  <2>3. /\ r \in MapRec /\ r.fd # none /\ r.reused /\ r.path \in Dirs /\ pins[r.path][m] = r.fd
    BY <1>5, <1>7, <2>1, <2>2 DEF MapRec
  <2>4. map' = [map EXCEPT ![a][i[a]] = r]
    BY <1>3, <1>7, <2>1
  <2>5. r.reused /\ r.path \in Dirs /\ pins[r.path][i[a]] = r.fd
    BY <1>3, <2>3, Zenon
  <2>6. pc[a] \in {"map", "create"}
    BY <1>1, Zenon
  <2> QED
    BY <1>1, <1>7, <2>3, <2>4, <2>5, <2>6, PastMap, Zenon
<1>8. CASE Goto(a, "out", 1) /\ map' = map
  <2>1. pc[a] \in {"map", "create", "autopin", "progs"} /\ map' \in [Objects -> [Maps -> MapRec]]
    BY <1>1, <1>8, Zenon DEF ObjTypes
  <2> QED
    BY <1>1, <1>8, <2>1, FailsStep, Zenon
<1> QED
  BY <1>4, <1>6, <1>7, <1>8, Zenon

\* A map is made, and will be pinned next.
LEMMA MadeToPin ==
  ASSUME ObjectAssumption, ObjInv, NEW a \in Objects, pc[a] \in {"map", "create"}, NEW m \in Maps, m = i[a],
         map[a][m].fd = none, map[a][m].path # none, map' = [map EXCEPT ![a][m].fd = <<a, m>>],
         Goto(a, "autopin", m), arg' = arg, progfd' = progfd, UNCHANGED <<pins, maker, stale>>
  PROVE  ObjInv'
<1>1. ObjTypes /\ map[a][m] \in MapRec /\ FlagTrue(a) /\ HasPath(a)
  BY Zenon DEF ObjInv, ObjectOK, ObjTypes
<1>2. /\ \A n \in Maps : n >= m => ~map[a][n].pinned /\ (map[a][n].reused => map[a][n].fd # none)
      /\ \A n \in Maps : n < m => map[a][n].fd # none
  BY LoadFacts
<1>3. ~map[a][m].pinned /\ ~map[a][m].reused
  <2>1. m >= m
    BY DEF Maps
  <2> QED
    BY <1>2, <2>1, Zenon
<1>4. PICK r : r = [map[a][m] EXCEPT !.fd = <<a, m>>]
  BY Zenon
<1>5. <<a, m>> \in Fds /\ <<a, m>> # none
  BY DEF Fds, ObjectAssumption
<1>6. /\ r \in MapRec /\ r.fd # none /\ r.path = map[a][m].path
      /\ r.pinned = map[a][m].pinned /\ r.reused = map[a][m].reused
  BY <1>1, <1>4, <1>5, Zenon DEF MapRec
<1>7. map' = [map EXCEPT ![a][m] = r]
  BY <1>4, Zenon
<1>8. /\ map' \in [Objects -> [Maps -> MapRec]] /\ map'[a][m] = r
      /\ \A n \in Maps : n # m => map'[a][n] = map[a][n]
      /\ \A o \in Objects : o # a => map'[o] = map[o]
  BY ONLY a \in Objects, m \in Maps, <1>1, <1>6, <1>7, MapSet, Zenon
<1>9. Mine(a) /\ pc'[a] = "autopin" /\ i'[a] = m
  <2>1. "autopin" \in ObjPcs /\ m \in Nat
    BY DEF ObjPcs, MapLoops, Maps
  <2>2. arg' \in [Objects -> Dirs \cup {none}] /\ progfd' \in [Objects -> [Progs -> BOOLEAN]]
    BY <1>1, Zenon DEF ObjTypes
  <2>3. Goto(a, "autopin", m) /\ \A o \in Objects : o # a => progfd'[o] = progfd[o]
    BY Zenon
  <2> QED
    BY ONLY a \in Objects, <1>1, <1>8, <2>1, <2>2, <2>3, MovesOn, Zenon
<1>10. \A n \in Maps : /\ map'[a][n].pinned = map[a][n].pinned /\ map'[a][n].reused = map[a][n].reused
                       /\ map'[a][n].path = map[a][n].path
  BY <1>6, <1>8, Zenon
<1>11. InArray(a)' /\ Ahead(a)' /\ HasFds(a)' /\ Empty(a)'
  <2>1. /\ \A n \in Maps : n >= m => ~map'[a][n].pinned /\ (map'[a][n].reused => map'[a][n].fd # none)
        /\ \A n \in Maps : n < m => map'[a][n].fd # none
    BY ONLY <1>2, <1>6, <1>8, Zenon
  <2>2. map'[a][m].fd # none /\ ~map'[a][m].reused /\ map'[a][m].path # none
    BY ONLY map[a][m].path # none, <1>3, <1>6, <1>8, Zenon
  <2>3. pc'[a] = "autopin" /\ i'[a] = m
    BY <1>9, Zenon
  <2> QED
    BY ONLY m \in Maps, <2>1, <2>2, <2>3, SMTT(20) DEF InArray, Ahead, HasFds, Empty, Later
<1>12. OwnPins(a)' /\ StillOwn(a)'
  BY <1>9, <1>10, OwnKept
<1>13. FlagTrue(a)'
  <2>1. \A n \in Maps : map'[a][n].pinned /\ map'[a][n].fd # none => map'[a][n] = map[a][n]
    BY <1>3, <1>8, <1>10, Zenon
  <2> QED
    BY <2>1, FlagsStay, Zenon
<1>14. HasPath(a)'
  BY <1>1, <1>10, Zenon DEF HasPath
<1>15. ObjectOK(a)' /\ SharedStep(a)
  BY <1>11, <1>12, <1>13, <1>14, Zenon DEF ObjectOK, SharedStep
<1> QED
  BY <1>9, <1>15, OwnStep, Zenon

\* The creation of a map: preset, made to be pinned, made, or failed.
LEMMA CreateMapStep ==
  ASSUME ObjectAssumption, ObjInv, NEW a \in Objects, CreateMap(a)
  PROVE  ObjInv'
<1>1. /\ ObjTypes /\ pc[a] \in {"map", "create"} /\ progfd' = progfd /\ arg' = arg
      /\ UNCHANGED <<pins, maker, stale>>
  BY DEF ObjInv, CreateMap, At, call, shared
<1>2. i[a] \in Maps
  BY <1>1, LoadFacts
<1>3. PICK m \in Maps : m = i[a]
  BY <1>2, Zenon
<1>4. \/ map[a][m].fd # none /\ map' = map /\ NextMap(a)
      \/ /\ map[a][m].fd = none /\ map' = [map EXCEPT ![a][m].fd = <<a, m>>]
         /\ IF map[a][m].path # none THEN Goto(a, "autopin", m) ELSE NextMap(a)
      \/ /\ map' = [map EXCEPT ![a] = [j \in Maps |-> IF j < m THEN [@[j] EXCEPT !.fd = none] ELSE @[j]]]
         /\ Goto(a, "out", 1)
  BY <1>3 DEF CreateMap
<1>5. map \in [Objects -> [Maps -> MapRec]] /\ map[a][m] \in MapRec
  BY <1>1, Zenon DEF ObjTypes
<1>6. CASE map[a][m].fd # none /\ map' = map /\ NextMap(a)
  <2>1. PICK r : r = map[a][m]
    BY Zenon
  <2>2. map' = [map EXCEPT ![a][i[a]] = r]
    BY <1>3, <1>5, <1>6, <2>1
  <2>3. r.pinned = map[a][i[a]].pinned /\ r.reused = map[a][i[a]].reused /\ r.path = map[a][i[a]].path
    BY <1>3, <2>1, Zenon
  <2> QED
    BY <1>1, <1>5, <1>6, <2>1, <2>2, <2>3, PastMap, Zenon
<1>7. CASE /\ map[a][m].fd = none /\ map' = [map EXCEPT ![a][m].fd = <<a, m>>]
           /\ map[a][m].path # none /\ Goto(a, "autopin", m)
  BY <1>1, <1>3, <1>7, MadeToPin, Zenon
<1>8. CASE /\ map[a][m].fd = none /\ map' = [map EXCEPT ![a][m].fd = <<a, m>>] /\ NextMap(a)
  <2>1. PICK r : r = [map[a][m] EXCEPT !.fd = <<a, m>>]
    BY Zenon
  <2>2. <<a, m>> \in Fds /\ <<a, m>> # none
    BY DEF Fds, ObjectAssumption
  <2>3. /\ r \in MapRec /\ r.fd # none /\ r.path = map[a][m].path
        /\ r.pinned = map[a][m].pinned /\ r.reused = map[a][m].reused
    BY <1>5, <2>1, <2>2, Zenon DEF MapRec
  <2>4. map' = [map EXCEPT ![a][i[a]] = r]
    BY <1>3, <1>8, <2>1
  <2>5. r.pinned = map[a][i[a]].pinned /\ r.reused = map[a][i[a]].reused /\ r.path = map[a][i[a]].path
    BY <1>3, <2>3, Zenon
  <2> QED
    BY <1>1, <1>8, <2>3, <2>4, <2>5, PastMap, Zenon
<1>9. CASE /\ map' = [map EXCEPT ![a] = [j \in Maps |-> IF j < m THEN [@[j] EXCEPT !.fd = none] ELSE @[j]]]
           /\ Goto(a, "out", 1)
  <2>1. PICK f : f = [j \in Maps |-> IF j < m THEN [map[a][j] EXCEPT !.fd = none] ELSE map[a][j]]
    BY Zenon
  <2>2. ASSUME NEW j \in Maps
        PROVE  /\ f[j] \in MapRec
               /\ \/ f[j] = map[a][j]
                  \/ /\ f[j].pinned = map[a][j].pinned /\ f[j].reused = map[a][j].reused
                     /\ f[j].path = map[a][j].path /\ f[j].fd = none
    <3>1. map[a][j] \in MapRec /\ none \in Fds
      BY <1>5, Zenon DEF Fds
    <3>2. f[j] = [map[a][j] EXCEPT !.fd = none] \/ f[j] = map[a][j]
      BY <2>1, Zenon
    <3>3. PICK r : r = map[a][j]
      BY Zenon
    <3>4. f[j] = [r EXCEPT !.fd = none] \/ f[j] = r
      BY <3>2, <3>3, Zenon
    <3> QED
      BY <3>1, <3>3, <3>4, Zenon DEF MapRec
  <2>3. f \in [Maps -> MapRec]
    BY <2>1, <2>2
  <2>4. map' = [map EXCEPT ![a] = f]
    BY <1>5, <1>9, <2>1, Zenon
  <2>5. /\ map' \in [Objects -> [Maps -> MapRec]] /\ map'[a] = f
        /\ \A o \in Objects : o # a => map'[o] = map[o]
    BY <1>1, <2>3, <2>4, MapsSet, Zenon
  <2>6. pc[a] \in {"map", "create", "autopin", "progs"}
    BY <1>1, Zenon
  <2>7. \A j \in Maps : \/ map'[a][j] = map[a][j]
                        \/ /\ map'[a][j].pinned = map[a][j].pinned /\ map'[a][j].reused = map[a][j].reused
                           /\ map'[a][j].path = map[a][j].path /\ map'[a][j].fd = none
    BY <2>2, <2>5, Zenon
  <2> QED
    BY <1>1, <1>9, <2>5, <2>6, <2>7, FailsStep, Zenon
<1> QED
  BY <1>4, <1>6, <1>7, <1>8, <1>9, Zenon

\* The load pins a map it has made.
LEMMA AutoPinned ==
  ASSUME ObjectAssumption, ObjInv, NEW a \in Objects, pc[a] = "autopin", NEW m \in Maps, m = i[a],
         NEW d \in Dirs, d = map[a][m].path, PinsAt(a, d, m), ~map[a][m].reused,
         NEW r, r = [map[a][m] EXCEPT !.pinned = TRUE], map' = [map EXCEPT ![a][m] = r],
         NextMap(a), arg' = arg, progfd' = progfd
  PROVE  ObjInv'
<1>1. ObjTypes /\ map[a][m] \in MapRec /\ HasPath(a) /\ OwnPins(a) /\ StillOwn(a) /\ pc[a] \in Loading
  BY Zenon DEF ObjInv, ObjectOK, ObjTypes, Loading
<1>2. map[a][m].fd # none /\ stale' = stale
  BY Zenon DEF PinsAt
<1>3. /\ r \in MapRec /\ r.fd = map[a][m].fd /\ r.path = d /\ r.reused = map[a][m].reused /\ r.pinned
  <2>1. /\ r \in MapRec /\ r.fd = map[a][m].fd /\ r.path = map[a][m].path
        /\ r.reused = map[a][m].reused /\ r.pinned
    BY ONLY <1>1, r = [map[a][m] EXCEPT !.pinned = TRUE], Zenon DEF MapRec
  <2> QED
    BY ONLY <2>1, d = map[a][m].path, Zenon
<1>4. /\ map' \in [Objects -> [Maps -> MapRec]] /\ map'[a][m] = r
      /\ \A n \in Maps : n # m => map'[a][n] = map[a][n]
      /\ \A o \in Objects : o # a => map'[o] = map[o]
  BY ONLY a \in Objects, m \in Maps, <1>1, <1>3, map' = [map EXCEPT ![a][m] = r], MapSet, Zenon
<1>5. /\ Mine(a)
      /\ \/ i[a] = NumMaps /\ pc'[a] = "progs"
         \/ i[a] # NumMaps /\ pc'[a] = "map" /\ i'[a] = i[a] + 1
  <2>1. i[a] \in Maps
    BY Zenon
  <2> QED
    BY ONLY a \in Objects, NextMap(a), arg' = arg, progfd' = progfd, <1>1, <1>4, <2>1, NextMapGoes, Zenon
<1>6. InArray(a)' /\ Ahead(a)' /\ HasFds(a)' /\ Empty(a)'
  <2>1. /\ \A n \in Maps : n # i[a] => map'[a][n] = map[a][n]
        /\ map'[a][i[a]].fd # none /\ pc[a] \in {"map", "create", "autopin"}
    BY ONLY m = i[a], pc[a] = "autopin", <1>2, <1>3, <1>4
  <2> QED
    BY ONLY ObjectAssumption, ObjInv, a \in Objects, <1>5, <2>1, ToNext, Zenon
<1>7. /\ maker'[d][m] = a
      /\ \A e \in Dirs, n \in Maps : e # d \/ n # m => pins'[e][n] = pins[e][n] /\ maker'[e][n] = maker[e][n]
  BY ONLY a \in Objects, m \in Maps, d \in Dirs, PinsAt(a, d, m), <1>1, PinsAtFacts
<1>8. ~map[a][m].pinned
  <2>1. \A n \in Maps : n >= i[a] => ~map[a][n].pinned
    BY LoadFacts
  <2>2. m >= i[a]
    BY DEF Maps
  <2> QED
    BY <2>1, <2>2, Zenon
<1>9. OwnPins(a)'
  <2>1. ASSUME NEW e \in Dirs, NEW n \in Maps, maker'[e][n] = a
        PROVE  map'[a][n].pinned /\ ~map'[a][n].reused /\ map'[a][n].path = e
    <3>1. CASE e = d /\ n = m
      BY ONLY <1>3, <1>4, <3>1, ~map[a][m].reused, Zenon
    <3>2. CASE e # d \/ n # m
      <4>1. maker[e][n] = a
        BY ONLY e \in Dirs, n \in Maps, <1>7, <2>1, <3>2, Zenon
      <4>2. map[a][n].pinned /\ ~map[a][n].reused /\ map[a][n].path = e
        BY ONLY e \in Dirs, n \in Maps, <1>1, <4>1, Zenon DEF OwnPins
      <4>3. n # m
        BY ONLY <1>8, <4>2, Zenon
      <4> QED
        BY ONLY n \in Maps, <1>4, <4>2, <4>3, Zenon
    <3> QED
      BY <3>1, <3>2, Zenon
  <2>2. pc'[a] \notin {"closed", "open", "failed", "out"}
    BY <1>5
  <2> QED
    BY ONLY <2>1, <2>2, Zenon DEF OwnPins
<1>10. StillOwn(a)'
  <2>1. ASSUME NEW n \in Maps, map'[a][n].pinned, ~map'[a][n].reused, <<a, n>> \notin stale'
        PROVE  map'[a][n].path \in Dirs /\ maker'[map'[a][n].path][n] = a
    <3>1. CASE n = m
      BY ONLY d \in Dirs, <1>3, <1>4, <1>7, <3>1, Zenon
    <3>2. CASE n # m
      <4>1. map'[a][n] = map[a][n]
        BY ONLY n \in Maps, <1>4, <3>2, Zenon
      <4>2. map[a][n].path \in Dirs /\ maker[map[a][n].path][n] = a
        BY ONLY n \in Maps, <1>1, <1>2, <2>1, <4>1, Zenon DEF StillOwn
      <4>3. maker'[map[a][n].path][n] = maker[map[a][n].path][n]
        BY ONLY n \in Maps, <1>7, <3>2, <4>2, Zenon
      <4> QED
        BY ONLY <4>1, <4>2, <4>3, Zenon
    <3> QED
      BY <3>1, <3>2, Zenon
  <2> QED
    BY ONLY <2>1, Zenon DEF StillOwn
<1>11. FlagTrue(a)'
  <2>1. map'[a][m].path = d /\ map'[a][m].fd = map[a][m].fd
    BY ONLY <1>3, <1>4, Zenon
  <2> QED
    BY ONLY ObjInv, a \in Objects, d \in Dirs, m \in Maps, PinsAt(a, d, m), <1>4, <2>1, FlagsPinned, Zenon
<1>12. HasPath(a)'
  BY ONLY d \in Dirs, <1>1, <1>3, <1>4, Zenon DEF HasPath
<1>13. ObjectOK(a)' /\ SharedStep(a)
  BY ONLY d \in Dirs, m \in Maps, PinsAt(a, d, m), <1>6, <1>9, <1>10, <1>11, <1>12, Zenon DEF ObjectOK, SharedStep
<1> QED
  BY ONLY ObjectAssumption, ObjInv, a \in Objects, <1>5, <1>13, OwnStep, Zenon

\* The automatic pin of a map just made, or its failure.
LEMMA AutoPinStep ==
  ASSUME ObjectAssumption, ObjInv, NEW a \in Objects, AutoPin(a)
  PROVE  ObjInv'
<1>1. /\ ObjTypes /\ pc[a] = "autopin" /\ progfd' = progfd /\ arg' = arg /\ stale' = stale
      /\ Ahead(a) /\ HasFds(a)
  BY Zenon DEF ObjInv, ObjectOK, AutoPin, At, call
<1>2. i[a] \in Maps
  BY <1>1, LoadFacts
<1>3. PICK m \in Maps : m = i[a]
  BY <1>2, Zenon
<1>4. /\ ~map[a][m].reused /\ map[a][m].path # none /\ map[a][m].fd # none
  BY ONLY <1>1, <1>3, Zenon DEF Ahead, HasFds
<1>5. map[a][m].path \in Dirs
  <2>1. map[a][m] \in MapRec
    BY <1>1, Zenon DEF ObjTypes
  <2> QED
    BY <1>4, <2>1, Zenon DEF MapRec
<1>6. PICK d \in Dirs : d = map[a][m].path
  BY <1>5, Zenon
<1>7. \/ /\ pins[d][m] = none
         /\ pins' = [pins EXCEPT ![d][m] = map[a][m].fd]
         /\ maker' = [maker EXCEPT ![d][m] = a]
         /\ map' = [map EXCEPT ![a][m].pinned = TRUE] /\ NextMap(a)
      \/ Goto(a, "out", 1) /\ UNCHANGED <<map, pins, maker>>
  BY <1>3, <1>6, Zenon DEF AutoPin
<1>8. CASE /\ pins[d][m] = none
           /\ pins' = [pins EXCEPT ![d][m] = map[a][m].fd]
           /\ maker' = [maker EXCEPT ![d][m] = a]
           /\ map' = [map EXCEPT ![a][m].pinned = TRUE] /\ NextMap(a)
  <2>1. PinsAt(a, d, m)
    BY <1>1, <1>4, <1>8, Zenon DEF PinsAt
  <2>2. PICK r : r = [map[a][m] EXCEPT !.pinned = TRUE]
    BY Zenon
  <2>3. map' = [map EXCEPT ![a][m] = r]
    BY ONLY <1>8, <2>2, Zenon
  <2> QED
    BY <1>1, <1>3, <1>4, <1>6, <1>8, <2>1, <2>2, <2>3, AutoPinned, Zenon
<1>9. CASE Goto(a, "out", 1) /\ UNCHANGED <<map, pins, maker>>
  <2>1. pc[a] \in {"map", "create", "autopin", "progs"} /\ map' \in [Objects -> [Maps -> MapRec]]
    BY <1>1, <1>9, Zenon DEF ObjTypes
  <2> QED
    BY <1>1, <1>9, <2>1, FailsStep, Zenon
<1> QED
  BY <1>7, <1>8, <1>9, Zenon

\* A program is loaded once every map has a descriptor, or the load fails.
LEMMA LoadProgStep ==
  ASSUME ObjectAssumption, ObjInv, NEW a \in Objects, LoadProg(a)
  PROVE  ObjInv'
<1>1. /\ ObjTypes /\ pc[a] = "progs" /\ map' = map /\ arg' = arg /\ UNCHANGED <<pins, maker, stale>>
      /\ HasFds(a) /\ FlagTrue(a) /\ HasPath(a)
  BY Zenon DEF ObjInv, ObjectOK, LoadProg, At, call, shared
<1>2. CASE Goto(a, "out", 1) /\ progfd' = progfd
  <2>1. pc[a] \in {"map", "create", "autopin", "progs"} /\ map' \in [Objects -> [Maps -> MapRec]]
    BY <1>1, Zenon DEF ObjTypes
  <2> QED
    BY <1>1, <1>2, <2>1, FailsStep, Zenon
<1>3. CASE /\ progfd' = [progfd EXCEPT ![a][i[a]] = TRUE]
           /\ Goto(a, "loaded", 1) \/ Goto(a, "progs", i[a] + 1)
  <2>1. /\ progfd' \in [Objects -> [Progs -> BOOLEAN]]
        /\ \A o \in Objects : o # a => progfd'[o] = progfd[o]
    BY <1>1, <1>3, Zenon DEF ObjTypes
  <2>2. "loaded" \in ObjPcs /\ "progs" \in ObjPcs /\ 1 \in Nat /\ i[a] + 1 \in Nat
    BY <1>1 DEF ObjPcs, ProgLoops, ObjTypes
  <2>3. arg' \in [Objects -> Dirs \cup {none}] /\ map' \in [Objects -> [Maps -> MapRec]]
    BY <1>1, Zenon DEF ObjTypes
  <2>4. Mine(a) /\ pc'[a] \in {"loaded", "progs"}
    <3>1. CASE Goto(a, "loaded", 1)
      BY ONLY a \in Objects, <1>1, <2>1, <2>2, <2>3, <3>1, MovesOn, Zenon
    <3>2. CASE Goto(a, "progs", i[a] + 1)
      BY ONLY a \in Objects, <1>1, <2>1, <2>2, <2>3, <3>2, MovesOn, Zenon
    <3> QED
      BY <1>3, <3>1, <3>2, Zenon
  <2>5. InArray(a)' /\ Ahead(a)' /\ HasFds(a)' /\ Empty(a)'
    <3>1. \A m \in Maps : map'[a][m].fd # none
      BY ONLY <1>1, Zenon DEF HasFds
    <3> QED
      BY ONLY <2>4, <3>1 DEF InArray, Ahead, HasFds, Empty, MapLoops
  <2>6. OwnPins(a)' /\ StillOwn(a)'
    BY ONLY ObjInv, a \in Objects, <1>1, <2>4, OwnKept
  <2>7. FlagTrue(a)' /\ HasPath(a)'
    BY <1>1, Zenon DEF FlagTrue, HasPath
  <2>8. ObjectOK(a)' /\ SharedStep(a)
    BY <1>1, <2>5, <2>6, <2>7, Zenon DEF ObjectOK, SharedStep
  <2> QED
    BY <2>4, <2>8, OwnStep, Zenon
<1> QED
  BY <1>2, <1>3 DEF LoadProg

\* Two struct bpf_map that differ in nothing but left.
SameMap(r, q) == r.fd = q.fd /\ r.path = q.path /\ r.pinned = q.pinned /\ r.reused = q.reused

\* The clean-up removes a pin: afterwards the object made no pin of that map.
LEMMA UndoneFacts ==
  ASSUME ObjectAssumption, ObjInv, NEW a \in Objects, pc[a] = "out", NEW m \in Maps,
         map[a][m].pinned, Unlink(a, m, map[a][m].path)
  PROVE  /\ SharedStep(a)
         /\ \A e \in Dirs, n \in Maps : maker'[e][n] = a => maker[e][n] = a /\ n # m
         /\ \A e \in Dirs, n \in Maps : n # m => pins'[e][n] = pins[e][n] /\ maker'[e][n] = maker[e][n]
         /\ \A n \in Maps : n # m /\ <<a, n>> \notin stale' => <<a, n>> \notin stale
<1>1. ObjTypes /\ OwnPins(a) /\ HasPath(a) /\ pc[a] \in Loading /\ none # a
  BY Zenon DEF ObjInv, ObjectOK, Loading, ObjectAssumption
<1>2. \A e \in Dirs, n \in Maps : maker[e][n] = a => map[a][n].path = e
  BY ONLY <1>1, Zenon DEF OwnPins
<1>3. map[a][m].path \in Dirs
  BY ONLY m \in Maps, map[a][m].pinned, <1>1, Zenon DEF HasPath
<1>4. PICK d \in Dirs : d = map[a][m].path
  BY ONLY <1>3, Zenon
<1>5. Unlink(a, m, d)
  BY ONLY Unlink(a, m, map[a][m].path), <1>4, Zenon
<1>6. /\ maker'[d][m] = none
      /\ \A e \in Dirs, n \in Maps : e # d \/ n # m => pins'[e][n] = pins[e][n] /\ maker'[e][n] = maker[e][n]
      /\ \A n \in Maps : <<a, n>> \notin stale' => n = m \/ <<a, n>> \notin stale
  BY ONLY a \in Objects, d \in Dirs, m \in Maps, <1>1, <1>5, UnlinkFacts
<1>7. ASSUME NEW e \in Dirs, NEW n \in Maps, maker'[e][n] = a PROVE maker[e][n] = a /\ n # m
  <2>1. e # d \/ n # m
    BY ONLY <1>1, <1>6, <1>7, Zenon
  <2>2. maker[e][n] = a
    BY ONLY e \in Dirs, n \in Maps, <1>6, <1>7, <2>1, Zenon
  <2>3. map[a][n].path = e
    BY ONLY e \in Dirs, n \in Maps, <1>2, <2>2, Zenon
  <2> QED
    BY ONLY <1>4, <2>1, <2>2, <2>3, Zenon
<1>8. SharedStep(a)
  BY ONLY d \in Dirs, m \in Maps, <1>5, Zenon DEF SharedStep
<1> QED
  BY ONLY <1>6, <1>7, <1>8, Zenon

\* The clean-up goes on to the next map.
LEMMA UndoGoesOn ==
  ASSUME ObjectAssumption, ObjInv, NEW a \in Objects, pc[a] = "out", NEW m \in Maps, m = i[a], m # NumMaps,
         SharedStep(a),
         \A e \in Dirs, n \in Maps : maker'[e][n] = a =>
           maker[e][n] = a /\ (n = m => map'[a][m].left /\ map'[a][m].pinned),
         \A e \in Dirs, n \in Maps : n # m => pins'[e][n] = pins[e][n] /\ maker'[e][n] = maker[e][n],
         \A n \in Maps : n # m /\ <<a, n>> \notin stale' => <<a, n>> \notin stale,
         Mine(a), pc'[a] = "out", i'[a] = m + 1,
         \A n \in Maps : n # m => map'[a][n] = map[a][n],
         map'[a][m].pinned => SameMap(map'[a][m], map[a][m]) /\ UNCHANGED <<pins, maker, stale>>
  PROVE  ObjInv'
<1>1. OwnPins(a) /\ StillOwn(a) /\ FlagTrue(a) /\ HasPath(a) /\ pc[a] \in Loading
  BY Zenon DEF ObjInv, ObjectOK, Loading
<1>2. InArray(a)' /\ Ahead(a)' /\ HasFds(a)' /\ Empty(a)'
  <2>1. m + 1 \in Maps
    BY ONLY m \in Maps, m # NumMaps, ObjectAssumption DEF Maps, ObjectAssumption
  <2> QED
    BY ONLY pc'[a] = "out", i'[a] = m + 1, <2>1 DEF InArray, Ahead, HasFds, Empty, Later
<1>3. OwnPins(a)'
  <2>1. ASSUME NEW e \in Dirs, NEW n \in Maps, maker'[e][n] = a
        PROVE  /\ map'[a][n].pinned /\ ~map'[a][n].reused /\ map'[a][n].path = e
               /\ n >= i'[a] \/ map'[a][n].left
    <3>1. maker[e][n] = a /\ (n = m => map'[a][m].left /\ map'[a][m].pinned)
      BY <2>1, Zenon
    <3>2. /\ map[a][n].pinned /\ ~map[a][n].reused /\ map[a][n].path = e
          /\ n >= i[a] \/ map[a][n].left
      BY ONLY pc[a] = "out", e \in Dirs, n \in Maps, <1>1, <3>1, Zenon DEF OwnPins
    <3>3. CASE n = m
      <4>1. SameMap(map'[a][m], map[a][m])
        BY <3>1, <3>3, Zenon
      <4> QED
        BY ONLY <3>1, <3>2, <3>3, <4>1, Zenon DEF SameMap
    <3>4. CASE n # m
      <4>1. n >= i[a] => n >= m + 1
        BY ONLY m = i[a], m \in Maps, n \in Maps, <3>4 DEF Maps
      <4>2. map'[a][n] = map[a][n]
        BY <3>4, Zenon
      <4> QED
        BY ONLY i'[a] = m + 1, <3>2, <4>1, <4>2, Zenon
    <3> QED
      BY ONLY <3>3, <3>4, Zenon
  <2> QED
    BY ONLY pc'[a] = "out", <2>1 DEF OwnPins
<1>4. StillOwn(a)'
  <2>1. ASSUME NEW n \in Maps, map'[a][n].pinned, ~map'[a][n].reused, <<a, n>> \notin stale'
        PROVE  map'[a][n].path \in Dirs /\ maker'[map'[a][n].path][n] = a
    <3>1. CASE n # m
      <4>1. map'[a][n] = map[a][n] /\ <<a, n>> \notin stale
        BY <2>1, <3>1, Zenon
      <4>2. map[a][n].path \in Dirs /\ maker[map[a][n].path][n] = a
        BY ONLY n \in Maps, <1>1, <2>1, <4>1, Zenon DEF StillOwn
      <4>3. maker'[map[a][n].path][n] = maker[map[a][n].path][n]
        BY <3>1, <4>2, Zenon
      <4> QED
        BY ONLY <4>1, <4>2, <4>3, Zenon
    <3>2. CASE n = m
      <4>1. SameMap(map'[a][n], map[a][n]) /\ maker' = maker /\ stale' = stale
        BY <2>1, <3>2, Zenon
      <4> QED
        BY ONLY n \in Maps, <1>1, <2>1, <4>1, Zenon DEF StillOwn, SameMap
    <3> QED
      BY <3>1, <3>2, Zenon
  <2> QED
    BY ONLY <2>1, Zenon DEF StillOwn
<1>5. FlagTrue(a)'
  <2>1. ASSUME NEW n \in Maps, map'[a][n].pinned, map'[a][n].fd # none, <<a, n>> \notin stale'
        PROVE  map'[a][n].path \in Dirs /\ pins'[map'[a][n].path][n] = map'[a][n].fd
    <3>1. CASE n # m
      <4>1. map'[a][n] = map[a][n] /\ <<a, n>> \notin stale
        BY <2>1, <3>1, Zenon
      <4>2. map[a][n].path \in Dirs /\ pins[map[a][n].path][n] = map[a][n].fd
        BY ONLY n \in Maps, <1>1, <2>1, <4>1, Zenon DEF FlagTrue
      <4>3. pins'[map[a][n].path][n] = pins[map[a][n].path][n]
        BY <3>1, <4>2, Zenon
      <4> QED
        BY ONLY <4>1, <4>2, <4>3, Zenon
    <3>2. CASE n = m
      <4>1. SameMap(map'[a][n], map[a][n]) /\ pins' = pins /\ stale' = stale
        BY <2>1, <3>2, Zenon
      <4> QED
        BY ONLY n \in Maps, <1>1, <2>1, <4>1, Zenon DEF FlagTrue, SameMap
    <3> QED
      BY <3>1, <3>2, Zenon
  <2> QED
    BY ONLY <2>1, Zenon DEF FlagTrue
<1>6. HasPath(a)'
  <2>1. ASSUME NEW n \in Maps, map'[a][n].pinned PROVE map'[a][n].path \in Dirs
    <3>1. SameMap(map'[a][n], map[a][n])
      BY <2>1, Zenon DEF SameMap
    <3> QED
      BY ONLY n \in Maps, <1>1, <2>1, <3>1, Zenon DEF HasPath, SameMap
  <2> QED
    BY ONLY <2>1, Zenon DEF HasPath
<1>7. ObjectOK(a)'
  BY ONLY <1>2, <1>3, <1>4, <1>5, <1>6, Zenon DEF ObjectOK
<1> QED
  BY ONLY ObjectAssumption, ObjInv, a \in Objects, Mine(a), SharedStep(a), <1>7, OwnStep, Zenon

\* The clean-up ends: everything is closed, and no pin the load made is left
\* but those it could not remove.
LEMMA UndoFinishes ==
  ASSUME ObjectAssumption, ObjInv, NEW a \in Objects, pc[a] = "out", NEW m \in Maps, m = i[a], m = NumMaps,
         SharedStep(a),
         \A e \in Dirs, n \in Maps : maker'[e][n] = a =>
           maker[e][n] = a /\ (n = m => map'[a][m].left /\ map'[a][m].pinned),
         Mine(a), pc'[a] = "failed",
         \A n \in Maps : map'[a][n].fd = none, \A k \in Progs : ~progfd'[a][k],
         \A n \in Maps : map'[a][n].pinned => map'[a][n].path = map[a][n].path /\ map[a][n].pinned,
         \A n \in Maps : n # m => map'[a][n].left = map[a][n].left /\ map'[a][n].pinned = map[a][n].pinned
  PROVE  ObjInv'
<1>1. OwnPins(a) /\ HasPath(a) /\ pc[a] \in Loading
  BY Zenon DEF ObjInv, ObjectOK, Loading
<1>2. InArray(a)' /\ Ahead(a)' /\ HasFds(a)' /\ Empty(a)'
  BY ONLY pc'[a] = "failed", \A n \in Maps : map'[a][n].fd = none, \A k \in Progs : ~progfd'[a][k]
     DEF InArray, Ahead, HasFds, Empty, Later, MapLoops
<1>3. OwnPins(a)' /\ StillOwn(a)'
  <2>1. ASSUME NEW e \in Dirs, NEW n \in Maps, maker'[e][n] = a
        PROVE  map'[a][n].left /\ map'[a][n].pinned
    <3>1. maker[e][n] = a /\ (n = m => map'[a][m].left /\ map'[a][m].pinned)
      BY <2>1, Zenon
    <3>2. CASE n # m
      <4>1. map[a][n].pinned /\ (n >= i[a] \/ map[a][n].left)
        BY ONLY pc[a] = "out", e \in Dirs, n \in Maps, <1>1, <3>1, Zenon DEF OwnPins
      <4>2. ~(n >= i[a])
        BY ONLY m = i[a], m = NumMaps, n \in Maps, ObjectAssumption, <3>2 DEF Maps, ObjectAssumption
      <4> QED
        BY <3>2, <4>1, <4>2, Zenon
    <3> QED
      BY ONLY <3>1, <3>2, Zenon
  <2> QED
    BY ONLY pc'[a] = "failed", <2>1 DEF OwnPins, StillOwn, Loading
<1>4. FlagTrue(a)'
  BY Zenon DEF FlagTrue
<1>5. HasPath(a)'
  BY <1>1, Zenon DEF HasPath
<1>6. ObjectOK(a)'
  BY ONLY <1>2, <1>3, <1>4, <1>5, Zenon DEF ObjectOK
<1> QED
  BY ONLY ObjectAssumption, ObjInv, a \in Objects, Mine(a), SharedStep(a), <1>6, OwnStep, Zenon

\* What the clean-up does to the map it has come to, and to its pin: u are the
\* maps before everything is closed.
LEMMA UndoCases ==
  ASSUME ObjectAssumption, ObjInv, NEW a \in Objects, pc[a] = "out", NEW m \in Maps, NEW u,
         \/ /\ map[a][m].pinned /\ Unlink(a, m, map[a][m].path)
            /\ u = [map EXCEPT ![a][m].pinned = FALSE]
         \/ UNCHANGED <<pins, maker, stale>> /\ u = [map EXCEPT ![a][m].left = TRUE]
         \/ /\ UNCHANGED <<pins, maker, stale>> /\ u = map
            /\ ~(map[a][m].pinned /\ ~map[a][m].reused /\ PinAt(map[a][m].path, m) # none)
  PROVE  /\ u \in [Objects -> [Maps -> MapRec]]
         /\ \A o \in Objects : o # a => u[o] = map[o]
         /\ \A n \in Maps : n # m => u[a][n] = map[a][n]
         /\ u[a][m].path = map[a][m].path /\ u[a][m].fd = map[a][m].fd
         /\ u[a][m].pinned => SameMap(u[a][m], map[a][m]) /\ UNCHANGED <<pins, maker, stale>>
         /\ SharedStep(a)
         /\ \A e \in Dirs, n \in Maps : maker'[e][n] = a =>
              maker[e][n] = a /\ (n = m => u[a][m].left /\ u[a][m].pinned)
         /\ \A e \in Dirs, n \in Maps : n # m => pins'[e][n] = pins[e][n] /\ maker'[e][n] = maker[e][n]
         /\ \A n \in Maps : n # m /\ <<a, n>> \notin stale' => <<a, n>> \notin stale
<1>1. /\ OwnPins(a) /\ pc[a] \in Loading /\ none # a
      /\ \A d \in Dirs, n \in Maps : pins[d][n] = none <=> maker[d][n] = none
      /\ map \in [Objects -> [Maps -> MapRec]] /\ map[a][m] \in MapRec
  <2>1. OwnPins(a) /\ pc[a] \in Loading
    BY Zenon DEF ObjInv, ObjectOK, Loading
  <2>2. none # a
    BY Zenon DEF ObjectAssumption
  <2>3. /\ ObjTypes
        /\ \A d \in Dirs, n \in Maps : pins[d][n] = none <=> maker[d][n] = none
    BY ONLY ObjInv, Zenon DEF ObjInv
  <2>4. map \in [Objects -> [Maps -> MapRec]]
    BY ONLY <2>3, Zenon DEF ObjTypes
  <2>5. map[a][m] \in MapRec
    BY ONLY a \in Objects, m \in Maps, <2>4, Zenon
  <2> QED
    BY ONLY <2>1, <2>2, <2>3, <2>4, <2>5, Zenon
<1>2. \A e \in Dirs, n \in Maps :
        maker[e][n] = a => map[a][n].pinned /\ ~map[a][n].reused /\ map[a][n].path = e
  BY ONLY <1>1, Zenon DEF OwnPins
<1>3. ASSUME NEW r \in MapRec, u = [map EXCEPT ![a][m] = r]
      PROVE  /\ u \in [Objects -> [Maps -> MapRec]] /\ u[a][m] = r
             /\ \A o \in Objects : o # a => u[o] = map[o]
             /\ \A n \in Maps : n # m => u[a][n] = map[a][n]
  BY ONLY a \in Objects, m \in Maps, <1>1, <1>3, Zenon
<1>4. CASE /\ map[a][m].pinned /\ Unlink(a, m, map[a][m].path)
           /\ u = [map EXCEPT ![a][m].pinned = FALSE]
  <2>1. PICK r : r = [map[a][m] EXCEPT !.pinned = FALSE]
    BY Zenon
  <2>2. r \in MapRec /\ ~r.pinned /\ r.path = map[a][m].path /\ r.fd = map[a][m].fd
    BY ONLY <1>1, <2>1, Zenon DEF MapRec
  <2>3. u = [map EXCEPT ![a][m] = r]
    BY ONLY <1>4, <2>1, Zenon
  <2>4. /\ u \in [Objects -> [Maps -> MapRec]] /\ u[a][m] = r
        /\ \A o \in Objects : o # a => u[o] = map[o]
        /\ \A n \in Maps : n # m => u[a][n] = map[a][n]
    BY ONLY <1>3, <2>2, <2>3, Zenon
  <2>5. /\ SharedStep(a)
        /\ \A e \in Dirs, n \in Maps : maker'[e][n] = a => maker[e][n] = a /\ n # m
        /\ \A e \in Dirs, n \in Maps : n # m => pins'[e][n] = pins[e][n] /\ maker'[e][n] = maker[e][n]
        /\ \A n \in Maps : n # m /\ <<a, n>> \notin stale' => <<a, n>> \notin stale
    BY ONLY ObjectAssumption, ObjInv, a \in Objects, pc[a] = "out", m \in Maps, <1>4, UndoneFacts, Zenon
  <2> QED
    BY ONLY <2>2, <2>4, <2>5, ZenonT(30)
<1>5. CASE UNCHANGED <<pins, maker, stale>> /\ u = [map EXCEPT ![a][m].left = TRUE]
  <2>1. PICK r : r = [map[a][m] EXCEPT !.left = TRUE]
    BY Zenon
  <2>2. r \in MapRec /\ r.left /\ SameMap(r, map[a][m])
    BY ONLY <1>1, <2>1, Zenon DEF MapRec, SameMap
  <2>3. u = [map EXCEPT ![a][m] = r]
    BY ONLY <1>5, <2>1, Zenon
  <2>4. /\ u \in [Objects -> [Maps -> MapRec]] /\ u[a][m] = r
        /\ \A o \in Objects : o # a => u[o] = map[o]
        /\ \A n \in Maps : n # m => u[a][n] = map[a][n]
    BY ONLY <1>3, <2>2, <2>3, Zenon
  <2>5. pins' = pins /\ maker' = maker /\ stale' = stale /\ SharedStep(a)
    BY ONLY <1>5, Zenon DEF SharedStep
  <2>6. ASSUME NEW e \in Dirs, maker[e][m] = a PROVE u[a][m].pinned
    BY ONLY e \in Dirs, m \in Maps, <1>2, <2>2, <2>4, <2>6, Zenon DEF SameMap
  <2>7. u[a][m].path = map[a][m].path /\ u[a][m].fd = map[a][m].fd /\ u[a][m].left
    BY ONLY <2>2, <2>4, Zenon DEF SameMap
  <2> QED
    BY ONLY <1>5, <2>2, <2>4, <2>5, <2>6, <2>7, ZenonT(30)
<1>6. CASE /\ UNCHANGED <<pins, maker, stale>> /\ u = map
           /\ ~(map[a][m].pinned /\ ~map[a][m].reused /\ PinAt(map[a][m].path, m) # none)
  <2>1. pins' = pins /\ maker' = maker /\ stale' = stale /\ SharedStep(a) /\ SameMap(u[a][m], map[a][m])
    BY ONLY <1>6, Zenon DEF SharedStep, SameMap
  <2>2. ASSUME NEW e \in Dirs, maker[e][m] = a PROVE FALSE
    <3>1. map[a][m].pinned /\ ~map[a][m].reused /\ map[a][m].path = e
      BY ONLY e \in Dirs, m \in Maps, <1>2, <2>2, Zenon
    <3>2. PinAt(e, m) = none
      BY ONLY <1>6, <3>1, Zenon
    <3>3. e # none
      BY ONLY e \in Dirs, ObjectAssumption, Zenon DEF ObjectAssumption
    <3>4. pins[e][m] = none
      BY ONLY <3>2, <3>3, Zenon DEF PinAt
    <3> QED
      BY ONLY e \in Dirs, m \in Maps, <1>1, <2>2, <3>4, Zenon
  <2> QED
    BY ONLY <1>1, <1>6, <2>1, <2>2, ZenonT(30)
<1> QED
  BY <1>4, <1>5, <1>6, Zenon

\* The clean-up of bpf_object__load_xattr comes past a map, or ends.
LEMMA UndoPinStep ==
  ASSUME ObjectAssumption, ObjInv, NEW a \in Objects, UndoPin(a)
  PROVE  ObjInv'
<1>1. ObjTypes /\ pc[a] = "out" /\ arg' = arg /\ InArray(a)
  BY Zenon DEF ObjInv, ObjectOK, UndoPin, At, call
<1>2. i[a] \in Maps
  BY ONLY <1>1, SMTT(30) DEF InArray, MapLoops
<1>3. PICK m \in Maps : m = i[a]
  BY <1>2, Zenon
<1>4. PICK u :
        /\ UndoEnds(a, u)
        /\ \/ /\ map[a][m].pinned /\ Unlink(a, m, map[a][m].path)
              /\ u = [map EXCEPT ![a][m].pinned = FALSE]
           \/ UNCHANGED <<pins, maker, stale>> /\ u = [map EXCEPT ![a][m].left = TRUE]
           \/ /\ UNCHANGED <<pins, maker, stale>> /\ u = map
              /\ ~(map[a][m].pinned /\ ~map[a][m].reused /\ PinAt(map[a][m].path, m) # none)
  BY ONLY UndoPin(a), <1>3, Zenon DEF UndoPin
<1>5. /\ map' = IF m = NumMaps THEN [u EXCEPT ![a] = [j \in Maps |-> [u[a][j] EXCEPT !.fd = none]]] ELSE u
      /\ progfd' = IF m = NumMaps THEN [progfd EXCEPT ![a] = [k \in Progs |-> FALSE]] ELSE progfd
      /\ IF m = NumMaps THEN Goto(a, "failed", 1) ELSE Goto(a, "out", m + 1)
  BY ONLY <1>3, <1>4 DEF UndoEnds
<1>6. /\ u \in [Objects -> [Maps -> MapRec]]
      /\ \A o \in Objects : o # a => u[o] = map[o]
      /\ \A n \in Maps : n # m => u[a][n] = map[a][n]
      /\ u[a][m].path = map[a][m].path /\ u[a][m].fd = map[a][m].fd
      /\ u[a][m].pinned => SameMap(u[a][m], map[a][m]) /\ UNCHANGED <<pins, maker, stale>>
      /\ SharedStep(a)
      /\ \A e \in Dirs, n \in Maps : maker'[e][n] = a =>
           maker[e][n] = a /\ (n = m => u[a][m].left /\ u[a][m].pinned)
      /\ \A e \in Dirs, n \in Maps : n # m => pins'[e][n] = pins[e][n] /\ maker'[e][n] = maker[e][n]
      /\ \A n \in Maps : n # m /\ <<a, n>> \notin stale' => <<a, n>> \notin stale
  BY ONLY ObjectAssumption, ObjInv, a \in Objects, m \in Maps, <1>1, <1>4, UndoCases, ZenonT(30)
<1>7. arg' \in [Objects -> Dirs \cup {none}] /\ progfd \in [Objects -> [Progs -> BOOLEAN]]
  BY ONLY <1>1, Zenon DEF ObjTypes
<1>8. CASE m # NumMaps
  <2>1. map' = u /\ progfd' = progfd /\ Goto(a, "out", m + 1)
    BY ONLY <1>5, <1>8, Zenon
  <2>2. "out" \in ObjPcs /\ m + 1 \in Nat
    BY DEF ObjPcs, MapLoops, Maps
  <2>3. Mine(a) /\ pc'[a] = "out" /\ i'[a] = m + 1
    <3>1. /\ map' \in [Objects -> [Maps -> MapRec]] /\ progfd' \in [Objects -> [Progs -> BOOLEAN]]
          /\ \A o \in Objects : o # a => map'[o] = map[o]
          /\ \A o \in Objects : o # a => progfd'[o] = progfd[o]
      BY ONLY <1>6, <1>7, <2>1, Zenon
    <3>2. Goto(a, "out", m + 1) /\ arg' \in [Objects -> Dirs \cup {none}] /\ ObjTypes
      BY ONLY <1>1, <1>7, <2>1, Zenon
    <3> QED
      BY ONLY a \in Objects, <2>2, <3>1, <3>2, MovesOn, Zenon
  <2>4. /\ \A n \in Maps : n # m => map'[a][n] = map[a][n]
        /\ map'[a][m].pinned => SameMap(map'[a][m], map[a][m]) /\ UNCHANGED <<pins, maker, stale>>
        /\ \A e \in Dirs, n \in Maps : maker'[e][n] = a =>
             maker[e][n] = a /\ (n = m => map'[a][m].left /\ map'[a][m].pinned)
    BY ONLY <1>6, <2>1, Zenon
  <2>5. /\ SharedStep(a)
        /\ \A e \in Dirs, n \in Maps : n # m => pins'[e][n] = pins[e][n] /\ maker'[e][n] = maker[e][n]
        /\ \A n \in Maps : n # m /\ <<a, n>> \notin stale' => <<a, n>> \notin stale
    BY ONLY <1>6, Zenon
  <2> QED
    BY ONLY ObjectAssumption, ObjInv, a \in Objects, m \in Maps, <1>1, <1>3, <1>8, <2>3, <2>4, <2>5,
            UndoGoesOn, ZenonT(30)
<1>9. CASE m = NumMaps
  <2>1. /\ map' = [u EXCEPT ![a] = [j \in Maps |-> [u[a][j] EXCEPT !.fd = none]]]
        /\ progfd' = [progfd EXCEPT ![a] = [k \in Progs |-> FALSE]] /\ Goto(a, "failed", 1)
    BY ONLY <1>5, <1>9, Zenon
  <2>2. ASSUME NEW r \in MapRec
        PROVE  /\ [r EXCEPT !.fd = none] \in MapRec /\ [r EXCEPT !.fd = none].fd = none
               /\ [r EXCEPT !.fd = none].pinned = r.pinned /\ [r EXCEPT !.fd = none].path = r.path
               /\ [r EXCEPT !.fd = none].left = r.left
    BY ONLY r \in MapRec DEF MapRec, Fds
  <2>3. PICK f : f = [j \in Maps |-> [u[a][j] EXCEPT !.fd = none]]
    BY Zenon
  <2>4. \A j \in Maps : u[a][j] \in MapRec
    BY ONLY a \in Objects, <1>6, Zenon
  <2>5. /\ f \in [Maps -> MapRec]
        /\ \A j \in Maps : /\ f[j].fd = none /\ f[j].pinned = u[a][j].pinned
                           /\ f[j].path = u[a][j].path /\ f[j].left = u[a][j].left
    BY ONLY <2>2, <2>3, <2>4, Zenon
  <2>6. map' = [u EXCEPT ![a] = f]
    BY ONLY <2>1, <2>3, Zenon
  <2>7. /\ map' \in [Objects -> [Maps -> MapRec]] /\ map'[a] = f
        /\ \A o \in Objects : o # a => map'[o] = map[o]
    BY ONLY a \in Objects, <1>6, <2>5, <2>6, Zenon
  <2>8. /\ progfd' \in [Objects -> [Progs -> BOOLEAN]] /\ \A k \in Progs : ~progfd'[a][k]
        /\ \A o \in Objects : o # a => progfd'[o] = progfd[o]
    BY ONLY a \in Objects, <1>7, <2>1, Zenon
  <2>9. "failed" \in ObjPcs /\ 1 \in Nat
    BY DEF ObjPcs
  <2>10. Mine(a) /\ pc'[a] = "failed"
    <3>1. Goto(a, "failed", 1) /\ arg' \in [Objects -> Dirs \cup {none}] /\ ObjTypes
      BY ONLY <1>1, <1>7, <2>1, Zenon
    <3> QED
      BY ONLY a \in Objects, <2>7, <2>8, <2>9, <3>1, MovesOn, Zenon
  <2>11. \A n \in Maps : /\ map'[a][n].fd = none
                         /\ map'[a][n].pinned => map'[a][n].path = map[a][n].path /\ map[a][n].pinned
                         /\ n # m => map'[a][n].left = map[a][n].left /\ map'[a][n].pinned = map[a][n].pinned
    <3>1. \A n \in Maps : u[a][n].pinned => u[a][n].path = map[a][n].path /\ map[a][n].pinned
      BY ONLY <1>6, Zenon DEF SameMap
    <3>2. TAKE n \in Maps
    <3>3. /\ map'[a][n].fd = none /\ map'[a][n].pinned = u[a][n].pinned
          /\ map'[a][n].path = u[a][n].path /\ map'[a][n].left = u[a][n].left
      BY ONLY n \in Maps, <2>5, <2>7, Zenon
    <3>4. n # m => u[a][n] = map[a][n]
      BY ONLY n \in Maps, <1>6, Zenon
    <3>5. u[a][n].pinned => u[a][n].path = map[a][n].path /\ map[a][n].pinned
      BY ONLY n \in Maps, <3>1, Zenon
    <3> QED
      BY ONLY <3>3, <3>4, <3>5, Zenon
  <2>12. \A e \in Dirs, n \in Maps : maker'[e][n] = a =>
           maker[e][n] = a /\ (n = m => map'[a][m].left /\ map'[a][m].pinned)
    BY ONLY m \in Maps, <1>6, <2>5, <2>7, Zenon
  <2>13. SharedStep(a)
    BY ONLY <1>6, Zenon
  <2>14. /\ \A n \in Maps : map'[a][n].fd = none
         /\ \A n \in Maps : map'[a][n].pinned => map'[a][n].path = map[a][n].path /\ map[a][n].pinned
         /\ \A n \in Maps : n # m => map'[a][n].left = map[a][n].left /\ map'[a][n].pinned = map[a][n].pinned
    BY ONLY <2>11, Zenon
  <2>15. pc[a] = "out" /\ m = i[a] /\ \A k \in Progs : ~progfd'[a][k]
    BY ONLY <1>1, <1>3, <2>8, Zenon
  <2> QED
    BY ONLY ObjectAssumption, ObjInv, a \in Objects, m \in Maps, <1>9, <2>10, <2>12, <2>13, <2>14, <2>15,
            UndoFinishes
<1> QED
  BY <1>8, <1>9, Zenon

-----------------------------------------------------------------------------
(* After the load *)

\* bpf_object__close leaves nothing in the object; its pins stay.
LEMMA CloseStep ==
  ASSUME ObjectAssumption, ObjInv, NEW a \in Objects, bpf_object__close(a)
  PROVE  ObjInv'
<1>1. /\ ObjTypes /\ Goto(a, "done", 1) /\ arg' = arg
      /\ map' = [map EXCEPT ![a] = [m \in Maps |-> Closed]]
      /\ progfd' = [progfd EXCEPT ![a] = [k \in Progs |-> FALSE]]
      /\ UNCHANGED <<pins, maker, stale>>
  BY Zenon DEF ObjInv, bpf_object__close, call, shared
<1>2. Closed \in MapRec /\ ~Closed.pinned /\ Closed.fd = none
  BY DEF Closed, MapRec, Fds
<1>3. [m \in Maps |-> Closed] \in [Maps -> MapRec]
  BY <1>2, Zenon
<1>4. /\ map' \in [Objects -> [Maps -> MapRec]] /\ map'[a] = [m \in Maps |-> Closed]
      /\ \A o \in Objects : o # a => map'[o] = map[o]
  BY <1>1, <1>3, MapsSet, Zenon
<1>5. /\ progfd' \in [Objects -> [Progs -> BOOLEAN]] /\ \A k \in Progs : ~progfd'[a][k]
      /\ \A o \in Objects : o # a => progfd'[o] = progfd[o]
  BY <1>1, Zenon DEF ObjTypes
<1>6. Mine(a) /\ pc'[a] = "done"
  <2>1. "done" \in ObjPcs /\ 1 \in Nat
    BY DEF ObjPcs
  <2>2. Goto(a, "done", 1) /\ arg' \in [Objects -> Dirs \cup {none}] /\ ObjTypes
    BY ONLY <1>1, Zenon DEF ObjTypes
  <2> QED
    BY ONLY a \in Objects, <1>4, <1>5, <2>1, <2>2, MovesOn, Zenon
<1>7. \A m \in Maps : map'[a][m].fd = none /\ ~map'[a][m].pinned
  BY <1>2, <1>4, Zenon
<1>8. InArray(a)' /\ Ahead(a)' /\ HasFds(a)' /\ Empty(a)' /\ OwnPins(a)' /\ StillOwn(a)'
  BY ONLY <1>5, <1>6, <1>7 DEF InArray, Ahead, HasFds, Empty, OwnPins, StillOwn, Later, MapLoops, Loading
<1>9. FlagTrue(a)' /\ HasPath(a)'
  BY ONLY <1>7, Zenon DEF FlagTrue, HasPath
<1>10. ObjectOK(a)' /\ SharedStep(a)
  BY <1>1, <1>8, <1>9, Zenon DEF ObjectOK, SharedStep
<1> QED
  BY <1>6, <1>10, OwnStep, Zenon

\* A pin call goes on or returns.
Goes(a) ==
  /\ arg' \in [Objects -> Dirs \cup {none}]
  /\ \E l \in Later, n \in Nat : Goto(a, l, n) /\ (l \in {"pin_maps", "pin_back", "unpin_maps"} => n \in Maps)

\* A step inside a pin call is one of those moves.
LEMMA StepGoes ==
  ASSUME ObjTypes, NEW a \in Objects, NEW l \in Later, NEW n \in Nat, Step(a, l, n),
         l \in {"pin_maps", "pin_back", "unpin_maps"} => n \in Maps
  PROVE  Goes(a)
BY Zenon DEF Goes, Step, ObjTypes

\* So is its return.
LEMMA ReturnGoes ==
  ASSUME ObjTypes, NEW a \in Objects, Return(a)
  PROVE  Goes(a)
<1>1. "loaded" \in Later /\ "loaded" \notin {"pin_maps", "pin_back", "unpin_maps"} /\ 1 \in Nat
  BY DEF Later
<1>2. Goto(a, "loaded", 1) /\ arg' \in [Objects -> Dirs \cup {none}]
  BY Zenon DEF Return, ObjTypes
<1> QED
  BY ONLY <1>1, <1>2, Zenon DEF Goes

\* A pin call keeps the invariant when it keeps the descriptors and the flags.
LEMMA LaterGoes ==
  ASSUME ObjectAssumption, ObjInv, NEW a \in Objects, pc[a] \in Later, Goes(a), SharedStep(a), progfd' = progfd,
         map' \in [Objects -> [Maps -> MapRec]], \A o \in Objects : o # a => map'[o] = map[o],
         \A m \in Maps : map'[a][m].fd = map[a][m].fd, FlagTrue(a)', HasPath(a)'
  PROVE  ObjInv'
<1>1. PICK l \in Later, n \in Nat :
        Goto(a, l, n) /\ (l \in {"pin_maps", "pin_back", "unpin_maps"} => n \in Maps)
  BY Zenon DEF Goes
<1>2. ObjTypes /\ arg' \in [Objects -> Dirs \cup {none}] /\ l \in ObjPcs
  <2>1. l \in ObjPcs
    BY DEF Later, ObjPcs, MapLoops, ProgLoops
  <2> QED
    BY <2>1, Zenon DEF Goes, ObjInv
<1>3. /\ progfd' \in [Objects -> [Progs -> BOOLEAN]]
      /\ \A o \in Objects : o # a => progfd'[o] = progfd[o]
  BY <1>2, Zenon DEF ObjTypes
<1>4. Mine(a) /\ pc'[a] = l /\ i'[a] = n
  BY <1>1, <1>2, <1>3, MovesOn, Zenon
<1>5. pc'[a] \in Later /\ (pc'[a] \in {"pin_maps", "pin_back", "unpin_maps"} => i'[a] \in Maps)
  BY ONLY l \in Later, <1>1, <1>4, Zenon
<1>6. ObjectOK(a)'
  BY <1>5, LaterStep, Zenon
<1> QED
  BY ONLY ObjectAssumption, ObjInv, a \in Objects, SharedStep(a), <1>4, <1>6, OwnStep, Zenon

\* A step of a pin call that leaves the maps and their pins alone.
LEMMA QuietGoes ==
  ASSUME ObjectAssumption, ObjInv, NEW a \in Objects, pc[a] \in Later, Goes(a), progfd' = progfd, map' = map,
         UNCHANGED <<pins, maker, stale>>
  PROVE  ObjInv'
<1>1. FlagTrue(a) /\ HasPath(a) /\ map' \in [Objects -> [Maps -> MapRec]]
  BY Zenon DEF ObjInv, ObjectOK, ObjTypes
<1>2. FlagTrue(a)' /\ HasPath(a)' /\ SharedStep(a)
  BY <1>1, Zenon DEF FlagTrue, HasPath, SharedStep
<1> QED
  BY <1>1, <1>2, LaterGoes, Zenon

\* A step of a pin call that removes the pin of a map.
LEMMA UnlinkGoes ==
  ASSUME ObjectAssumption, ObjInv, NEW a \in Objects, pc[a] \in Later, Goes(a), progfd' = progfd,
         NEW d \in Dirs, NEW m \in Maps, Unlink(a, m, d), map' = [map EXCEPT ![a][m].pinned = FALSE]
  PROVE  ObjInv'
<1>1. ObjTypes /\ HasPath(a) /\ map[a][m] \in MapRec
  BY ONLY ObjInv, a \in Objects, m \in Maps, Zenon DEF ObjInv, ObjectOK, ObjTypes
<1>2. PICK r : r = [map[a][m] EXCEPT !.pinned = FALSE]
  BY Zenon
<1>3. r \in MapRec /\ ~r.pinned /\ r.fd = map[a][m].fd
  BY ONLY <1>1, <1>2, Zenon DEF MapRec
<1>4. map' = [map EXCEPT ![a][m] = r]
  BY <1>2, Zenon
<1>5. /\ map' \in [Objects -> [Maps -> MapRec]] /\ map'[a][m] = r
      /\ \A n \in Maps : n # m => map'[a][n] = map[a][n]
      /\ \A o \in Objects : o # a => map'[o] = map[o]
  BY ONLY a \in Objects, m \in Maps, <1>1, <1>3, <1>4, MapSet, Zenon
<1>6. ~map'[a][m].pinned /\ \A n \in Maps : map'[a][n].fd = map[a][n].fd
  BY ONLY <1>3, <1>5, Zenon
<1>7. FlagTrue(a)'
  BY ONLY ObjInv, a \in Objects, d \in Dirs, m \in Maps, Unlink(a, m, d), <1>5, <1>6, FlagsUnlinked, Zenon
<1>8. HasPath(a)'
  BY ONLY <1>1, <1>5, <1>6, Zenon DEF HasPath
<1>9. SharedStep(a)
  BY ONLY d \in Dirs, m \in Maps, Unlink(a, m, d), Zenon DEF SharedStep
<1> QED
  BY ONLY ObjectAssumption, ObjInv, a \in Objects, pc[a] \in Later, Goes(a), progfd' = progfd,
          <1>5, <1>6, <1>7, <1>8, <1>9, LaterGoes, Zenon

\* A step of a pin call that pins a map, or fails to and leaves it a path.
LEMMA PinGoes ==
  ASSUME ObjectAssumption, ObjInv, NEW a \in Objects, pc[a] \in Later, Goes(a), progfd' = progfd,
         NEW d \in Dirs, NEW m \in Maps, NEW r \in MapRec, r.path = d, r.fd = map[a][m].fd,
         map' = [map EXCEPT ![a][m] = r],
         PinsAt(a, d, m) \/ (~r.pinned /\ UNCHANGED <<pins, maker, stale>>)
  PROVE  ObjInv'
<1>1. ObjTypes /\ HasPath(a)
  BY ONLY ObjInv, a \in Objects, Zenon DEF ObjInv, ObjectOK
<1>2. /\ map' \in [Objects -> [Maps -> MapRec]] /\ map'[a][m] = r
      /\ \A n \in Maps : n # m => map'[a][n] = map[a][n]
      /\ \A o \in Objects : o # a => map'[o] = map[o]
  BY ONLY a \in Objects, m \in Maps, r \in MapRec, map' = [map EXCEPT ![a][m] = r], <1>1, MapSet, Zenon
<1>3. map'[a][m].path = d /\ \A n \in Maps : map'[a][n].fd = map[a][n].fd
  BY ONLY r.path = d, r.fd = map[a][m].fd, <1>2, Zenon
<1>4. FlagTrue(a)' /\ SharedStep(a)
  <2>1. CASE PinsAt(a, d, m)
    <3>1. FlagTrue(a)'
      BY ONLY ObjInv, a \in Objects, d \in Dirs, m \in Maps, <1>2, <1>3, <2>1, FlagsPinned, Zenon
    <3> QED
      BY ONLY d \in Dirs, m \in Maps, <2>1, <3>1, Zenon DEF SharedStep
  <2>2. CASE ~r.pinned /\ UNCHANGED <<pins, maker, stale>>
    <3>1. \A n \in Maps : map'[a][n].pinned /\ map'[a][n].fd # none => map'[a][n] = map[a][n]
      BY ONLY <1>2, <2>2, Zenon
    <3>2. FlagTrue(a)'
      BY ONLY ObjInv, a \in Objects, <2>2, <3>1, FlagsStay, Zenon
    <3> QED
      BY ONLY <2>2, <3>2, Zenon DEF SharedStep
  <2> QED
    BY <2>1, <2>2, Zenon
<1>5. HasPath(a)'
  BY ONLY d \in Dirs, <1>1, <1>2, <1>3, Zenon DEF HasPath
<1> QED
  BY ONLY ObjectAssumption, ObjInv, a \in Objects, pc[a] \in Later, Goes(a), progfd' = progfd,
          <1>2, <1>3, <1>4, <1>5, LaterGoes, Zenon

\* A pin call begins.
LEMMA PinCallStep ==
  ASSUME ObjectAssumption, ObjInv, NEW a \in Objects, PinCall(a)
  PROVE  ObjInv'
<1>1. PICK l \in {"pin_maps", "unpin_maps", "pin_progs", "unpin_progs"}, d \in Dirs \cup {none}, w \in BOOLEAN :
        Call(a, l, d, w)
  BY Zenon DEF PinCall
<1>2. /\ pc[a] = "loaded" /\ Goto(a, l, 1) /\ arg' = [arg EXCEPT ![a] = d]
      /\ map' = map /\ progfd' = progfd /\ UNCHANGED <<pins, maker, stale>>
  BY <1>1, Zenon DEF Call, At, shared
<1>3. 1 \in Maps /\ 1 \in Nat /\ l \in Later /\ pc[a] \in Later
  BY <1>2 DEF Maps, ObjectAssumption, Later
<1>4. arg' \in [Objects -> Dirs \cup {none}]
  BY <1>2, Zenon DEF ObjInv, ObjTypes
<1>5. Goes(a)
  BY ONLY <1>2, <1>3, <1>4, Zenon DEF Goes
<1> QED
  BY <1>2, <1>3, <1>5, QuietGoes, Zenon

\* The steps of the calls on programs.
LEMMA ProgStep ==
  ASSUME ObjectAssumption, ObjInv, NEW a \in Objects,
         bpf_program__pin(a) \/ ProgsBack(a) \/ bpf_program__unpin(a)
  PROVE  ObjInv'
<1>1. /\ ObjTypes /\ pc[a] \in {"pin_progs", "progs_back", "unpin_progs"}
      /\ map' = map /\ progfd' = progfd /\ UNCHANGED <<pins, maker, stale>>
  BY Zenon DEF ObjInv, bpf_program__pin, ProgsBack, bpf_program__unpin, At
<1>2. \/ Return(a) \/ Step(a, "pin_progs", i[a] + 1) \/ Step(a, "progs_back", i[a])
      \/ i[a] # 0 /\ Step(a, "progs_back", i[a] - 1)
      \/ Step(a, "unpin_maps", 1) \/ Step(a, "unpin_progs", i[a] + 1)
  BY <1>1 DEF bpf_program__pin, ProgsBack, bpf_program__unpin, ObjTypes
<1>3. i[a] \in Nat /\ i[a] + 1 \in Nat /\ (i[a] # 0 => i[a] - 1 \in Nat) /\ 1 \in Nat /\ 1 \in Maps
  BY <1>1 DEF ObjTypes, Maps, ObjectAssumption
<1>4. /\ "pin_progs" \in Later /\ "progs_back" \in Later /\ "unpin_maps" \in Later /\ "unpin_progs" \in Later
      /\ pc[a] \in Later
      /\ "pin_progs" \notin {"pin_maps", "pin_back", "unpin_maps"}
      /\ "progs_back" \notin {"pin_maps", "pin_back", "unpin_maps"}
      /\ "unpin_progs" \notin {"pin_maps", "pin_back", "unpin_maps"}
  BY <1>1 DEF Later
<1>5. Goes(a)
  <2>1. CASE Return(a)
    BY ONLY a \in Objects, <1>1, <2>1, ReturnGoes, Zenon
  <2>2. CASE Step(a, "pin_progs", i[a] + 1)
    BY ONLY a \in Objects, <1>1, <1>3, <1>4, <2>2, StepGoes, Zenon
  <2>3. CASE Step(a, "progs_back", i[a])
    BY ONLY a \in Objects, <1>1, <1>3, <1>4, <2>3, StepGoes, Zenon
  <2>4. CASE i[a] # 0 /\ Step(a, "progs_back", i[a] - 1)
    BY ONLY a \in Objects, <1>1, <1>3, <1>4, <2>4, StepGoes, Zenon
  <2>5. CASE Step(a, "unpin_maps", 1)
    BY ONLY a \in Objects, <1>1, <1>3, <1>4, <2>5, StepGoes, Zenon
  <2>6. CASE Step(a, "unpin_progs", i[a] + 1)
    BY ONLY a \in Objects, <1>1, <1>3, <1>4, <2>6, StepGoes, Zenon
  <2> QED
    BY <1>2, <2>1, <2>2, <2>3, <2>4, <2>5, <2>6, Zenon
<1> QED
  BY <1>1, <1>4, <1>5, QuietGoes, Zenon

\* A pin call on maps has reached one of them, which has a descriptor.
LEMMA PinFacts ==
  ASSUME ObjInv, NEW a \in Objects, pc[a] \in {"pin_maps", "pin_back", "unpin_maps"}
  PROVE  /\ ObjTypes /\ pc[a] \in Later /\ i[a] \in Maps /\ arg[a] \in Dirs \cup {none}
         /\ \A m \in Maps : map[a][m] \in MapRec /\ map[a][m].fd # none
<1>1. ObjTypes /\ InArray(a) /\ HasFds(a)
  BY Zenon DEF ObjInv, ObjectOK
<1>2. pc[a] \in Later /\ pc[a] \in MapLoops
  BY DEF Later, MapLoops
<1>3. i[a] \in Maps /\ \A m \in Maps : map[a][m].fd # none
  BY ONLY <1>1, <1>2, Zenon DEF InArray, HasFds
<1>4. arg[a] \in Dirs \cup {none} /\ \A m \in Maps : map[a][m] \in MapRec
  BY ONLY a \in Objects, <1>1, Zenon DEF ObjTypes
<1> QED
  BY ONLY <1>1, <1>2, <1>3, <1>4, Zenon

\* bpf_object__pin_maps goes on to the next map, the programs, or returns.
LEMMA PinNextGoes ==
  ASSUME ObjectAssumption, ObjTypes, NEW a \in Objects, i[a] \in Maps, PinNext(a)
  PROVE  Goes(a)
<1>1. /\ "pin_progs" \in Later /\ "pin_maps" \in Later /\ "pin_progs" \notin {"pin_maps", "pin_back", "unpin_maps"}
      /\ 1 \in Nat
  BY DEF Later
<1>2. i[a] # NumMaps => i[a] + 1 \in Maps /\ i[a] + 1 \in Nat
  BY DEF Maps, ObjectAssumption
<1>3. CASE Return(a)
  BY <1>3, ReturnGoes, Zenon
<1>4. CASE Step(a, "pin_progs", 1)
  BY <1>1, <1>4, StepGoes, Zenon
<1>5. CASE i[a] # NumMaps /\ Step(a, "pin_maps", i[a] + 1)
  BY <1>1, <1>2, <1>5, StepGoes, Zenon
<1> QED
  BY <1>3, <1>4, <1>5, Zenon DEF PinNext, PinnedAll

\* bpf_map__pin sets the flag with the pin, and only then.
LEMMA MapPinStep ==
  ASSUME ObjectAssumption, ObjInv, NEW a \in Objects, bpf_map__pin(a)
  PROVE  ObjInv'
<1>1. pc[a] = "pin_maps" /\ progfd' = progfd /\ stale' = stale
  BY Zenon DEF bpf_map__pin, At
<1>2. /\ ObjTypes /\ pc[a] \in Later /\ i[a] \in Maps /\ arg[a] \in Dirs \cup {none}
      /\ \A m \in Maps : map[a][m] \in MapRec /\ map[a][m].fd # none
  BY <1>1, PinFacts, Zenon
<1>3. PICK m \in Maps : m = i[a]
  BY <1>2, Zenon
<1>4. PICK d : d = IF map[a][m].path # none THEN map[a][m].path ELSE arg[a]
  BY Zenon
<1>5. \/ (PinNext(a) \/ Step(a, "pin_back", m)) /\ UNCHANGED <<map, pins, maker>>
      \/ /\ d # none /\ ~map[a][m].pinned
         /\ \/ /\ pins[d][m] = none
               /\ pins' = [pins EXCEPT ![d][m] = map[a][m].fd] /\ maker' = [maker EXCEPT ![d][m] = a]
               /\ map' = [map EXCEPT ![a][m].path = d, ![a][m].pinned = TRUE]
               /\ PinNext(a)
            \/ /\ map' = [map EXCEPT ![a][m].path = d]
               /\ Step(a, "pin_back", m) /\ UNCHANGED <<pins, maker>>
  BY ONLY bpf_map__pin(a), <1>3, <1>4, Zenon DEF bpf_map__pin
<1>6. (PinNext(a) \/ Step(a, "pin_back", m)) => Goes(a)
  <2>1. "pin_back" \in Later /\ m \in Nat
    BY DEF Later, Maps
  <2> QED
    BY ONLY ObjectAssumption, a \in Objects, m \in Maps, <1>2, <2>1, PinNextGoes, StepGoes, Zenon
<1>7. CASE (PinNext(a) \/ Step(a, "pin_back", m)) /\ UNCHANGED <<map, pins, maker>>
  BY ONLY ObjectAssumption, ObjInv, a \in Objects, <1>1, <1>2, <1>6, <1>7, QuietGoes, Zenon
<1>8. ASSUME d # none PROVE d \in Dirs
  <2>1. map[a][m].path \in Dirs \cup {none}
    BY ONLY m \in Maps, <1>2, Zenon DEF MapRec
  <2> QED
    BY ONLY <1>2, <1>4, <1>8, <2>1, Zenon
<1>9. CASE /\ d # none /\ pins[d][m] = none
           /\ pins' = [pins EXCEPT ![d][m] = map[a][m].fd] /\ maker' = [maker EXCEPT ![d][m] = a]
           /\ map' = [map EXCEPT ![a][m].path = d, ![a][m].pinned = TRUE]
           /\ PinNext(a)
  <2>1. PICK r : r = [map[a][m] EXCEPT !.path = d, !.pinned = TRUE]
    BY Zenon
  <2>2. map[a][m] \in MapRec /\ d \in Dirs
    BY ONLY m \in Maps, <1>2, <1>8, <1>9, Zenon
  <2>3. r \in MapRec /\ r.path = d /\ r.fd = map[a][m].fd
    BY ONLY <2>1, <2>2, Zenon DEF MapRec
  <2>4. map' = [map EXCEPT ![a][m] = r]
    <3>1. map \in [Objects -> [Maps -> MapRec]] /\ map' = [map EXCEPT ![a][m].path = d, ![a][m].pinned = TRUE]
      BY ONLY <1>2, <1>9, Zenon DEF ObjTypes
    <3> QED
      BY ONLY a \in Objects, m \in Maps, <2>1, <3>1, Zenon
  <2>5. PinsAt(a, d, m)
    BY ONLY m \in Maps, <1>1, <1>2, <1>9, Zenon DEF PinsAt
  <2>6. pc[a] \in Later /\ Goes(a) /\ progfd' = progfd
    BY ONLY <1>1, <1>2, <1>6, <1>9, Zenon
  <2> QED
    BY ONLY ObjectAssumption, ObjInv, a \in Objects, m \in Maps, <2>2, <2>3, <2>4, <2>5, <2>6, PinGoes, Zenon
<1>10. CASE /\ d # none /\ ~map[a][m].pinned /\ map' = [map EXCEPT ![a][m].path = d]
            /\ Step(a, "pin_back", m) /\ UNCHANGED <<pins, maker>>
  <2>1. PICK r : r = [map[a][m] EXCEPT !.path = d]
    BY Zenon
  <2>2. map[a][m] \in MapRec /\ d \in Dirs
    BY ONLY m \in Maps, <1>2, <1>8, <1>10, Zenon
  <2>3. r \in MapRec /\ r.path = d /\ r.fd = map[a][m].fd /\ r.pinned = map[a][m].pinned
    BY ONLY <2>1, <2>2, Zenon DEF MapRec
  <2>4. map' = [map EXCEPT ![a][m] = r]
    BY ONLY <1>10, <2>1, Zenon
  <2>5. ~r.pinned /\ UNCHANGED <<pins, maker, stale>>
    BY ONLY <1>1, <1>10, <2>3, Zenon
  <2>6. pc[a] \in Later /\ Goes(a) /\ progfd' = progfd
    BY ONLY <1>1, <1>2, <1>6, <1>10, Zenon
  <2> QED
    BY ONLY ObjectAssumption, ObjInv, a \in Objects, m \in Maps, <2>2, <2>3, <2>4, <2>5, <2>6, PinGoes, Zenon
<1> QED
  BY ONLY <1>5, <1>7, <1>9, <1>10, Zenon

\* The roll-back of bpf_object__pin_maps clears the flag with the pin.
LEMMA PinBackStep ==
  ASSUME ObjectAssumption, ObjInv, NEW a \in Objects, PinBack(a)
  PROVE  ObjInv'
<1>1. pc[a] = "pin_back" /\ progfd' = progfd
  BY Zenon DEF PinBack, At
<1>2. /\ ObjTypes /\ pc[a] \in Later /\ i[a] \in Maps
      /\ \A m \in Maps : map[a][m] \in MapRec
  BY <1>1, PinFacts, Zenon
<1>3. PICK m : m = i[a] - 1
  BY Zenon
<1>4. m \in Nat /\ (m > 0 => m \in Maps) /\ "pin_back" \in Later
  BY ONLY <1>2, <1>3, ObjectAssumption, SMTT(30) DEF Maps, ObjectAssumption, Later
<1>5. \/ Return(a) /\ map' = map /\ UNCHANGED <<pins, maker, stale>>
      \/ m > 0 /\ Step(a, "pin_back", m) /\ map' = map /\ UNCHANGED <<pins, maker, stale>>
      \/ /\ m > 0 /\ map[a][m].path # none /\ Unlink(a, m, map[a][m].path)
         /\ map' = [map EXCEPT ![a][m].pinned = FALSE] /\ Step(a, "pin_back", m)
  <2>1. m > 0 => m # 0
    BY ONLY <1>4
  <2> QED
    BY ONLY PinBack(a), <1>3, <2>1 DEF PinBack
<1>6. (Return(a) \/ (m > 0 /\ Step(a, "pin_back", m))) => Goes(a)
  BY ONLY a \in Objects, <1>2, <1>4, ReturnGoes, StepGoes, Zenon
<1>7. CASE /\ Return(a) \/ (m > 0 /\ Step(a, "pin_back", m))
           /\ map' = map /\ UNCHANGED <<pins, maker, stale>>
  BY ONLY ObjectAssumption, ObjInv, a \in Objects, <1>1, <1>2, <1>6, <1>7, QuietGoes, Zenon
<1>8. CASE /\ m > 0 /\ map[a][m].path # none /\ Unlink(a, m, map[a][m].path)
           /\ map' = [map EXCEPT ![a][m].pinned = FALSE] /\ Step(a, "pin_back", m)
  <2>1. m \in Maps /\ map[a][m] \in MapRec
    BY ONLY <1>2, <1>4, <1>8, Zenon
  <2>2. map[a][m].path \in Dirs
    BY ONLY <1>8, <2>1, Zenon DEF MapRec
  <2>3. PICK d \in Dirs : d = map[a][m].path
    BY ONLY <2>2, Zenon
  <2>4. Unlink(a, m, d) /\ map' = [map EXCEPT ![a][m].pinned = FALSE]
    BY ONLY <1>8, <2>3, Zenon
  <2>5. pc[a] \in Later /\ Goes(a) /\ progfd' = progfd
    BY ONLY <1>1, <1>2, <1>6, <1>8, Zenon
  <2> QED
    BY ONLY ObjectAssumption, ObjInv, a \in Objects, d \in Dirs, <2>1, <2>4, <2>5, UnlinkGoes, Zenon
<1> QED
  BY ONLY <1>5, <1>7, <1>8, Zenon

\* bpf_map__unpin clears the flag with the pin.
LEMMA MapUnpinStep ==
  ASSUME ObjectAssumption, ObjInv, NEW a \in Objects, bpf_map__unpin(a)
  PROVE  ObjInv'
<1>1. pc[a] = "unpin_maps" /\ progfd' = progfd
  BY Zenon DEF bpf_map__unpin, At
<1>2. /\ ObjTypes /\ pc[a] \in Later /\ i[a] \in Maps /\ arg[a] \in Dirs \cup {none}
      /\ \A m \in Maps : map[a][m] \in MapRec
  BY ONLY ObjInv, a \in Objects, <1>1, PinFacts, Zenon
<1>3. PICK m \in Maps : m = i[a]
  BY ONLY <1>2, Zenon
<1>4. PICK d : d = IF map[a][m].path # none THEN map[a][m].path ELSE arg[a]
  BY Zenon
<1>5. /\ Return(a) \/ (m # NumMaps /\ Step(a, "unpin_maps", m + 1))
      /\ \/ map' = map /\ UNCHANGED <<pins, maker, stale>>
         \/ d # none /\ Unlink(a, m, d) /\ map' = [map EXCEPT ![a][m].pinned = FALSE]
  BY ONLY bpf_map__unpin(a), <1>3, <1>4, Zenon DEF bpf_map__unpin
<1>6. Goes(a)
  <2>1. "unpin_maps" \in Later /\ (m # NumMaps => m + 1 \in Nat /\ m + 1 \in Maps)
    BY ONLY m \in Maps, ObjectAssumption DEF Later, Maps, ObjectAssumption
  <2> QED
    BY ONLY a \in Objects, <1>2, <1>5, <2>1, ReturnGoes, StepGoes, Zenon
<1>7. CASE map' = map /\ UNCHANGED <<pins, maker, stale>>
  BY ONLY ObjectAssumption, ObjInv, a \in Objects, <1>1, <1>2, <1>6, <1>7, QuietGoes, Zenon
<1>8. CASE d # none /\ Unlink(a, m, d) /\ map' = [map EXCEPT ![a][m].pinned = FALSE]
  <2>1. map[a][m].path \in Dirs \cup {none}
    BY ONLY m \in Maps, <1>2, Zenon DEF MapRec
  <2>2. d \in Dirs
    BY ONLY <1>2, <1>4, <1>8, <2>1, Zenon
  <2> QED
    BY ONLY ObjectAssumption, ObjInv, a \in Objects, m \in Maps, <1>1, <1>2, <1>6, <1>8, <2>2, UnlinkGoes, Zenon
<1> QED
  BY ONLY <1>5, <1>7, <1>8, Zenon

-----------------------------------------------------------------------------

\* The invariant holds before the first object is opened.
LEMMA ObjInvInit == ASSUME ObjectAssumption, ObjInit PROVE ObjInv
<1>1. 1 \in Maps /\ Closed \in MapRec /\ "closed" \in ObjPcs /\ ~Closed.pinned /\ Closed.fd = none
  BY DEF Maps, ObjectAssumption, Closed, MapRec, Fds, ObjPcs
<1>2. /\ pc = [o \in Objects |-> "closed"] /\ i = [o \in Objects |-> 1] /\ arg = [o \in Objects |-> none]
      /\ map = [o \in Objects |-> [m \in Maps |-> Closed]]
      /\ progfd = [o \in Objects |-> [k \in Progs |-> FALSE]]
      /\ pins = [d \in Dirs |-> [m \in Maps |-> none]] /\ maker = [d \in Dirs |-> [m \in Maps |-> none]]
  BY Zenon DEF ObjInit
<1>3. ObjTypes
  <2>1. none \in Fds /\ 1 \in Nat
    BY DEF Fds
  <2> QED
    BY ONLY <1>1, <1>2, <2>1 DEF ObjTypes
<1>4. \A d \in Dirs, m \in Maps : pins[d][m] = none /\ maker[d][m] = none
  BY ONLY <1>2, Zenon
<1>5. ASSUME NEW o \in Objects PROVE ObjectOK(o)
  <2>1. /\ pc[o] = "closed" /\ none # o
        /\ \A m \in Maps : map[o][m].fd = none /\ ~map[o][m].pinned
        /\ \A k \in Progs : ~progfd[o][k]
    BY ONLY ObjectAssumption, o \in Objects, <1>1, <1>2, Zenon DEF ObjectAssumption
  <2>2. InArray(o) /\ Ahead(o) /\ HasFds(o) /\ Empty(o)
    BY ONLY <2>1 DEF InArray, Ahead, HasFds, Empty, MapLoops, Later
  <2>3. OwnPins(o) /\ StillOwn(o)
    BY ONLY <1>4, <2>1 DEF OwnPins, StillOwn, Loading
  <2>4. FlagTrue(o) /\ HasPath(o)
    BY ONLY <2>1, Zenon DEF FlagTrue, HasPath
  <2> QED
    BY ONLY <2>2, <2>3, <2>4, Zenon DEF ObjectOK
<1> QED
  BY ONLY <1>3, <1>4, <1>5, Zenon DEF ObjInv

\* Every step of every object's process keeps it.
LEMMA ObjInvStep == ASSUME ObjectAssumption, ObjInv, [ObjNext]_objVars PROVE ObjInv'
<1>1. ASSUME NEW a \in Objects, Steps(a) PROVE ObjInv'
  <2>1. CASE Open(a)
    BY ONLY ObjectAssumption, ObjInv, a \in Objects, <2>1, OpenStep, Zenon
  <2>2. CASE Load(a)
    BY ONLY ObjectAssumption, ObjInv, a \in Objects, <2>2, LoadStep, Zenon
  <2>3. CASE bpf_object__close(a)
    BY ONLY ObjectAssumption, ObjInv, a \in Objects, <2>3, CloseStep, Zenon
  <2>4. CASE \E m \in Maps, d \in Dirs : bpf_map__reuse_fd(a, m, d)
    BY ONLY ObjectAssumption, ObjInv, a \in Objects, <2>4, ReuseFdStep, Zenon
  <2>5. CASE \E m \in Maps, d \in {"root", none} : bpf_map__set_pin_path(a, m, d)
    <3>1. PICK m \in Maps, d \in {"root", none} : bpf_map__set_pin_path(a, m, d)
      BY <2>5, Zenon
    <3> QED
      BY ONLY ObjectAssumption, ObjInv, a \in Objects, m \in Maps, d \in {"root", none}, <3>1, SetPinPathStep, Zenon
  <2>6. CASE bpf_object__reuse_map(a)
    BY ONLY ObjectAssumption, ObjInv, a \in Objects, <2>6, ReuseMapStep, Zenon
  <2>7. CASE CreateMap(a)
    BY ONLY ObjectAssumption, ObjInv, a \in Objects, <2>7, CreateMapStep, Zenon
  <2>8. CASE AutoPin(a)
    BY ONLY ObjectAssumption, ObjInv, a \in Objects, <2>8, AutoPinStep, Zenon
  <2>9. CASE LoadProg(a)
    BY ONLY ObjectAssumption, ObjInv, a \in Objects, <2>9, LoadProgStep, Zenon
  <2>10. CASE UndoPin(a)
    BY ONLY ObjectAssumption, ObjInv, a \in Objects, <2>10, UndoPinStep, Zenon
  <2>11. CASE PinCall(a)
    BY ONLY ObjectAssumption, ObjInv, a \in Objects, <2>11, PinCallStep, Zenon
  <2>12. CASE bpf_map__pin(a)
    BY ONLY ObjectAssumption, ObjInv, a \in Objects, <2>12, MapPinStep, Zenon
  <2>13. CASE PinBack(a)
    BY ONLY ObjectAssumption, ObjInv, a \in Objects, <2>13, PinBackStep, Zenon
  <2>14. CASE bpf_map__unpin(a)
    BY ONLY ObjectAssumption, ObjInv, a \in Objects, <2>14, MapUnpinStep, Zenon
  <2>15. CASE bpf_program__pin(a) \/ ProgsBack(a) \/ bpf_program__unpin(a)
    BY ONLY ObjectAssumption, ObjInv, a \in Objects, <2>15, ProgStep, Zenon
  <2> QED
    BY <1>1, <2>1, <2>2, <2>3, <2>4, <2>5, <2>6, <2>7, <2>8, <2>9, <2>10, <2>11, <2>12, <2>13, <2>14, <2>15, Zenon
       DEF Steps
<1>2. CASE UNCHANGED objVars
  <2>1. /\ pc' = pc /\ i' = i /\ arg' = arg /\ map' = map /\ progfd' = progfd
        /\ pins' = pins /\ maker' = maker /\ stale' = stale
    BY <1>2, Zenon DEF objVars, call, shared
  <2>2. ObjTypes'
    BY ONLY ObjInv, <2>1, Zenon DEF ObjInv, ObjTypes
  <2>3. ASSUME NEW o \in Objects PROVE ObjectOK(o)'
    <3>1. ObjectOK(o)
      BY ONLY ObjInv, o \in Objects, Zenon DEF ObjInv
    <3>2. InArray(o)' /\ Ahead(o)' /\ HasFds(o)' /\ Empty(o)'
      BY ONLY <2>1, <3>1, SMTT(30) DEF ObjectOK, InArray, Ahead, HasFds, Empty
    <3>3. OwnPins(o)' /\ StillOwn(o)' /\ FlagTrue(o)' /\ HasPath(o)'
      BY ONLY <2>1, <3>1 DEF ObjectOK, OwnPins, StillOwn, FlagTrue, HasPath
    <3> QED
      BY ONLY <3>2, <3>3, Zenon DEF ObjectOK
  <2> QED
    BY ONLY ObjInv, <2>1, <2>2, <2>3, Zenon DEF ObjInv
<1> QED
  BY <1>1, <1>2, Zenon DEF ObjNext

\* A process moves itself only.
LEMMA MovesItself ==
  ASSUME ObjTypes, NEW a \in Objects, Steps(a), NEW o \in Objects, o # a
  PROVE  pc'[o] = pc[o] /\ i'[o] = i[o]
<1>1. ASSUME NEW l, NEW n, Goto(a, l, n) PROVE pc'[o] = pc[o] /\ i'[o] = i[o]
  BY ONLY ObjTypes, a \in Objects, o \in Objects, o # a, <1>1, Went, Zenon
<1>2. (\E l, n : Goto(a, l, n)) \/ UNCHANGED <<pc, i>>
  <2>1. CASE Open(a) \/ Load(a) \/ bpf_object__close(a)
    BY ONLY <2>1, Zenon DEF Open, Load, bpf_object__close
  <2>2. CASE \/ \E m \in Maps, d \in Dirs : bpf_map__reuse_fd(a, m, d)
             \/ \E m \in Maps, d \in {"root", none} : bpf_map__set_pin_path(a, m, d)
    BY ONLY <2>2, Zenon DEF bpf_map__reuse_fd, bpf_map__set_pin_path
  <2>3. CASE bpf_object__reuse_map(a) \/ CreateMap(a) \/ AutoPin(a)
    BY ONLY <2>3, Zenon DEF bpf_object__reuse_map, CreateMap, AutoPin, NextMap
  <2>4. CASE LoadProg(a) \/ UndoPin(a)
    BY ONLY <2>4, Zenon DEF LoadProg, UndoPin, UndoEnds
  <2>5. CASE PinCall(a)
    BY ONLY <2>5, Zenon DEF PinCall, Call
  <2>6. CASE bpf_map__pin(a)
    BY ONLY <2>6, Zenon DEF bpf_map__pin, PinNext, PinnedAll, Step, Return
  <2>7. CASE PinBack(a) \/ bpf_map__unpin(a)
    BY ONLY <2>7, Zenon DEF PinBack, bpf_map__unpin, Step, Return
  <2>8. CASE bpf_program__pin(a) \/ ProgsBack(a) \/ bpf_program__unpin(a)
    BY ONLY <2>8, Zenon DEF bpf_program__pin, ProgsBack, bpf_program__unpin, Step, Return
  <2> QED
    BY ONLY Steps(a), <2>1, <2>2, <2>3, <2>4, <2>5, <2>6, <2>7, <2>8, Zenon DEF Steps
<1> QED
  BY ONLY <1>1, <1>2, Zenon

-----------------------------------------------------------------------------
(* Whose maps the descriptors lead to.  A map of an object is in nobody's  *)
(* hands before the load of the object has made it, so a pin the load      *)
(* finds at that map's name is of another object's map.                    *)

\* The load of the object has come past the creation of its map.
Made(o, m) ==
  /\ pc[o] \notin {"closed", "open"}
  /\ pc[o] \in {"map", "create"} => m < i[o]
  /\ pc[o] = "autopin" => m <= i[o]

Origin(m) == {none} \cup {<<o, m>> : o \in {q \in Objects : Made(q, m)}}

OriginInv ==
  /\ \A d \in Dirs, m \in Maps : pins[d][m] \in Origin(m)
  /\ \A o \in Objects, m \in Maps : map[o][m].fd \in Origin(m)
  /\ \A o \in Objects : \A f \in leaked[o] : f[1] # o
  /\ DOMAIN leaked = Objects

\* Where a step of an object takes descriptors and pins from.
FdFlow(a) ==
  \A o \in Objects, n \in Maps :
    \/ map'[o][n].fd \in {none, map[o][n].fd}
    \/ \E d \in Dirs : map'[o][n].fd = pins[d][n]
    \/ o = a /\ map'[o][n].fd = <<a, n>> /\ Made(a, n)'
PinFlow(a) ==
  \A d \in Dirs, n \in Maps : pins'[d][n] \in {none, pins[d][n], map[a][n].fd}
LeakFlow(a) ==
  \/ leaked' = leaked
  \/ \E d \in Dirs, m \in Maps :
       ~Made(a, m) /\ pins[d][m] # none /\ leaked' = [leaked EXCEPT ![a] = @ \cup {pins[d][m]}]

\* A step with such a flow keeps the invariant, as no map is unmade.
LEMMA FlowsKeep ==
  ASSUME OriginInv, NEW a \in Objects, FdFlow(a), PinFlow(a), LeakFlow(a),
         \A o \in Objects, n \in Maps : Made(o, n) => Made(o, n)'
  PROVE  OriginInv'
<1>1. ASSUME NEW n \in Maps PROVE Origin(n) \subseteq Origin(n)' /\ none \in Origin(n)'
  BY Zenon DEF Origin
<1>2. ASSUME NEW d \in Dirs, NEW n \in Maps PROVE pins'[d][n] \in Origin(n)'
  <2>1. pins[d][n] \in Origin(n) /\ map[a][n].fd \in Origin(n)
    BY Zenon DEF OriginInv
  <2>2. pins'[d][n] \in {none, pins[d][n], map[a][n].fd}
    BY Zenon DEF PinFlow
  <2> QED
    BY <1>1, <2>1, <2>2, Zenon
<1>3. ASSUME NEW o \in Objects, NEW n \in Maps PROVE map'[o][n].fd \in Origin(n)'
  <2>1. map[o][n].fd \in Origin(n) /\ \A d \in Dirs : pins[d][n] \in Origin(n)
    BY Zenon DEF OriginInv
  <2>2. CASE map'[o][n].fd \in {none, map[o][n].fd} \/ \E d \in Dirs : map'[o][n].fd = pins[d][n]
    BY <1>1, <2>1, <2>2, Zenon
  <2>3. CASE o = a /\ map'[o][n].fd = <<a, n>> /\ Made(a, n)'
    BY <2>3, Zenon DEF Origin
  <2> QED
    BY <2>2, <2>3, Zenon DEF FdFlow
<1>4. ASSUME NEW d \in Dirs, NEW m \in Maps, ~Made(a, m), pins[d][m] # none PROVE pins[d][m][1] # a
  <2>1. pins[d][m] \in Origin(m)
    BY Zenon DEF OriginInv
  <2>2. PICK q \in Objects : Made(q, m) /\ pins[d][m] = <<q, m>>
    BY <1>4, <2>1, Zenon DEF Origin
  <2> QED
    BY <1>4, <2>2
<1>5. (\A o \in Objects : \A f \in leaked'[o] : f[1] # o) /\ DOMAIN leaked' = Objects
  <2>1. (\A o \in Objects : \A f \in leaked[o] : f[1] # o) /\ DOMAIN leaked = Objects
    BY Zenon DEF OriginInv
  <2>2. CASE leaked' = leaked
    BY <2>1, <2>2, Zenon
  <2>3. ASSUME NEW d \in Dirs, NEW m \in Maps, ~Made(a, m), pins[d][m] # none,
               leaked' = [leaked EXCEPT ![a] = @ \cup {pins[d][m]}]
        PROVE  (\A o \in Objects : \A f \in leaked'[o] : f[1] # o) /\ DOMAIN leaked' = Objects
    <3>1. pins[d][m][1] # a
      BY <1>4, <2>3, Zenon
    <3>2. DOMAIN leaked' = Objects /\ leaked'[a] = leaked[a] \cup {pins[d][m]}
          /\ \A o \in Objects : o # a => leaked'[o] = leaked[o]
      BY <2>1, <2>3, Zenon
    <3> QED
      BY ONLY a \in Objects, <2>1, <3>1, <3>2, Zenon
  <2> QED
    BY <2>2, <2>3, Zenon DEF LeakFlow
<1> QED
  BY <1>2, <1>3, <1>5, Zenon DEF OriginInv

\* The process goes to a place of the load's end or after it.
LEMMA MadeAfter ==
  ASSUME ObjTypes, NEW a \in Objects, NEW l, NEW k, Goto(a, l, k),
         l \notin {"closed", "open", "map", "create", "autopin"}
  PROVE  \A n \in Maps : Made(a, n)'
<1>1. pc'[a] = l
  BY Went, Zenon
<1> QED
  BY <1>1, Zenon DEF Made

\* The load comes past map i[a] and has made it.
LEMMA MadeNext ==
  ASSUME ObjTypes, NEW a \in Objects, i[a] \in Maps, NextMap(a)
  PROVE  \A n \in Maps : n <= i[a] => Made(a, n)'
<1>1. CASE Goto(a, "progs", 1)
  BY <1>1, MadeAfter, Zenon
<1>2. CASE Goto(a, "map", i[a] + 1)
  <2>1. pc'[a] = "map" /\ i'[a] = i[a] + 1
    BY <1>2, Went, Zenon
  <2>2. \A n \in Maps : n <= i[a] => n < i[a] + 1
    BY DEF Maps
  <2> QED
    BY <2>1, <2>2, Zenon DEF Made
<1> QED
  BY <1>1, <1>2, Zenon DEF NextMap

\* No step unmakes a map.
LEMMA MadeStays ==
  ASSUME ObjInv, NEW a \in Objects, Steps(a)
  PROVE  \A o \in Objects, n \in Maps : Made(o, n) => Made(o, n)'
<1>1. ObjTypes
  BY Zenon DEF ObjInv
<1>2. ASSUME NEW o \in Objects, o # a, NEW n \in Maps, Made(o, n) PROVE Made(o, n)'
  <2>1. pc'[o] = pc[o] /\ i'[o] = i[o]
    BY <1>1, <1>2, MovesItself, Zenon
  <2> QED
    BY <1>2, <2>1, Zenon DEF Made
<1>3. CASE \/ Open(a) \/ Load(a) \/ \E m \in Maps, d \in Dirs : bpf_map__reuse_fd(a, m, d)
           \/ \E m \in Maps, d \in {"root", none} : bpf_map__set_pin_path(a, m, d)
  <2>1. pc[a] \in {"closed", "open"}
    BY <1>3, Zenon DEF Open, Load, bpf_map__reuse_fd, bpf_map__set_pin_path, At
  <2> QED
    BY <1>2, <2>1, Zenon DEF Made
<1>4. CASE bpf_object__reuse_map(a) \/ CreateMap(a) \/ AutoPin(a)
  <2>1. pc[a] \in {"map", "create", "autopin"}
    BY <1>4, Zenon DEF bpf_object__reuse_map, CreateMap, AutoPin, At
  <2>2. i[a] \in Maps
    BY <2>1, LoadFacts
  <2>3. ASSUME NEW n \in Maps, Made(a, n) PROVE n <= i[a] /\ (pc[a] # "autopin" => n < i[a])
    BY <2>1, <2>2, <2>3 DEF Made, Maps
  <2>4. CASE NextMap(a)
    BY <1>1, <1>2, <2>2, <2>3, <2>4, MadeNext, Zenon
  <2>5. CASE Goto(a, "out", 1)
    BY <1>1, <1>2, <2>5, MadeAfter, Zenon
  <2>6. CASE pc[a] # "autopin" /\ Goto(a, "create", i[a])
    <3>1. pc'[a] = "create" /\ i'[a] = i[a]
      BY <1>1, <2>6, Went, Zenon
    <3> QED
      BY <1>2, <2>3, <2>6, <3>1, Zenon DEF Made
  <2>7. CASE Goto(a, "autopin", i[a])
    <3>1. pc'[a] = "autopin" /\ i'[a] = i[a]
      BY <1>1, <2>7, Went, Zenon
    <3> QED
      BY <1>2, <2>3, <3>1, Zenon DEF Made
  <2>8. CASE bpf_object__reuse_map(a)
    <3>1. pc[a] = "map"
      BY <2>8, Zenon DEF bpf_object__reuse_map, At
    <3>2. NextMap(a) \/ Goto(a, "out", 1) \/ Goto(a, "create", i[a])
      BY <2>8, Zenon DEF bpf_object__reuse_map
    <3> QED
      BY <2>4, <2>5, <2>6, <3>1, <3>2, Zenon
  <2>9. CASE CreateMap(a)
    <3>1. NextMap(a) \/ Goto(a, "out", 1) \/ Goto(a, "autopin", i[a])
      BY <2>9, Zenon DEF CreateMap
    <3> QED
      BY <2>4, <2>5, <2>7, <3>1, Zenon
  <2>10. CASE AutoPin(a)
    <3>1. NextMap(a) \/ Goto(a, "out", 1)
      BY <2>10, Zenon DEF AutoPin
    <3> QED
      BY <2>4, <2>5, <3>1, Zenon
  <2> QED
    BY <1>4, <2>8, <2>9, <2>10, Zenon
<1>5. CASE \/ bpf_object__close(a) \/ LoadProg(a) \/ UndoPin(a) \/ PinCall(a) \/ bpf_map__pin(a)
           \/ PinBack(a) \/ bpf_map__unpin(a) \/ bpf_program__pin(a) \/ ProgsBack(a) \/ bpf_program__unpin(a)
  <2>1. \E k : \E l \in {"done", "loaded", "progs", "out", "failed", "pin_maps", "unpin_maps", "pin_progs",
                         "unpin_progs", "pin_back", "progs_back"} : Goto(a, l, k)
    <3>1. CASE bpf_object__close(a) \/ LoadProg(a) \/ UndoPin(a)
      BY ONLY <3>1, Zenon DEF bpf_object__close, LoadProg, UndoPin, UndoEnds
    <3>2. CASE PinCall(a) \/ PinBack(a) \/ bpf_map__unpin(a)
      BY ONLY <3>2, Zenon DEF PinCall, Call, PinBack, bpf_map__unpin, Step, Return
    <3>3. CASE bpf_map__pin(a)
      BY ONLY <3>3, Zenon DEF bpf_map__pin, PinNext, PinnedAll, Step, Return
    <3>4. CASE bpf_program__pin(a) \/ ProgsBack(a) \/ bpf_program__unpin(a)
      BY ONLY <3>4, Zenon DEF bpf_program__pin, ProgsBack, bpf_program__unpin, Step, Return
    <3> QED
      BY <1>5, <3>1, <3>2, <3>3, <3>4, Zenon
  <2>2. PICK l, k : Goto(a, l, k) /\ l \notin {"closed", "open", "map", "create", "autopin"}
    BY <2>1
  <2> QED
    BY <1>1, <1>2, <2>2, MadeAfter, Zenon
<1> QED
  BY <1>3, <1>4, <1>5, Zenon DEF Steps

\* One struct bpf_map changes; its descriptor comes from where the flow says.
LEMMA OneMapFlow ==
  ASSUME ObjTypes, NEW a \in Objects, NEW m \in Maps, NEW r, map' = [map EXCEPT ![a][m] = r],
         \/ r.fd \in {none, map[a][m].fd}
         \/ \E d \in Dirs : r.fd = pins[d][m]
         \/ r.fd = <<a, m>> /\ Made(a, m)'
  PROVE  FdFlow(a)
<1>1. \A o \in Objects, n \in Maps : map'[o][n] = IF o = a /\ n = m THEN r ELSE map[o][n]
  BY Zenon DEF ObjTypes
<1>2. SUFFICES ASSUME NEW o \in Objects, NEW n \in Maps
               PROVE  \/ map'[o][n].fd \in {none, map[o][n].fd}
                      \/ \E d \in Dirs : map'[o][n].fd = pins[d][n]
                      \/ o = a /\ map'[o][n].fd = <<a, n>> /\ Made(a, n)'
  BY Zenon DEF FdFlow
<1>3. CASE o = a /\ n = m
  <2>1. map'[o][n] = r
    BY ONLY o \in Objects, n \in Maps, <1>1, <1>3, Zenon
  <2> QED
    BY <1>3, <2>1, Zenon
<1>4. CASE ~(o = a /\ n = m)
  <2>1. map'[o][n] = map[o][n]
    BY ONLY o \in Objects, n \in Maps, <1>1, <1>4, Zenon
  <2> QED
    BY ONLY <2>1, Zenon
<1> QED
  BY ONLY <1>3, <1>4, Zenon

\* All of an object's maps keep their descriptors or lose them.
LEMMA MapsFlow ==
  ASSUME ObjTypes, NEW a \in Objects, NEW f, map' = [map EXCEPT ![a] = f],
         \A n \in Maps : f[n].fd \in {none, map[a][n].fd}
  PROVE  FdFlow(a)
<1>1. \A o \in Objects : map'[o] = IF o = a THEN f ELSE map[o]
  BY Zenon DEF ObjTypes
<1> QED
  BY <1>1, Zenon DEF FdFlow

\* A pin is made of the object's map, or one is removed.
LEMMA PinsFlow ==
  ASSUME ObjTypes, NEW a \in Objects, NEW m \in Maps, NEW d \in Dirs,
         pins' = [pins EXCEPT ![d][m] = map[a][m].fd] \/ Unlink(a, m, d)
  PROVE  PinFlow(a)
<1>1. \A e \in Dirs, n \in Maps : pins'[e][n] = pins[e][n] \/ (n = m /\ pins'[e][n] \in {none, map[a][m].fd})
  <2>1. PICK f : f \in {none, map[a][m].fd} /\ pins' = [pins EXCEPT ![d][m] = f]
    BY Zenon DEF Unlink
  <2>2. pins \in [Dirs -> [Maps -> Fds]]
    BY ONLY ObjTypes, Zenon DEF ObjTypes
  <2>3. \A e \in Dirs, n \in Maps : pins'[e][n] = IF e = d /\ n = m THEN f ELSE pins[e][n]
    BY ONLY d \in Dirs, m \in Maps, <2>1, <2>2, Zenon
  <2>4. f \in {none, map[a][m].fd}
    BY ONLY <2>1, Zenon
  <2> QED
    BY ONLY <2>3, <2>4
<1> QED
  BY <1>1, Zenon DEF PinFlow

\* The flows of the steps before the load, of the load and of the close.
LEMMA LoadFlow ==
  ASSUME ObjInv, NEW a \in Objects,
         \/ Open(a) \/ Load(a) \/ bpf_object__close(a)
         \/ \E m \in Maps, d \in Dirs : bpf_map__reuse_fd(a, m, d)
         \/ \E m \in Maps, d \in {"root", none} : bpf_map__set_pin_path(a, m, d)
         \/ bpf_object__reuse_map(a) \/ CreateMap(a) \/ AutoPin(a) \/ LoadProg(a)
  PROVE  FdFlow(a) /\ PinFlow(a) /\ LeakFlow(a)
<1>1. ObjTypes /\ map \in [Objects -> [Maps -> MapRec]] /\ \A m \in Maps : map[a][m] \in MapRec
  BY Zenon DEF ObjInv, ObjTypes
<1>2. ASSUME leaked' = leaked, pins' = pins PROVE PinFlow(a) /\ LeakFlow(a)
  BY <1>2, Zenon DEF PinFlow, LeakFlow
<1>3. ASSUME map' = map PROVE FdFlow(a)
  BY <1>3, Zenon DEF FdFlow
<1>4. CASE Load(a) \/ LoadProg(a)
  <2>1. map' = map /\ leaked' = leaked /\ pins' = pins
    BY <1>4, Zenon DEF Load, LoadProg, shared
  <2> QED
    BY <1>2, <1>3, <2>1, Zenon
<1>5. CASE Open(a) \/ bpf_object__close(a)
  <2>1. leaked' = leaked /\ pins' = pins
    BY <1>5, Zenon DEF Open, bpf_object__close, shared
  <2>2. PICK f : map' = [map EXCEPT ![a] = f] /\ \A n \in Maps : f[n] \in {Fresh(n), Closed}
    <3>1. CASE Open(a)
      <4>1. PICK g : g = [n \in Maps |-> Fresh(n)]
        BY Zenon
      <4>2. map' = [map EXCEPT ![a] = g] /\ \A n \in Maps : g[n] \in {Fresh(n), Closed}
        BY ONLY <3>1, <4>1, Zenon DEF Open
      <4> QED
        BY ONLY <4>2, Zenon
    <3>2. CASE bpf_object__close(a)
      <4>1. PICK g : g = [n \in Maps |-> Closed]
        BY Zenon
      <4>2. map' = [map EXCEPT ![a] = g] /\ \A n \in Maps : g[n] \in {Fresh(n), Closed}
        BY ONLY <3>2, <4>1, Zenon DEF bpf_object__close
      <4> QED
        BY ONLY <4>2, Zenon
    <3> QED
      BY ONLY <1>5, <3>1, <3>2, Zenon
  <2>3. \A n \in Maps : Fresh(n).fd = none /\ Closed.fd = none
    BY DEF Fresh, Closed
  <2>4. \A n \in Maps : f[n].fd \in {none, map[a][n].fd}
    BY <2>2, <2>3, Zenon
  <2> QED
    BY <1>1, <1>2, <2>1, <2>2, <2>4, MapsFlow, Zenon
<1>6. ASSUME NEW m \in Maps, NEW d \in Dirs, bpf_map__reuse_fd(a, m, d)
      PROVE  FdFlow(a) /\ PinFlow(a) /\ LeakFlow(a)
  <2>1. /\ map' = [map EXCEPT ![a][m].fd = pins[d][m], ![a][m].reused = TRUE]
        /\ leaked' = leaked /\ pins' = pins
    BY <1>6, Zenon DEF bpf_map__reuse_fd, shared
  <2>2. PICK r : r = [map[a][m] EXCEPT !.fd = pins[d][m], !.reused = TRUE]
    BY Zenon
  <2>3. r.fd = pins[d][m]
    BY <1>1, <2>2, Zenon DEF MapRec
  <2>4. map' = [map EXCEPT ![a][m] = r]
    BY <1>1, <2>1, <2>2, Zenon
  <2>5. FdFlow(a)
    BY ONLY a \in Objects, m \in Maps, d \in Dirs, <1>1, <2>3, <2>4, OneMapFlow, Zenon
  <2> QED
    BY <1>2, <2>1, <2>5, Zenon
<1>7. ASSUME NEW m \in Maps, NEW d, bpf_map__set_pin_path(a, m, d)
      PROVE  FdFlow(a) /\ PinFlow(a) /\ LeakFlow(a)
  <2>1. map' = [map EXCEPT ![a][m].path = d] /\ leaked' = leaked /\ pins' = pins
    BY <1>7, Zenon DEF bpf_map__set_pin_path, shared
  <2>2. PICK r : r = [map[a][m] EXCEPT !.path = d]
    BY Zenon
  <2>3. r.fd = map[a][m].fd
    BY <1>1, <2>2, Zenon DEF MapRec
  <2>4. map' = [map EXCEPT ![a][m] = r]
    BY <2>1, <2>2, Zenon
  <2>5. FdFlow(a)
    BY ONLY a \in Objects, m \in Maps, <1>1, <2>3, <2>4, OneMapFlow, Zenon
  <2> QED
    BY <1>2, <2>1, <2>5, Zenon
<1>8. CASE bpf_object__reuse_map(a)
  <2>1. pc[a] = "map" /\ pins' = pins
    BY <1>8, Zenon DEF bpf_object__reuse_map, At, shared
  <2>2. i[a] \in Maps
    BY <2>1, LoadFacts
  <2>3. PICK m \in Maps : m = i[a]
    BY <2>2, Zenon
  <2>4. PICK d : d = map[a][m].path
    BY Zenon
  <2>5. /\ d # none
        /\ \/ map' = map /\ leaked' = leaked
           \/ /\ pins[d][m] # none
              /\ map' = [map EXCEPT ![a][m] = [fd |-> pins[d][m], path |-> d, pinned |-> TRUE, reused |-> TRUE,
                                               left |-> FALSE]]
              /\ leaked' = [leaked EXCEPT ![a] = @ \cup {pins[d][m]}]
    BY <1>8, <2>3, <2>4, Zenon DEF bpf_object__reuse_map
  <2>6. d \in Dirs
    BY <1>1, <2>4, <2>5, Zenon DEF MapRec
  <2>7. CASE map' = map /\ leaked' = leaked
    BY <1>2, <1>3, <2>1, <2>7, Zenon
  <2>8. CASE /\ pins[d][m] # none
             /\ map' = [map EXCEPT ![a][m] = [fd |-> pins[d][m], path |-> d, pinned |-> TRUE, reused |-> TRUE,
                                              left |-> FALSE]]
             /\ leaked' = [leaked EXCEPT ![a] = @ \cup {pins[d][m]}]
    <3>1. PICK r : r = [fd |-> pins[d][m], path |-> d, pinned |-> TRUE, reused |-> TRUE, left |-> FALSE]
      BY Zenon
    <3>2. r.fd = pins[d][m] /\ map' = [map EXCEPT ![a][m] = r]
      BY <2>8, <3>1
    <3>3. FdFlow(a)
      BY ONLY a \in Objects, m \in Maps, <1>1, <2>6, <3>2, OneMapFlow, Zenon
    <3>4. ~Made(a, m)
      <4>1. ~(m < i[a])
        BY <2>3 DEF Maps
      <4> QED
        BY <2>1, <4>1, Zenon DEF Made
    <3>5. LeakFlow(a)
      BY <2>6, <2>8, <3>4, Zenon DEF LeakFlow
    <3>6. PinFlow(a)
      BY <2>1, Zenon DEF PinFlow
    <3> QED
      BY <3>3, <3>5, <3>6, Zenon
  <2> QED
    BY <2>5, <2>7, <2>8, Zenon
<1>9. CASE CreateMap(a)
  <2>1. pc[a] \in {"map", "create"} /\ pins' = pins /\ leaked' = leaked
    BY <1>9, Zenon DEF CreateMap, At, shared
  <2>2. i[a] \in Maps
    BY <2>1, LoadFacts
  <2>3. PICK m \in Maps : m = i[a]
    BY <2>2, Zenon
  <2>4. \/ map' = map
        \/ /\ map' = [map EXCEPT ![a][m].fd = <<a, m>>]
           /\ Goto(a, "autopin", m) \/ NextMap(a)
        \/ map' = [map EXCEPT ![a] = [j \in Maps |-> IF j < m THEN [@[j] EXCEPT !.fd = none] ELSE @[j]]]
    BY <1>9, <2>3, Zenon DEF CreateMap
  <2>5. CASE map' = map
    BY <1>2, <1>3, <2>1, <2>5, Zenon
  <2>6. CASE /\ map' = [map EXCEPT ![a][m].fd = <<a, m>>]
             /\ Goto(a, "autopin", m) \/ NextMap(a)
    <3>1. PICK r : r = [map[a][m] EXCEPT !.fd = <<a, m>>]
      BY Zenon
    <3>2. r.fd = <<a, m>>
      BY <1>1, <3>1, Zenon DEF MapRec
    <3>3. map' = [map EXCEPT ![a][m] = r]
      BY <2>6, <3>1, Zenon
    <3>4. m <= i[a]
      BY <2>3 DEF Maps
    <3>5. CASE Goto(a, "autopin", m)
      <4>1. pc'[a] = "autopin" /\ i'[a] = m
        BY <1>1, <3>5, Went, Zenon
      <4>2. Made(a, m)'
        BY <2>3, <3>4, <4>1 DEF Made
      <4> QED
        BY <1>1, <1>2, <2>1, <3>2, <3>3, <4>2, OneMapFlow, Zenon
    <3>6. CASE NextMap(a)
      <4>1. Made(a, m)'
        BY <1>1, <2>2, <3>4, <3>6, MadeNext, Zenon
      <4> QED
        BY <1>1, <1>2, <2>1, <3>2, <3>3, <4>1, OneMapFlow, Zenon
    <3> QED
      BY <2>6, <3>5, <3>6, Zenon
  <2>7. CASE map' = [map EXCEPT ![a] = [j \in Maps |-> IF j < m THEN [@[j] EXCEPT !.fd = none] ELSE @[j]]]
    <3>1. PICK f : f = [j \in Maps |-> IF j < m THEN [map[a][j] EXCEPT !.fd = none] ELSE map[a][j]]
      BY Zenon
    <3>2. map' = [map EXCEPT ![a] = f]
      BY <1>1, <2>7, <3>1, Zenon
    <3>3. ASSUME NEW r \in MapRec PROVE [r EXCEPT !.fd = none].fd = none
      BY <3>3, Zenon DEF MapRec
    <3>4. \A n \in Maps : f[n].fd \in {none, map[a][n].fd}
      BY <1>1, <3>1, <3>3, Zenon
    <3> QED
      BY <1>1, <1>2, <2>1, <3>2, <3>4, MapsFlow, Zenon
  <2> QED
    BY <2>4, <2>5, <2>6, <2>7, Zenon
<1>10. CASE AutoPin(a)
  <2>1. pc[a] = "autopin" /\ leaked' = leaked
    BY <1>10, Zenon DEF AutoPin, At
  <2>2. i[a] \in Maps
    BY <2>1, LoadFacts
  <2>3. PICK m \in Maps : m = i[a]
    BY <2>2, Zenon
  <2>4. map[a][m].path # none
    BY <2>1, <2>3, Zenon DEF ObjInv, ObjectOK, Ahead
  <2>5. PICK d \in Dirs : d = map[a][m].path
    BY <1>1, <2>4, Zenon DEF MapRec
  <2>6. \/ map' = map /\ pins' = pins
        \/ /\ map' = [map EXCEPT ![a][m].pinned = TRUE]
           /\ pins' = [pins EXCEPT ![d][m] = map[a][m].fd]
    BY <1>10, <2>3, <2>5, Zenon DEF AutoPin
  <2>7. CASE map' = map /\ pins' = pins
    BY <1>2, <1>3, <2>1, <2>7, Zenon
  <2>8. CASE /\ map' = [map EXCEPT ![a][m].pinned = TRUE]
             /\ pins' = [pins EXCEPT ![d][m] = map[a][m].fd]
    <3>1. PICK r : r = [map[a][m] EXCEPT !.pinned = TRUE]
      BY Zenon
    <3>2. r.fd = map[a][m].fd
      BY <1>1, <3>1, Zenon DEF MapRec
    <3>3. map' = [map EXCEPT ![a][m] = r]
      BY <2>8, <3>1, Zenon
    <3>4. FdFlow(a)
      BY ONLY a \in Objects, m \in Maps, <1>1, <3>2, <3>3, OneMapFlow, Zenon
    <3>5. PinFlow(a)
      BY <1>1, <2>8, PinsFlow, Zenon
    <3> QED
      BY <2>1, <3>4, <3>5, Zenon DEF LeakFlow
  <2> QED
    BY <2>6, <2>7, <2>8, Zenon
<1> QED
  BY <1>4, <1>5, <1>6, <1>7, <1>8, <1>9, <1>10, Zenon

\* The flows of the clean-up and of the pin calls.
LEMMA CallFlow ==
  ASSUME ObjectAssumption, ObjInv, NEW a \in Objects,
         \/ UndoPin(a) \/ PinCall(a) \/ bpf_map__pin(a) \/ PinBack(a) \/ bpf_map__unpin(a)
         \/ bpf_program__pin(a) \/ ProgsBack(a) \/ bpf_program__unpin(a)
  PROVE  FdFlow(a) /\ PinFlow(a) /\ LeakFlow(a)
<1>1. ObjTypes /\ map \in [Objects -> [Maps -> MapRec]] /\ \A m \in Maps : map[a][m] \in MapRec
  BY Zenon DEF ObjInv, ObjTypes
<1>2. leaked' = leaked /\ LeakFlow(a)
  BY Zenon DEF UndoPin, PinCall, Call, bpf_map__pin, PinBack, bpf_map__unpin, bpf_program__pin, ProgsBack,
     bpf_program__unpin, LeakFlow
<1>3. ASSUME map' = map, pins' = pins PROVE FdFlow(a) /\ PinFlow(a)
  BY <1>3, Zenon DEF FdFlow, PinFlow
<1>4. ASSUME NEW m \in Maps, NEW r, r.fd = map[a][m].fd, map' = [map EXCEPT ![a][m] = r] PROVE FdFlow(a)
  BY ONLY a \in Objects, m \in Maps, <1>1, <1>4, OneMapFlow, Zenon
<1>5. ASSUME NEW m \in Maps, map' = [map EXCEPT ![a][m].pinned = FALSE] PROVE FdFlow(a)
  <2>1. PICK r : r = [map[a][m] EXCEPT !.pinned = FALSE]
    BY Zenon
  <2>2. r.fd = map[a][m].fd /\ map' = [map EXCEPT ![a][m] = r]
    BY <1>1, <1>5, <2>1, Zenon DEF MapRec
  <2> QED
    BY <1>4, <2>2, Zenon
<1>6. CASE PinCall(a) \/ bpf_program__pin(a) \/ ProgsBack(a) \/ bpf_program__unpin(a)
  <2>1. map' = map /\ pins' = pins
    BY <1>6, Zenon DEF PinCall, Call, bpf_program__pin, ProgsBack, bpf_program__unpin, shared
  <2> QED
    BY <1>2, <1>3, <2>1, Zenon
<1>7. CASE UndoPin(a)
  <2>1. pc[a] = "out" /\ InArray(a) /\ HasPath(a)
    BY <1>7, Zenon DEF UndoPin, At, ObjInv, ObjectOK
  <2>2. i[a] \in Maps
    BY ONLY <2>1 DEF InArray, MapLoops
  <2>3. PICK m \in Maps : m = i[a]
    BY <2>2, Zenon
  <2>4. PICK u :
          /\ UndoEnds(a, u)
          /\ \/ /\ map[a][m].pinned /\ Unlink(a, m, map[a][m].path)
                /\ u = [map EXCEPT ![a][m].pinned = FALSE]
             \/ UNCHANGED <<pins, maker, stale>> /\ u = [map EXCEPT ![a][m].left = TRUE]
             \/ /\ UNCHANGED <<pins, maker, stale>> /\ u = map
                /\ ~(map[a][m].pinned /\ ~map[a][m].reused /\ PinAt(map[a][m].path, m) # none)
    BY ONLY <1>7, <2>3, Zenon DEF UndoPin
  <2>5. /\ u \in [Objects -> [Maps -> MapRec]]
        /\ \A o \in Objects : o # a => u[o] = map[o]
        /\ \A n \in Maps : n # m => u[a][n] = map[a][n]
        /\ u[a][m].fd = map[a][m].fd
    <3>1. \/ /\ map[a][m].pinned /\ Unlink(a, m, map[a][m].path)
             /\ u = [map EXCEPT ![a][m].pinned = FALSE]
          \/ UNCHANGED <<pins, maker, stale>> /\ u = [map EXCEPT ![a][m].left = TRUE]
          \/ /\ UNCHANGED <<pins, maker, stale>> /\ u = map
             /\ ~(map[a][m].pinned /\ ~map[a][m].reused /\ PinAt(map[a][m].path, m) # none)
      BY ONLY <2>4, Zenon
    <3>2. pc[a] = "out"
      BY ONLY <2>1, Zenon
    <3> QED
      BY ONLY ObjectAssumption, ObjInv, a \in Objects, m \in Maps, <3>1, <3>2, UndoCases
  <2>6. FdFlow(a)
    <3>1. CASE map' = u
      <4>1. \A o \in Objects, n \in Maps : map'[o][n].fd = map[o][n].fd
        BY ONLY m \in Maps, a \in Objects, <2>5, <3>1, Zenon
      <4> QED
        BY ONLY <4>1, Zenon DEF FdFlow
    <3>2. CASE map' = [u EXCEPT ![a] = [j \in Maps |-> [u[a][j] EXCEPT !.fd = none]]]
      <4>1. ASSUME NEW r \in MapRec PROVE [r EXCEPT !.fd = none].fd = none
        BY <4>1, Zenon DEF MapRec
      <4>2. \A n \in Maps : u[a][n] \in MapRec
        BY ONLY a \in Objects, <2>5, Zenon
      <4>3. /\ \A n \in Maps : map'[a][n] = [u[a][n] EXCEPT !.fd = none]
            /\ \A o \in Objects : o # a => map'[o] = map[o]
        BY ONLY a \in Objects, <2>5, <3>2, Zenon
      <4>4. ASSUME NEW n \in Maps PROVE map'[a][n].fd = none
        <5>1. PICK r \in MapRec : r = u[a][n]
          BY ONLY n \in Maps, <4>2, Zenon
        <5>2. map'[a][n] = [r EXCEPT !.fd = none]
          BY ONLY n \in Maps, <4>3, <5>1, Zenon
        <5> QED
          BY ONLY r \in MapRec, <4>1, <5>2, Zenon
      <4> QED
        BY ONLY <4>3, <4>4, Zenon DEF FdFlow
    <3> QED
      BY ONLY <2>4, <3>1, <3>2, Zenon DEF UndoEnds
  <2>7. PinFlow(a)
    <3>1. CASE pins' = pins
      BY ONLY <3>1, Zenon DEF PinFlow
    <3>2. CASE map[a][m].pinned /\ Unlink(a, m, map[a][m].path)
      <4>1. PICK d \in Dirs : d = map[a][m].path
        BY ONLY m \in Maps, <2>1, <3>2, Zenon DEF HasPath
      <4>2. Unlink(a, m, d)
        BY ONLY <3>2, <4>1, Zenon
      <4> QED
        BY ONLY a \in Objects, m \in Maps, d \in Dirs, <1>1, <4>2, PinsFlow, Zenon
    <3> QED
      BY ONLY <2>4, <3>1, <3>2, Zenon
  <2> QED
    BY <1>2, <2>6, <2>7, Zenon
<1>8. CASE bpf_map__pin(a)
  <2>1. pc[a] = "pin_maps"
    BY <1>8, Zenon DEF bpf_map__pin, At
  <2>2. i[a] \in Maps /\ arg[a] \in Dirs \cup {none}
    BY <2>1, PinFacts, Zenon
  <2>3. PICK m \in Maps : m = i[a]
    BY <2>2, Zenon
  <2>4. PICK d : d = IF map[a][m].path # none THEN map[a][m].path ELSE arg[a]
    BY Zenon
  <2>5. \/ map' = map /\ pins' = pins
        \/ /\ d # none /\ pins' = [pins EXCEPT ![d][m] = map[a][m].fd]
           /\ map' = [map EXCEPT ![a][m].path = d, ![a][m].pinned = TRUE]
        \/ pins' = pins /\ map' = [map EXCEPT ![a][m].path = d]
    BY ONLY <1>8, <2>3, <2>4, Zenon DEF bpf_map__pin
  <2>6. CASE map' = map /\ pins' = pins
    BY <1>2, <1>3, <2>6, Zenon
  <2>7. CASE /\ d # none /\ pins' = [pins EXCEPT ![d][m] = map[a][m].fd]
             /\ map' = [map EXCEPT ![a][m].path = d, ![a][m].pinned = TRUE]
    <3>1. d \in Dirs
      BY <1>1, <2>2, <2>4, <2>7, Zenon DEF MapRec
    <3>2. PICK r : r = [map[a][m] EXCEPT !.path = d, !.pinned = TRUE]
      BY Zenon
    <3>3. r.fd = map[a][m].fd
      BY <1>1, <3>2, Zenon DEF MapRec
    <3>4. map' = [map EXCEPT ![a][m] = r]
      BY <1>1, <2>7, <3>2, Zenon
    <3> QED
      BY <1>1, <1>2, <1>4, <2>7, <3>1, <3>3, <3>4, PinsFlow, Zenon
  <2>8. CASE pins' = pins /\ map' = [map EXCEPT ![a][m].path = d]
    <3>1. PICK r : r = [map[a][m] EXCEPT !.path = d]
      BY Zenon
    <3>2. r.fd = map[a][m].fd
      BY <1>1, <3>1, Zenon DEF MapRec
    <3>3. map' = [map EXCEPT ![a][m] = r]
      BY <2>8, <3>1, Zenon
    <3>4. PinFlow(a)
      BY <2>8, Zenon DEF PinFlow
    <3> QED
      BY <1>2, <1>4, <3>2, <3>3, <3>4, Zenon
  <2> QED
    BY <2>5, <2>6, <2>7, <2>8, Zenon
<1>9. ASSUME NEW m \in Maps, NEW d \in Dirs \cup {none}, d # none, Unlink(a, m, d),
             map' = [map EXCEPT ![a][m].pinned = FALSE]
      PROVE  FdFlow(a) /\ PinFlow(a)
  BY <1>1, <1>5, <1>9, PinsFlow, Zenon
<1>10. CASE PinBack(a)
  <2>1. pc[a] = "pin_back"
    BY <1>10, Zenon DEF PinBack, At
  <2>2. i[a] \in Maps
    BY <2>1, PinFacts, Zenon
  <2>3. PICK m : m = i[a] - 1
    BY Zenon
  <2>4. m > 0 => m \in Maps /\ m # 0
    BY ONLY <2>2, <2>3, ObjectAssumption DEF Maps, ObjectAssumption
  <2>5. \/ map' = map /\ pins' = pins
        \/ /\ m > 0 /\ map[a][m].path # none /\ Unlink(a, m, map[a][m].path)
           /\ map' = [map EXCEPT ![a][m].pinned = FALSE]
    BY ONLY <1>10, <2>3, <2>4, Zenon DEF PinBack
  <2>6. m > 0 => map[a][m].path \in Dirs \cup {none}
    BY <1>1, <2>4, Zenon DEF MapRec
  <2> QED
    BY <1>2, <1>3, <1>9, <2>4, <2>5, <2>6, Zenon
<1>11. CASE bpf_map__unpin(a)
  <2>1. pc[a] = "unpin_maps"
    BY <1>11, Zenon DEF bpf_map__unpin, At
  <2>2. i[a] \in Maps /\ arg[a] \in Dirs \cup {none}
    BY <2>1, PinFacts, Zenon
  <2>3. PICK m \in Maps : m = i[a]
    BY <2>2, Zenon
  <2>4. PICK d : d = IF map[a][m].path # none THEN map[a][m].path ELSE arg[a]
    BY Zenon
  <2>5. \/ map' = map /\ pins' = pins
        \/ d # none /\ Unlink(a, m, d) /\ map' = [map EXCEPT ![a][m].pinned = FALSE]
    BY ONLY <1>11, <2>3, <2>4, Zenon DEF bpf_map__unpin
  <2>6. d \in Dirs \cup {none}
    BY <1>1, <2>2, <2>4, Zenon DEF MapRec
  <2> QED
    BY <1>2, <1>3, <1>9, <2>5, <2>6, Zenon
<1> QED
  BY <1>6, <1>7, <1>8, <1>10, <1>11, Zenon

\* Before the first object is opened no map is made.
LEMMA OriginInit == ASSUME ObjectAssumption, ObjInit PROVE OriginInv
<1>1. /\ map = [o \in Objects |-> [m \in Maps |-> Closed]] /\ leaked = [o \in Objects |-> {}]
      /\ pins = [d \in Dirs |-> [m \in Maps |-> none]]
  BY Zenon DEF ObjInit
<1>2. Closed.fd = none
  BY DEF Closed
<1>3. \A o \in Objects, m \in Maps : map[o][m].fd = none
  BY <1>1, <1>2, Zenon
<1>4. (\A o \in Objects : leaked[o] = {}) /\ DOMAIN leaked = Objects
  BY <1>1, Zenon
<1>5. \A m \in Maps : none \in Origin(m)
  BY Zenon DEF Origin
<1> QED
  BY <1>1, <1>3, <1>4, <1>5, Zenon DEF OriginInv

\* Every step of every object's process keeps it.
LEMMA OriginStep == ASSUME ObjectAssumption, ObjInv, OriginInv, [ObjNext]_objVars PROVE OriginInv'
<1>1. ASSUME NEW a \in Objects, Steps(a) PROVE OriginInv'
  <2>1. FdFlow(a) /\ PinFlow(a) /\ LeakFlow(a)
    BY <1>1, LoadFlow, CallFlow, Zenon DEF Steps
  <2>2. \A o \in Objects, n \in Maps : Made(o, n) => Made(o, n)'
    BY <1>1, MadeStays, Zenon
  <2> QED
    BY <1>1, <2>1, <2>2, FlowsKeep, Zenon
<1>2. CASE UNCHANGED objVars
  <2>1. map' = map /\ leaked' = leaked /\ pins' = pins /\ pc' = pc /\ i' = i
    BY <1>2, Zenon DEF objVars, shared
  <2> QED
    BY <2>1, Zenon DEF OriginInv, Origin, Made
<1> QED
  BY <1>1, <1>2, Zenon DEF ObjNext

-----------------------------------------------------------------------------
(* What the invariants say of the objects *)

\* The properties follow from the two invariants.
LEMMA ObjInvImplies ==
  ASSUME ObjectAssumption, ObjInv, OriginInv
  PROVE  FailedLoadClean /\ SharedByName /\ PinnedIsPinned /\ ClosedHoldsNothing
<1>0. \A o \in Objects : pc[o] \in {"closed", "done", "failed"} => HoldsNothing(o)
  BY Zenon DEF ObjInv, OriginInv, ObjectOK, Empty, HoldsNothing
<1>1. FailedLoadClean
  BY <1>0, Zenon DEF ObjInv, ObjectOK, OwnPins, FailedLoadClean
<1>2. ClosedHoldsNothing
  BY <1>0, Zenon DEF ClosedHoldsNothing
<1>3. ASSUME NEW o \in Objects, NEW m \in Maps, map[o][m].pinned, map[o][m].fd # none, <<o, m>> \notin stale
      PROVE  map[o][m].path \in Dirs /\ pins[map[o][m].path][m] = map[o][m].fd
  <2>1. FlagTrue(o)
    BY Zenon DEF ObjInv, ObjectOK
  <2> QED
    BY ONLY m \in Maps, <1>3, <2>1, Zenon DEF FlagTrue
<1>4. PinnedIsPinned
  BY ONLY ObjectAssumption, <1>3, Zenon DEF PinnedIsPinned, ObjectAssumption
<1>5. SharedByName
  <2>1. ASSUME NEW o \in Objects, NEW q \in Objects, NEW m \in Maps, map[o][m].pinned, map[q][m].pinned,
               map[o][m].path = map[q][m].path, {<<o, m>>, <<q, m>>} \cap stale = {},
               map[o][m].fd # none, map[q][m].fd # none
        PROVE  map[o][m].fd = map[q][m].fd
    <3>1. <<o, m>> \notin stale /\ <<q, m>> \notin stale
      BY ONLY <2>1, Zenon
    <3>2. pins[map[o][m].path][m] = map[o][m].fd
      BY ONLY o \in Objects, m \in Maps, <1>3, <2>1, <3>1, Zenon
    <3>3. pins[map[q][m].path][m] = map[q][m].fd
      BY ONLY q \in Objects, m \in Maps, <1>3, <2>1, <3>1, Zenon
    <3> QED
      BY ONLY <2>1, <3>2, <3>3, Zenon
  <2> QED
    BY ONLY <2>1, Zenon DEF SharedByName
<1> QED
  BY ONLY <1>1, <1>2, <1>4, <1>5, Zenon

\* The clean-up is the only step of a load that failed.
LEMMA OutUndoes ==
  ASSUME NEW a \in Objects, Steps(a), pc[a] = "out"
  PROVE  UndoPin(a)
<1>1. ~Open(a) /\ ~Load(a) /\ ~bpf_object__close(a)
  BY DEF Open, Load, bpf_object__close, At
<1>2. /\ \A m \in Maps, d \in Dirs : ~bpf_map__reuse_fd(a, m, d)
      /\ \A m \in Maps, d \in {"root", none} : ~bpf_map__set_pin_path(a, m, d)
  BY Zenon DEF bpf_map__reuse_fd, bpf_map__set_pin_path, At
<1>3. ~bpf_object__reuse_map(a) /\ ~CreateMap(a) /\ ~AutoPin(a) /\ ~LoadProg(a)
  BY Zenon DEF bpf_object__reuse_map, CreateMap, AutoPin, LoadProg, At
<1>4. ~PinCall(a) /\ ~bpf_map__pin(a) /\ ~PinBack(a) /\ ~bpf_map__unpin(a)
  BY Zenon DEF PinCall, Call, bpf_map__pin, PinBack, bpf_map__unpin, At
<1>5. ~bpf_program__pin(a) /\ ~ProgsBack(a) /\ ~bpf_program__unpin(a)
  BY Zenon DEF bpf_program__pin, ProgsBack, bpf_program__unpin, At
<1> QED
  BY ONLY Steps(a), <1>1, <1>2, <1>3, <1>4, <1>5, Zenon DEF Steps

\* The clean-up takes the object's own pins.
LEMMA TakesOwn ==
  ASSUME ObjInv, NEW o \in Objects, UndoPin(o), NEW d \in Dirs, NEW m \in Maps, pins'[d][m] # pins[d][m]
  PROVE  maker[d][m] = o \/ <<o, m>> \in stale
<1>1. ObjTypes /\ StillOwn(o) /\ HasPath(o) /\ InArray(o) /\ pc[o] = "out"
  BY ONLY ObjInv, o \in Objects, UndoPin(o), Zenon DEF ObjInv, ObjectOK, UndoPin, At
<1>2. i[o] \in Maps /\ pc[o] \in Loading
  BY ONLY <1>1 DEF InArray, MapLoops, Loading
<1>3. PICK n \in Maps : n = i[o]
  BY ONLY <1>2, ZenonT(30)
<1>4. pins' = pins \/ (map[o][n].pinned /\ ~map[o][n].reused /\ Unlink(o, n, map[o][n].path))
  BY ONLY UndoPin(o), <1>3, Zenon DEF UndoPin
<1>5. map[o][n].pinned /\ ~map[o][n].reused /\ Unlink(o, n, map[o][n].path)
  BY <1>4, Zenon
<1>6. PICK e \in Dirs : e = map[o][n].path
  BY ONLY n \in Maps, <1>1, <1>5, Zenon DEF HasPath
<1>7. Unlink(o, n, e)
  BY ONLY <1>5, <1>6, Zenon
<1>8. \A y \in Dirs, z \in Maps : y # e \/ z # n => pins'[y][z] = pins[y][z]
  BY ONLY e \in Dirs, n \in Maps, <1>1, <1>7, Zenon DEF ObjTypes, Unlink
<1>9. d = e /\ m = n
  BY ONLY d \in Dirs, m \in Maps, pins'[d][m] # pins[d][m], <1>8, Zenon
<1>10. <<o, n>> \notin stale => maker[map[o][n].path][n] = o
  BY ONLY n \in Maps, <1>1, <1>2, <1>5, Zenon DEF StillOwn
<1> QED
  BY ONLY <1>6, <1>9, <1>10, Zenon

\* No step of another process is taken for the clean-up's.
LEMMA UndoesOwnStep == ASSUME ObjInv, ObjNext PROVE UndoesOwn
<1>1. PICK a \in Objects : Steps(a)
  BY Zenon DEF ObjNext
<1>2. ObjTypes
  BY ONLY ObjInv, Zenon DEF ObjInv
<1>3. ASSUME NEW o \in Objects, NEW d \in Dirs, NEW m \in Maps, pc[o] = "out",
             <<pc'[o], i'[o]>> # <<pc[o], i[o]>>, pins'[d][m] # pins[d][m]
      PROVE  maker[d][m] = o \/ <<o, m>> \in stale
  <2>1. o = a
    BY ONLY a \in Objects, o \in Objects, <1>1, <1>2, <1>3, MovesItself, Zenon
  <2>2. UndoPin(o)
    BY ONLY o \in Objects, <1>1, <1>3, <2>1, OutUndoes, Zenon
  <2> QED
    BY ONLY ObjInv, o \in Objects, d \in Dirs, m \in Maps, <1>3, <2>2, TakesOwn, Zenon
<1> QED
  BY ONLY <1>3, Zenon DEF UndoesOwn

\* Objects that load, pin, unpin and close at the same time on one BPF file
\* system, with any system call on it failing, unlink included: a failed
\* bpf_object__load leaves no pin it made but those it could not remove, and no
\* descriptor but those of other objects' maps that bpf_object__reuse_map left
\* open, nor does a closed object; two objects that take a map from one name
\* share it, and the pinned flag is true until somebody else unpins the map.
\* The clean-up of bpf_object__load_xattr removes no pin another object made
\* unless its own was removed before.
THEOREM ObjectsStayConsistent ==
  ASSUME ObjectAssumption
  PROVE  ObjSpec => /\ [](FailedLoadClean /\ SharedByName /\ PinnedIsPinned /\ ClosedHoldsNothing)
                    /\ [][UndoesOwn]_objVars
<1>1. ObjInit => ObjInv /\ OriginInv
  BY ObjInvInit, OriginInit, Zenon
<1>2. ObjInv /\ OriginInv /\ [ObjNext]_objVars => ObjInv' /\ OriginInv'
  BY ObjInvStep, OriginStep, Zenon
<1>3. ObjInv /\ OriginInv => FailedLoadClean /\ SharedByName /\ PinnedIsPinned /\ ClosedHoldsNothing
  BY ObjInvImplies, Zenon
<1>4. ObjInv /\ [ObjNext]_objVars => [UndoesOwn]_objVars
  BY UndoesOwnStep, Zenon
<1> QED
  BY <1>1, <1>2, <1>3, <1>4, PTL DEF ObjSpec
==============================================================================
