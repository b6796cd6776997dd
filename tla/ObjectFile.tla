----------------------------- MODULE ObjectFile -----------------------------
(***************************************************************************)
(* The life of a bpf_object as an owner of memory, descriptors and the     *)
(* caller's private data: bpf_object__open and its steps, the caller's     *)
(* set_prep and set_priv, load, unload and close (libbpf.c).  Any one      *)
(* allocation or kernel call may fail; the open then goes to "out", which  *)
(* closes the half-built object.                                           *)
(*                                                                         *)
(* `heap` and `fds` are what the process really holds, `ptr` the blocks    *)
(* the object points to: a block that is in heap and not in ptr (nor in a  *)
(* local variable) is lost, one in ptr and not in heap would be freed      *)
(* again.  What the sections contain is in ElfObject.                      *)
(***************************************************************************)
EXTENDS Integers, Sequences, FiniteSets

CONSTANTS
  Files,           \* object files: [form, sections]
  MinCap,          \* the slots of the first array of maps (4 in the code)
  MaxBad,          \* bound on the failures
  MaxPriv,         \* bound on the calls of set_priv
  MaxInst          \* bound on the instances of a program

VARIABLES
  file,            \* what is opened, and whether from a buffer
  opc, n,          \* the step of bpf_object__open, and its index
  heap, ptr,       \* the live blocks, and those the object points to
  fds,             \* the descriptors opened and not closed
  efd, elf,        \* efile.fd >= 0, efile.elf # NULL
  buf,             \* efile.obj_buf points to the caller's buffer
  listed,          \* the object is in bpf_objects_list
  progs,           \* one record per program: [sec, inst], inst the descriptors' states
  mapfd,           \* the slots of obj->maps up to maps_cap: "-1", "0", "open"
  nr_maps,
  loaded,
  priv,            \* the private data set on the object, a program, a map
  cleared,         \* the values passed to clear_priv
  foreign,         \* a descriptor the object did not open was closed
  bad

files == <<fds, efd, elf, buf>>
object == <<listed, progs, mapfd, nr_maps, loaded>>
privs == <<priv, cleared>>
vars == <<file, opc, n, heap, ptr, files, object, privs, foreign, bad>>

Init ==
  /\ file \in [f : Files, mem : BOOLEAN]
  /\ opc = "new" /\ n = 1 /\ heap = {} /\ ptr = {} /\ fds = {} /\ efd = FALSE /\ elf = FALSE /\ buf = FALSE
  /\ listed = FALSE /\ progs = <<>> /\ mapfd = <<>> /\ nr_maps = 0 /\ loaded = FALSE
  /\ priv = [x \in {"obj", "prog", "map"} |-> 0] /\ cleared = <<>> /\ foreign = FALSE /\ bad = 0

\* Blocks and descriptors are named by what they are for and by an index.
Block(b) == <<b, 0>>
File == <<"file", 0, 0>>
Sections == file.f.sections
Fail == bad < MaxBad /\ bad' = bad + 1
Fine == UNCHANGED bad
Goto(l) == opc' = l /\ n' = 1
Out == Goto("out")
\* Blocks the object points to from now on; blocks freed and forgotten.
Gain(xs) == heap' = heap \cup xs /\ ptr' = ptr \cup xs
Drop(xs) == heap' = heap \ xs /\ ptr' = ptr \ xs

----------------------------------------------------------------------------
(* Opening                                                                 *)

\* The object, on the list of all objects.
bpf_object__new ==
  /\ opc = "new"
  /\ \/ /\ Gain({Block("obj")}) /\ listed' = TRUE /\ buf' = file.mem
        /\ Goto("elf_init") /\ Fine
     \/ Fail /\ Goto("none") /\ UNCHANGED <<heap, ptr, listed, buf>>
  /\ UNCHANGED <<file, fds, efd, elf, progs, mapfd, nr_maps, loaded, privs, foreign>>

\* What bpf_object__elf_finish frees: nothing unless there is an ELF handle.
Finished == IF elf THEN {Block("elf"), Block("reloc")} ELSE {}

\* The handle, the relocation sections, the file and the caller's buffer.
bpf_object__elf_finish ==
  /\ Drop(Finished)
  /\ elf' = FALSE /\ buf' = (buf /\ ~elf)
  /\ efd' = (efd /\ ~elf) /\ fds' = IF elf THEN fds \ {File} ELSE fds

OpenFile ==
  /\ opc = "elf_init"
  /\ \/ file.mem /\ opc' = "elf_begin" /\ UNCHANGED <<efd, fds>> /\ Fine
     \/ ~file.mem /\ efd' = TRUE /\ fds' = fds \cup {File} /\ opc' = "elf_begin" /\ Fine
     \/ ~file.mem /\ Fail /\ opc' = "out" /\ UNCHANGED <<efd, fds>>
  /\ n' = 1
  /\ UNCHANGED <<file, heap, ptr, elf, buf, object, privs, foreign>>

ElfBegin ==
  /\ opc = "elf_begin"
  /\ \/ Gain({Block("elf")}) /\ elf' = TRUE /\ Goto("ehdr") /\ Fine
     \/ Fail /\ Out /\ UNCHANGED <<heap, ptr, elf>>
  /\ UNCHANGED <<file, fds, efd, buf, object, privs, foreign>>

\* The header must be that of a BPF object of this machine's byte order;
\* elf_init finishes with libelf itself on an error, a wrong order leaves it
\* to the caller.
CheckHeader ==
  /\ opc = "ehdr"
  /\ CASE file.f.form = "not_bpf" -> bpf_object__elf_finish /\ Out
       [] file.f.form = "endian" -> Out /\ UNCHANGED <<heap, ptr, files>>
       [] OTHER -> Goto("collect") /\ UNCHANGED <<heap, ptr, files>>
  /\ UNCHANGED <<file, object, privs, foreign, bad>>

ProgBlocks(i) == {<<b, i>> : b \in {"section_name", "pin_name", "insns"}}

\* bpf_program__init and the longer array of programs.  Whichever allocation
\* fails, bpf_program__exit frees what the local variable holds, except that
\* __bpf_program__pin_name hands strchr a null pointer.
bpf_object__add_program(i) ==
  \/ /\ Gain(ProgBlocks(i) \cup {Block("programs")}) /\ progs' = Append(progs, [sec |-> Sections[n], inst |-> <<>>])
     /\ n' = n + 1 /\ opc' = opc /\ Fine
  \/ /\ Fail /\ Out /\ UNCHANGED <<heap, ptr, progs>>
  \/ /\ Fail /\ Goto("crashed") /\ UNCHANGED <<heap, ptr, progs>>

\* bpf_object__elf_collect: one section.
CollectSection ==
  /\ opc = "collect" /\ n <= Len(Sections)
  /\ LET s == Sections[n]
         i == Len(progs) + 1
     IN \/ s \in {"prog", "text", "tracing"} /\ bpf_object__add_program(i)
        \/ /\ s = "rel"
           /\ \/ Gain({Block("reloc")}) /\ n' = n + 1 /\ opc' = opc /\ Fine
              \/ Fail /\ Out /\ UNCHANGED <<heap, ptr>>
           /\ UNCHANGED progs
        \/ s = "bad_version" /\ Out /\ UNCHANGED <<heap, ptr, progs>> /\ Fine
        \/ /\ s \notin {"prog", "text", "tracing", "rel", "bad_version"}
           /\ n' = n + 1 /\ opc' = opc /\ UNCHANGED <<heap, ptr, progs>> /\ Fine
  /\ UNCHANGED <<file, files, listed, mapfd, nr_maps, loaded, privs, foreign>>

\* bpf_object__init_btf: .BTF and then .BTF.ext.  Each may be missing or not be
\* usable, which only an object with maps described by BTF does not survive.
InitBtf ==
  /\ opc = "collect" /\ n > Len(Sections)
  /\ \E got \in SUBSET {Block("btf"), Block("btf_ext")} :
       /\ Block("btf_ext") \in got => Block("btf") \in got
       /\ Gain(got)
       /\ IF ".maps" \in {Sections[i] : i \in DOMAIN Sections} /\ Block("btf") \notin got
          THEN Out ELSE Goto("maps")
  /\ UNCHANGED <<file, files, object, privs, foreign, bad>>

\* The maps of the object in the order of bpf_object__init_maps.
MapsOf ==
  SelectSeq(Sections, LAMBDA s : s = "map") \o SelectSeq(Sections, LAMBDA s : s = ".maps")
    \o SelectSeq(Sections, LAMBDA s : s \in {"data", "rodata", "bss"})

\* The slots of a longer array: the new ones zeroed, then their descriptors
\* set to -1.
GrowMaps(cap) == [i \in 1 .. cap |-> IF i <= nr_maps THEN mapfd[i] ELSE "-1"]

\* bpf_object__add_map: a free slot, or half as many again and at least four.
bpf_object__add_map ==
  IF nr_maps < Len(mapfd) THEN mapfd' = mapfd /\ UNCHANGED <<heap, ptr>>
  ELSE LET c == (Len(mapfd) * 3) \div 2 IN
       mapfd' = GrowMaps(IF c > MinCap THEN c ELSE MinCap) /\ Gain({Block("maps")})

AddMap ==
  /\ opc = "maps" /\ n <= Len(MapsOf)
  /\ \/ bpf_object__add_map /\ nr_maps' = nr_maps + 1 /\ opc' = "map_name" /\ Fine
     \/ Fail /\ opc' = "out" /\ UNCHANGED <<mapfd, nr_maps, heap, ptr>>
  /\ UNCHANGED <<file, n, files, listed, progs, loaded, privs, foreign>>

\* The map's name and, for .data and .rodata, a copy of the contents; a map
\* whose contents could not be copied loses its name again.
bpf_object__init_internal_map ==
  /\ opc = "map_name"
  /\ LET k == MapsOf[n]
         name == {<<"name", n>>}
     IN \/ Gain(name \cup {Block(b) : b \in {k} \cap {"data", "rodata"}}) /\ opc' = "maps" /\ n' = n + 1 /\ Fine
        \/ Fail /\ Out /\ UNCHANGED <<heap, ptr>>
  /\ UNCHANGED <<file, files, object, privs, foreign>>

\* bpf_object__init_prog_names: the first global symbol of each section; .text
\* may have none, another program must have one.
bpf_object__init_prog_names ==
  /\ opc = "maps" /\ n > Len(MapsOf)
  /\ \/ Gain({<<"prog_name", i>> : i \in DOMAIN progs}) /\ Goto("reloc") /\ Fine
     \/ /\ Fail
        /\ \E k \in 0 .. Len(progs) - 1 : Gain({<<"prog_name", i>> : i \in 1 .. k})
        /\ Out
  /\ UNCHANGED <<file, files, object, privs, foreign>>

\* bpf_object__collect_reloc, then everything of libelf's is given back: the
\* descriptor of the file, or the caller's buffer.
CollectReloc ==
  /\ opc = "reloc"
  /\ \/ /\ bpf_object__elf_finish
        /\ Goto("types") /\ Fine
     \/ Fail /\ Out /\ UNCHANGED <<heap, ptr, files>>
  /\ UNCHANGED <<file, object, privs, foreign>>

\* The type of each program from its section's name; a tracing program needs
\* the kernel's BTF, read for it and freed, to find its target.
GuessTypes ==
  /\ opc = "types"
  /\ \/ Goto("open") /\ Fine
     \/ (\E i \in DOMAIN progs : progs[i].sec = "tracing") /\ Fail /\ Out
  /\ UNCHANGED <<file, heap, ptr, files, object, privs, foreign>>

----------------------------------------------------------------------------
(* The open object                                                         *)

\* bpf_object__set_priv, bpf_program__set_priv, bpf_map__set_priv: the value
\* before is given to its clear function.
set_priv(x) ==
  /\ opc = "open" /\ Len(cleared) < MaxPriv
  /\ x = "prog" => progs # <<>>
  /\ x = "map" => nr_maps > 0
  /\ LET new == Cardinality({y \in DOMAIN priv : priv[y] # 0}) + Len(cleared) + 1 IN
     /\ new <= MaxPriv
     /\ priv' = [priv EXCEPT ![x] = new]
  /\ cleared' = IF priv[x] # 0 THEN Append(cleared, priv[x]) ELSE cleared
  /\ UNCHANGED <<file, opc, n, heap, ptr, files, object, foreign, bad>>

\* bpf_program__set_prep: room for the descriptors of k instances, before the
\* program is loaded.
bpf_program__set_prep(i, k) ==
  /\ opc = "open" /\ progs[i].inst = <<>>
  /\ \/ /\ progs' = [progs EXCEPT ![i].inst = [j \in 1 .. k |-> "-1"]]
        /\ Gain({<<"fds", i>>}) /\ Fine
     \/ Fail /\ UNCHANGED <<heap, ptr, progs>>
  /\ UNCHANGED <<file, opc, n, files, listed, mapfd, nr_maps, loaded, privs, foreign>>

ProgFds == UNION {{<<"prog", i, j>> : j \in {j \in DOMAIN progs[i].inst : progs[i].inst[j] = "open"}} : i \in DOMAIN progs}
MapFds == {<<"map", i, 0>> : i \in {i \in 1 .. nr_maps : mapfd[i] = "open"}}

\* bpf_object__load: only once, even if it failed.
Load ==
  /\ opc = "open" /\ ~loaded
  /\ loaded' = TRUE /\ Goto("load_maps")
  /\ UNCHANGED <<file, heap, ptr, files, listed, progs, mapfd, nr_maps, privs, foreign, bad>>

CreateMap ==
  /\ opc = "load_maps" /\ n <= nr_maps
  /\ \/ /\ mapfd' = [mapfd EXCEPT ![n] = "open"] /\ fds' = fds \cup {<<"map", n, 0>>}
        /\ n' = n + 1 /\ opc' = opc /\ Fine
     \/ Fail /\ Goto("failed") /\ UNCHANGED <<mapfd, fds>>
  /\ UNCHANGED <<file, heap, ptr, efd, elf, buf, listed, progs, nr_maps, loaded, privs, foreign>>

\* bpf_program__load: the descriptors of all instances, of which the
\* pre-processor may skip any; the instructions are freed either way.
bpf_program__load ==
  /\ opc \in {"load_maps", "load_progs"} /\ (opc = "load_maps" => n > nr_maps)
  /\ LET i == IF opc = "load_maps" THEN 1 ELSE n
         prep == progs[i].inst # <<>>
         k == IF prep THEN Len(progs[i].inst) ELSE 1
     IN IF i > Len(progs) THEN Goto("open") /\ Fine /\ UNCHANGED <<heap, ptr, progs, fds>>
        ELSE \E skip \in SUBSET (1 .. k) :
               /\ ~prep => skip = {}
               /\ \/ /\ progs' = [progs EXCEPT ![i].inst = [j \in 1 .. k |-> IF j \in skip THEN "-1" ELSE "open"]]
                     /\ fds' = fds \cup {<<"prog", i, j>> : j \in (1 .. k) \ skip}
                     /\ opc' = "load_progs" /\ n' = i + 1 /\ Fine
                  \/ \E done \in 0 .. k - 1 :
                       /\ progs' = [progs EXCEPT ![i].inst = [j \in 1 .. k |-> IF j <= done /\ j \notin skip THEN "open" ELSE "-1"]]
                       /\ fds' = fds \cup {<<"prog", i, j>> : j \in (1 .. done) \ skip}
                       /\ Fail /\ Goto("failed")
               /\ heap' = (heap \cup {<<"fds", i>>}) \ {<<"insns", i>>}
               /\ ptr' = (ptr \cup {<<"fds", i>>}) \ {<<"insns", i>>}
  /\ UNCHANGED <<file, efd, elf, buf, listed, mapfd, nr_maps, loaded, privs, foreign>>

\* bpf_object__unload: zclose of every map's and every instance's descriptor.
Unload ==
  /\ fds' = (fds \ ProgFds) \ MapFds
  /\ foreign' = (foreign \/ \E i \in 1 .. nr_maps : mapfd[i] = "0")
  /\ mapfd' = [i \in DOMAIN mapfd |-> IF i <= nr_maps THEN "-1" ELSE mapfd[i]]
  /\ progs' = [i \in DOMAIN progs |-> [progs[i] EXCEPT !.inst = <<>>]]
InstBlocks == {<<"fds", i>> : i \in DOMAIN progs}

\* out: of bpf_object__load_xattr, and the caller's own call.
bpf_object__unload ==
  /\ opc \in {"failed", "open"}
  /\ Unload /\ Drop(InstBlocks) /\ Goto("open")
  /\ UNCHANGED <<file, efd, elf, buf, listed, nr_maps, loaded, privs, bad>>

----------------------------------------------------------------------------
(* Closing                                                                 *)

Closing == opc \in {"out", "open"}

Singles == {Block(b) : b \in {"obj", "btf", "btf_ext", "data", "rodata", "maps", "programs"}}
Blocks_NoNames ==
  InstBlocks \cup Singles \cup {<<"name", i>> : i \in 1 .. nr_maps}
  \cup {<<b, i>> : b \in {"section_name", "pin_name", "insns"}, i \in DOMAIN progs}

\* What bpf_object__close and bpf_program__exit free: whatever these pointers
\* point to.
Blocks ==
  InstBlocks \cup Singles \cup {<<"name", i>> : i \in 1 .. nr_maps}
  \cup {<<b, i>> : b \in {"section_name", "pin_name", "insns", "prog_name"}, i \in DOMAIN progs}

\* The private data of maps, programs and the object, to their clear functions.
Cleared == LET left == SelectSeq(<<"obj", "map", "prog">>, LAMBDA x : priv[x] # 0)
           IN [i \in DOMAIN left |-> priv[left[i]]]

bpf_object__close ==
  /\ Closing
  /\ heap' = heap \ (Finished \cup (Blocks \cap ptr)) /\ ptr' = {}
  /\ foreign' = (foreign \/ \E i \in 1 .. nr_maps : mapfd[i] = "0")
  /\ fds' = ((IF elf THEN fds \ {File} ELSE fds) \ ProgFds) \ MapFds
  /\ elf' = FALSE /\ efd' = FALSE /\ buf' = FALSE
  /\ listed' = FALSE /\ progs' = <<>> /\ mapfd' = <<>> /\ nr_maps' = 0
  /\ cleared' = cleared \o Cleared
  /\ priv' = [x \in DOMAIN priv |-> 0]
  /\ Goto("closed")
  /\ UNCHANGED <<file, loaded, bad>>

Next ==
  \/ bpf_object__new \/ OpenFile \/ ElfBegin \/ CheckHeader \/ CollectSection \/ InitBtf
  \/ AddMap \/ bpf_object__init_internal_map \/ bpf_object__init_prog_names \/ CollectReloc \/ GuessTypes
  \/ \E x \in {"obj", "prog", "map"} : set_priv(x)
  \/ \E i \in DOMAIN progs, k \in 1 .. MaxInst : bpf_program__set_prep(i, k)
  \/ Load \/ CreateMap \/ bpf_program__load \/ bpf_object__unload
  \/ bpf_object__close

Spec == Init /\ [][Next]_vars

----------------------------------------------------------------------------
\* An object that is closed, by its user or by an open that failed half-way,
\* leaves no block, no descriptor and no entry in the list of objects.  The
\* exception the code has: a file libelf could not begin to read stays open,
\* since bpf_object__elf_finish looks at the handle and not at the descriptor;
\* then nothing but the object itself has been allocated yet.
ClosedLeavesNothing ==
  /\ opc \in {"closed", "none"} => heap = {} /\ ~listed /\ fds \subseteq {File} /\ (bad = 0 => fds = {})
  /\ opc = "out" => fds \subseteq {File} /\ (File \in fds => elf \/ heap = {Block("obj")})

\* The object points to live blocks only, so no block is freed twice, and to
\* all of them (bpf_object__add_program, __init_internal_map, bpf_program__load).
PointsToLive == opc \notin {"crashed", "closed"} => heap = ptr

\* Once open has returned, neither the file nor the caller's buffer is used:
\* the caller may free the buffer at once (bpf_object__open_mem,
\* bpf_object__elf_finish).
BufferReturned ==
  /\ opc \in {"open", "load_maps", "load_progs", "failed"} => File \notin fds
  /\ opc \in {"open", "closed", "load_maps", "load_progs", "failed"} => ~buf /\ ~elf

\* Closing or unloading never closes a descriptor the object did not open:
\* every slot of the array of maps holds -1 until its map is created, also
\* the slots a longer array adds (bpf_object__add_map).
ClosesOwn == ~foreign

\* Every private value is handed to its clear function exactly once, when it
\* is replaced or when the object is closed (the three set_priv functions,
\* bpf_object__close, bpf_program__exit).
PrivClearedOnce ==
  /\ \A i, j \in DOMAIN cleared : cleared[i] = cleared[j] => i = j
  /\ \A x \in DOMAIN priv : priv[x] # 0 => \A i \in DOMAIN cleared : cleared[i] # priv[x]
  /\ {priv[x] : x \in DOMAIN priv} \cup {cleared[i] : i \in DOMAIN cleared} \cup {0}
       = 0 .. (Len(cleared) + Cardinality({x \in DOMAIN priv : priv[x] # 0}))
=============================================================================
