----------------------------- MODULE PinnedMaps ------------------------------
(***************************************************************************)
(* common_libbpf.c: bpf_prog_load_xattr_maps, which loads an object with   *)
(* the maps found pinned and pins the others.  An entry of                 *)
(* attr->pinned_maps is [name, file, fd]; a file holds the map pinned      *)
(* there or 0; a map of the object is [name, id, pin_path, reused], with   *)
(* id 0 until it is created or reused.                                     *)
(***************************************************************************)
EXTENDS Cases, Integers, Sequences, SequencesExt

\* The pairs of a map and an entry, in the order of the loops.
Pairs(maps, pins) ==
  [n \in 1 .. Len(maps) * Len(pins) |-> [m |-> 1 + ((n - 1) \div Len(pins)), e |-> 1 + ((n - 1) % Len(pins))]]

\* strcmp(mapname, pin_map->name) in the first loop.  bpf_map__reuse_fd frees
\* the name that mapname points to: the old text is still there, or it is lost
\* and equals no name.
SameName(map, entry, lost) == map.mapname = entry.name /\ ~(map.reused /\ lost)

\* bpf_map__reuse_fd: the map's number, and its name with it, become those of
\* the pinned map.
Reused(map, id, names) == [map EXCEPT !.id = id, !.name = names[id], !.reused = TRUE]

\* A loader l is [maps, pins, failed, err].  The entries in fail are those for
\* which bpf_map__reuse_fd fails; its result is not looked at.
ReusePinned(l, files, names, fail, lost) ==
  FoldLeft(LAMBDA s, p :
             LET entry == s.pins[p.e]  id == files[entry.file] IN
             IF ~SameName(s.maps[p.m], entry, lost) \/ id = 0 THEN s
             ELSE [s EXCEPT !.maps[p.m] = IF p.e \in fail THEN @ ELSE Reused(@, id, names),
                            !.failed = IF p.e \in fail THEN @ \cup {p.e} ELSE @,
                            !.pins[p.e].fd = id],
           [l EXCEPT !.pins = [e \in DOMAIN l.pins |-> [l.pins[e] EXCEPT !.fd = -1]]], Pairs(l.maps, l.pins))

\* Every program gets attr->prog_type, the unspecified one too, which the
\* kernel refuses.  bpf_object__load creates the maps that were not reused;
\* fresh[m] is the identity of a new one.
LoadWithMaps(l, nprogs, type, fresh) ==
  IF nprogs = 0 THEN [l EXCEPT !.err = "NOENT"]
  ELSE IF type = "UNSPEC" THEN [l EXCEPT !.err = "INVAL"]
  ELSE [l EXCEPT !.maps = [m \in DOMAIN @ |-> IF @[m].id = 0 THEN [@[m] EXCEPT !.id = fresh[m]] ELSE @[m]]]

\* bpf_map__pin: a map has one path, and a file that exists is kept.
CanPin(map, file, files) == map.pin_path \in {"none", file} /\ (map.pin_path = "none" => files[file] = 0)

\* The maps that were not loaded from a pinned file, by the names they have
\* now; a pin that fails, as it does for the entries in fail, is passed over.
PinRest(l, files, fail) ==
  FoldLeft(LAMBDA s, p :
             LET entry == s.l.pins[p.e]  map == s.l.maps[p.m] IN
             CASE map.name # entry.name \/ entry.fd # -1 \/ ~CanPin(map, entry.file, s.files) -> s
               [] p.e \in fail -> [s EXCEPT !.l.failed = @ \cup {p.e}]
               [] OTHER -> [l |-> [s.l EXCEPT !.maps[p.m].pin_path = entry.file, !.pins[p.e].fd = map.id],
                            files |-> [s.files EXCEPT ![entry.file] = map.id]],
           [l |-> l, files |-> files], Pairs(l.maps, l.pins))

------------------------------------------------------------------------------
(***************************************************************************)
(* Two processes that load the same object with the same list of pinned    *)
(* maps, their searches and their pins in every order, over files that may *)
(* hold a map already, which may have any name.                            *)
(***************************************************************************)

PinEntries == [name : {"a", "b", "z"}, file : {"p", "q"}]
PinFiles == {f \in [{"p", "q"} -> {0, 9}] \X {"a", "b", "z"} : f[1] = [x \in {"p", "q"} |-> 0] => f[2] = "a"}
PinCase(lists, progs, types) ==
  {[algo |-> "pinned", pins |-> l, files |-> f[1], held |-> f[2], nprogs |-> n, type |-> t] :
     l \in lists, f \in PinFiles, n \in progs, t \in types}
PinInputs == PinCase(BoundedSeq(PinEntries, 2), {1}, {"XDP"}) \cup PinCase(BoundedSeq(PinEntries, 1), 0 .. 1, {"UNSPEC", "XDP"})

Loader(c) ==
  [maps |-> [m \in 1 .. 2 |-> LET n == <<"a", "b">>[m]
                             IN [mapname |-> n, name |-> n, id |-> 0, pin_path |-> "none", reused |-> FALSE]],
   pins |-> [e \in DOMAIN c.pins |-> [name |-> c.pins[e].name, file |-> c.pins[e].file, fd |-> -1]],
   failed |-> {}, err |-> "ok"]

\* The names of the maps by their identity.
NamesById(c) == [id \in {9, 11, 12, 21, 22} |-> IF id = 9 THEN c.held ELSE IF id \in {11, 21} THEN "a" ELSE "b"]

\* What the two have done: 0 nothing, 1 found the pinned maps and loaded,
\* 2 returned.
PinNext ==
  /\ in.algo = "pinned"
  /\ \/ /\ pc = "start" /\ pc' = "run"
        /\ out' = [files |-> in.files, l |-> <<Loader(in), Loader(in)>>, at |-> <<0, 0>>, overlap |-> FALSE]
     \/ /\ pc = "run"
        /\ \E k \in 1 .. 2, fail \in SUBSET DOMAIN in.pins, lost \in BOOLEAN :
             LET l == LoadWithMaps(ReusePinned(out.l[k], out.files, NamesById(in), fail, lost), in.nprogs, in.type,
                                   [m \in 1 .. 2 |-> (10 * k) + m])
                 done == PinRest(out.l[k], out.files, fail)
             IN \/ /\ out.at[k] = 0
                   /\ out' = [out EXCEPT !.l[k] = l, !.at[k] = IF l.err = "ok" THEN 1 ELSE 2,
                                         !.overlap = @ \/ out.at[3 - k] = 1]
                \/ /\ out.at[k] = 1
                   /\ out' = [out EXCEPT !.l[k] = done.l, !.files = done.files, !.at[k] = 2]
        /\ pc' = IF out'.at = <<2, 2>> THEN "done" ELSE "run"
  /\ UNCHANGED in

-----------------------------------------------------------------------------
(* Properties *)

NameOnce == \A d, e \in DOMAIN in.pins : d # e => in.pins[d].name # in.pins[e].name
FileOnce == \A d, e \in DOMAIN in.pins : d # e => in.pins[d].file # in.pins[e].file

\* A file that holds a map holds one of the name it is asked for.
FilesNamed == \A e \in DOMAIN in.pins : in.files[in.pins[e].file] = 9 => in.held = in.pins[e].name

\* A descriptor bpf_prog_load_xattr_maps gives back for an entry is the map
\* that file holds.  It is the map the loaded program uses when each map is
\* asked for once and from a file of its own that holds a map of that name, if
\* any, unless bpf_map__reuse_fd failed for it, which nobody is told: then the
\* program works with a map of its own.  Of two loaders one after the other,
\* for which no call failed, both use the same maps and every entry that names
\* a map has its descriptor; where their loads overlapped one may be left with
\* a map of its own, and then without a descriptor.  A load without a program,
\* or without a type, fails.
PinnedShared ==
  Is("pinned") =>
    /\ \A k \in 1 .. 2 : (out.l[k].err = "ok") = (in.nprogs > 0 /\ in.type # "UNSPEC")
    /\ \A k \in 1 .. 2 : \A e \in DOMAIN in.pins :
         LET l == out.l[k]
             pin == l.pins[e]
             uses == \E m \in 1 .. 2 : l.maps[m].mapname = pin.name /\ l.maps[m].id = pin.fd
         IN /\ pin.fd # -1 => pin.fd = out.files[pin.file]
            /\ pin.fd # -1 /\ NameOnce /\ FileOnce /\ FilesNamed /\ l.err = "ok" => uses = (e \notin l.failed)
            /\ pin.fd = -1 /\ pin.name # "z" /\ NameOnce /\ FileOnce /\ FilesNamed /\ l.err = "ok" => out.overlap \/ e \in l.failed
    /\ NameOnce /\ FileOnce /\ FilesNamed /\ ~out.overlap /\ out.l[1].err = "ok" =>
         \A e \in DOMAIN in.pins :
           e \notin out.l[1].failed \cup out.l[2].failed => out.l[1].pins[e].fd = out.l[2].pins[e].fd
==============================================================================
