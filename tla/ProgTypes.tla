------------------------------ MODULE ProgTypes ------------------------------
(***************************************************************************)
(* The type of a program from the name of its section, and what            *)
(* bpf_prog_load makes of an object's programs (libbpf.c).  The name of a   *)
(* section is the sequence of its parts, so that one name begins another   *)
(* when its parts do: no part in the table begins another in the same      *)
(* place.                                                                  *)
(***************************************************************************)
EXTENDS Cases, Integers, SequencesExt, FiniteSetsExt

\* The rows of section_names: BPF_PROG_SEC, BPF_APROG_SEC, BPF_EAPROG_SEC and
\* BPF_PROG_BTF.  "0" is the attach type that is not given.
Row(sec, type, eatype, attachable, btf, atype) ==
  [sec |-> sec, type |-> type, eatype |-> eatype, attachable |-> attachable, btf |-> btf, atype |-> atype]
PSec(sec, type) == Row(sec, type, "0", FALSE, FALSE, "0")
ASec(sec, type, atype) == Row(sec, type, "0", TRUE, FALSE, atype)
EASec(sec, type, eatype) == Row(sec, type, eatype, TRUE, FALSE, eatype)
BSec(sec, type, eatype) == Row(sec, type, eatype, FALSE, TRUE, "0")
Cgroup(part) == <<"cgroup/", part>>

Plain == <<
  PSec(<<"socket">>, "SOCKET_FILTER"),
  PSec(<<"kprobe/">>, "KPROBE"), PSec(<<"uprobe/">>, "KPROBE"),
  PSec(<<"kretprobe/">>, "KPROBE"), PSec(<<"uretprobe/">>, "KPROBE"),
  PSec(<<"classifier">>, "SCHED_CLS"), PSec(<<"action">>, "SCHED_ACT"),
  PSec(<<"tracepoint/">>, "TRACEPOINT"), PSec(<<"tp/">>, "TRACEPOINT"),
  PSec(<<"raw_tracepoint/">>, "RAW_TRACEPOINT"), PSec(<<"raw_tp/">>, "RAW_TRACEPOINT"),
  BSec(<<"tp_btf/">>, "TRACING", "TRACE_RAW_TP"),
  PSec(<<"xdp">>, "XDP"), PSec(<<"perf_event">>, "PERF_EVENT"),
  PSec(<<"lwt_in">>, "LWT_IN"), PSec(<<"lwt_out">>, "LWT_OUT"),
  PSec(<<"lwt_xmit">>, "LWT_XMIT"), PSec(<<"lwt_seg6local">>, "LWT_SEG6LOCAL") >>
Sockets == <<
  ASec(<<"cgroup_skb/", "ingress">>, "CGROUP_SKB", "INET_INGRESS"),
  ASec(<<"cgroup_skb/", "egress">>, "CGROUP_SKB", "INET_EGRESS"),
  PSec(Cgroup("skb"), "CGROUP_SKB"), ASec(Cgroup("sock"), "CGROUP_SOCK", "INET_SOCK_CREATE"),
  EASec(Cgroup("post_bind4"), "CGROUP_SOCK", "INET4_POST_BIND"),
  EASec(Cgroup("post_bind6"), "CGROUP_SOCK", "INET6_POST_BIND"),
  ASec(Cgroup("dev"), "CGROUP_DEVICE", "DEVICE"), ASec(<<"sockops">>, "SOCK_OPS", "SOCK_OPS") >>
SkSkb == <<
  ASec(<<"sk_skb", "/stream_parser">>, "SK_SKB", "STREAM_PARSER"),
  ASec(<<"sk_skb", "/stream_verdict">>, "SK_SKB", "STREAM_VERDICT"),
  PSec(<<"sk_skb">>, "SK_SKB") >>
Attached == <<
  ASec(<<"sk_msg">>, "SK_MSG", "MSG_VERDICT"), ASec(<<"lirc_mode2">>, "LIRC_MODE2", "LIRC_MODE2"),
  ASec(<<"flow_dissector">>, "FLOW_DISSECTOR", "FLOW_DISSECTOR"),
  EASec(Cgroup("bind4"), "CGROUP_SOCK_ADDR", "INET4_BIND"), EASec(Cgroup("bind6"), "CGROUP_SOCK_ADDR", "INET6_BIND"),
  EASec(Cgroup("connect4"), "CGROUP_SOCK_ADDR", "INET4_CONNECT"),
  EASec(Cgroup("connect6"), "CGROUP_SOCK_ADDR", "INET6_CONNECT"),
  EASec(Cgroup("sendmsg4"), "CGROUP_SOCK_ADDR", "UDP4_SENDMSG"),
  EASec(Cgroup("sendmsg6"), "CGROUP_SOCK_ADDR", "UDP6_SENDMSG"),
  EASec(Cgroup("recvmsg4"), "CGROUP_SOCK_ADDR", "UDP4_RECVMSG"),
  EASec(Cgroup("recvmsg6"), "CGROUP_SOCK_ADDR", "UDP6_RECVMSG"),
  EASec(Cgroup("sysctl"), "CGROUP_SYSCTL", "SYSCTL"),
  EASec(Cgroup("getsockopt"), "CGROUP_SOCKOPT", "GETSOCKOPT"), EASec(Cgroup("setsockopt"), "CGROUP_SOCKOPT", "SETSOCKOPT") >>

section_names == Plain \o Sockets \o SkSkb \o Attached

\* The first row with which the name begins, 0 when there is none.
RowOf(name) ==
  LET rows == {i \in DOMAIN section_names : IsPrefix(section_names[i].sec, name)}
  IN IF rows = {} THEN 0 ELSE Min(rows)

libbpf_prog_type_by_name(name) ==
  LET i == RowOf(name) IN
  IF i = 0 THEN [err |-> "SRCH", type |-> "UNSPEC", eatype |-> "0"]
  ELSE [err |-> "ok", type |-> section_names[i].type, eatype |-> section_names[i].eatype]

libbpf_attach_type_by_name(name) ==
  LET i == RowOf(name) IN
  IF i = 0 \/ ~section_names[i].attachable THEN [err |-> "INVAL", atype |-> "0"]
  ELSE [err |-> "ok", atype |-> section_names[i].atype]

\* The place of "btf_trace_" and the rest of the name in the kernel's BTF, 0 if
\* it is not there or the kernel's BTF cannot be read.
libbpf_attach_btf_id_by_name(name, btf) ==
  LET rows == {i \in DOMAIN section_names : section_names[i].btf /\ IsPrefix(section_names[i].sec, name)}
      traced == SubSeq(name, Len(section_names[Min(rows)].sec) + 1, Len(name))
      ids == {k \in DOMAIN btf : btf[k] = <<"btf_trace_">> \o traced}
  IN IF rows = {} \/ ids = {} THEN 0 ELSE Min(ids)

-----------------------------------------------------------------------------
(* The programs and maps of an object, by their place in its arrays; 0 is  *)
(* the null pointer.                                                       *)

\* The section that only holds functions called from other sections.
is_function_storage(obj, i) == obj.programs[i].sec = <<".text">> /\ obj.has_pseudo_calls

__bpf_program__iter(obj, i, forward) ==
  LET n == Len(obj.programs)
      idx == IF i = 0 THEN (IF forward THEN 1 ELSE n) ELSE IF forward THEN i + 1 ELSE i - 1
  IN IF n = 0 \/ idx > n \/ idx < 1 THEN 0 ELSE idx

\* Steps over function storage.  There is at most one such section, so two
\* steps are enough for the loop.
bpf_program__next(obj, i, forward) ==
  LET p == __bpf_program__iter(obj, i, forward)
  IN IF p # 0 /\ is_function_storage(obj, p) THEN __bpf_program__iter(obj, p, forward) ELSE p

\* The programs in the order for_each_program meets them.
for_each_program(obj, forward) ==
  FoldLeft(LAMBDA v, p : IF v.end THEN v
                         ELSE LET i == bpf_program__next(obj, v.last, forward)
                              IN IF i = 0 THEN [v EXCEPT !.end = TRUE]
                                 ELSE [v EXCEPT !.seen = Append(@, i), !.last = i],
           [seen |-> <<>>, last |-> 0, end |-> FALSE], obj.programs).seen

\* The end of __bpf_object__open: each program's type from its section, and
\* the target of one that traces.
GuessType(obj, i, btf) ==
  LET g == libbpf_prog_type_by_name(obj.programs[i].sec)
      id == IF g.type = "TRACING" THEN libbpf_attach_btf_id_by_name(obj.programs[i].sec, btf) ELSE 0
  IN IF g.type = "TRACING" /\ id = 0 THEN [obj EXCEPT !.err = "open"]
     ELSE [obj EXCEPT !.programs[i].type = g.type, !.programs[i].eatype = g.eatype, !.programs[i].btf_id = id]
OpenTypes(obj, btf) ==
  FoldLeft(LAMBDA o, i : IF o.err # "ok" THEN o ELSE GuessType(o, i, btf), obj, for_each_program(obj, TRUE))

\* One turn of bpf_prog_load_xattr's loop: a type that is given overrides what
\* open guessed, the expected attach type with it.
TypeProgram(obj, i, attr) ==
  LET p == obj.programs[i]
      q == IF attr.type # "UNSPEC" THEN [p EXCEPT !.type = attr.type, !.eatype = attr.eatype] ELSE p
  IN IF q.type = "UNSPEC" THEN [obj EXCEPT !.err = "INVAL"]
     ELSE [obj EXCEPT !.programs[i] = [q EXCEPT !.ifindex = attr.ifindex], !.first = IF @ = 0 THEN i ELSE @]

\* An offload-neutral map stays on the host.
TypeMaps(obj, attr) ==
  [obj EXCEPT !.maps = [k \in DOMAIN @ |-> IF @[k].type = "PERF_EVENT_ARRAY" THEN @[k] ELSE [@[k] EXCEPT !.ifindex = attr.ifindex]]]

\* The object is closed on every error; loads says whether the kernel takes it.
bpf_prog_load_xattr(obj, attr, btf, loads) ==
  LET opened == OpenTypes(obj, btf)
      typed == FoldLeft(LAMBDA o, i : IF o.err # "ok" THEN o ELSE TypeProgram(o, i, attr), opened, for_each_program(obj, TRUE))
      whole == TypeMaps(typed, attr)
      err == CASE opened.err # "ok" -> "NOENT" [] typed.err # "ok" -> typed.err
               [] typed.first = 0 -> "NOENT" [] ~loads -> "INVAL" [] OTHER -> "ok"
  IN [err |-> err, obj |-> whole, fd |-> IF err = "ok" THEN typed.first ELSE 0, open |-> err = "ok"]

-----------------------------------------------------------------------------
\* bpf_map__next and bpf_map__prev; a handle outside the array has no
\* neighbour.  0 is the null pointer, m a place that may lie outside.
__bpf_map__iter(n, m, step) == IF n = 0 \/ m \notin 1 .. n \/ m + step \notin 1 .. n THEN 0 ELSE m + step
bpf_map__next(n, m) == IF m = 0 THEN (IF n = 0 THEN 0 ELSE 1) ELSE __bpf_map__iter(n, m, 1)
bpf_map__prev(n, m) == IF m = 0 THEN n ELSE __bpf_map__iter(n, m, -1)

\* The first map of a name in the order of the array.
bpf_object__find_map_by_name(names, name) ==
  FoldLeft(LAMBDA v, x : IF v.found \/ v.at = 0 THEN v
                         ELSE IF names[v.at] = name THEN [v EXCEPT !.found = TRUE]
                         ELSE [v EXCEPT !.at = bpf_map__next(Len(names), v.at)],
           [at |-> bpf_map__next(Len(names), 0), found |-> FALSE], names)

------------------------------------------------------------------------------
(***************************************************************************)
(* Names of sections, objects of up to three programs and lists of maps.   *)
(***************************************************************************)

\* Every name of the table, exact, with more behind it or cut by a part, and
\* names that are not in it.
SecRests == {<<>>, <<"/x">>, <<"_x">>, <<"/x", "y">>}
SecAsked ==
  UNION {{section_names[i].sec \o r : r \in SecRests} \cup {Front(section_names[i].sec)} : i \in DOMAIN section_names}
    \cup {<<".text">>, <<"kprobe">>, <<"unknown", "xdp">>}
NameSecInputs == [algo : {"secname"}, name : SecAsked]
NameSecNext == Compute("secname", LAMBDA c : [prog |-> libbpf_prog_type_by_name(c.name), attach |-> libbpf_attach_type_by_name(c.name)])

SecUsed == {<<"xdp", "_sock">>, <<"sk_skb", "/stream_parser">>, Cgroup("connect4"), <<"tp_btf/", "here">>,
            <<"tp_btf/", "gone">>, <<"mine">>, <<".text">>}
KernelBtf == <<<<"int">>, <<"here">>, <<"btf_trace_", "here">>>>
ProgramOf(sec) == [sec |-> sec, type |-> "UNSPEC", eatype |-> "0", btf_id |-> 0, ifindex |-> 0]
ProgMap(type) == [type |-> type, ifindex |-> 0]
ObjectOf(secs, calls) ==
  [programs |-> [i \in DOMAIN secs |-> ProgramOf(secs[i])], has_pseudo_calls |-> calls, err |-> "ok", first |-> 0,
   maps |-> <<ProgMap("XSKMAP"), ProgMap("PERF_EVENT_ARRAY")>>]
SecLists == {s \in UNION {[1 .. n -> SecUsed] : n \in 0 .. 3} : Cardinality({i \in DOMAIN s : s[i] = <<".text">>}) <= 1}
LoadObjInputs == [algo : {"loadobj"}, secs : SecLists, calls : BOOLEAN, type : {"UNSPEC", "XDP"}, loads : BOOLEAN]
LoadAttr(c) == [type |-> c.type, eatype |-> "0", ifindex |-> 7]
LoadObjNext == Compute("loadobj", LAMBDA c : bpf_prog_load_xattr(ObjectOf(c.secs, c.calls), LoadAttr(c), KernelBtf, c.loads))

MapNames == UNION {[1 .. n -> {"a", "b", "c"}] : n \in 0 .. 3}
FindMapInputs == [algo : {"findmap"}, names : MapNames, name : {"a", "b", "z"}]
FindMapNext == Compute("findmap", LAMBDA c : bpf_object__find_map_by_name(c.names, c.name))

ProgNext == NameSecNext \/ LoadObjNext \/ FindMapNext

-----------------------------------------------------------------------------
(* Properties *)

\* The order of section_names never hides a row: a section's type, expected
\* attach type and attach type are those of the longest name in the table with
\* which it begins, and only a section that begins with none has no type.
TypeGuessed ==
  Is("secname") =>
    LET rows == {i \in DOMAIN section_names : IsPrefix(section_names[i].sec, in.name)}
        best == CHOOSE i \in rows : \A j \in rows : Len(section_names[j].sec) <= Len(section_names[i].sec)
    IN IF rows = {} THEN out.prog.err = "SRCH" /\ out.attach.err = "INVAL"
       ELSE /\ out.prog = [err |-> "ok", type |-> section_names[best].type, eatype |-> section_names[best].eatype]
            /\ IF section_names[best].attachable
               THEN out.attach = [err |-> "ok", atype |-> section_names[best].atype]
               ELSE out.attach.err = "INVAL"

\* The programs of an object other than its function storage.
Runnable == {i \in DOMAIN in.secs : ~(in.secs[i] = <<".text">> /\ in.calls)}

\* bpf_prog_load_xattr loads every program with the type that was given, or
\* else with that of its section, never one without a type; every program and
\* every map but an offload-neutral one gets the device; what it returns is
\* the first program, never the storage of functions; and it keeps the object
\* only when it succeeds.
LoadsAsAsked ==
  Is("loadobj") =>
    /\ out.open = (out.err = "ok")
    /\ out.err = "ok" <=>
         /\ in.loads /\ Runnable # {}
         /\ \A i \in Runnable : in.secs[i] # <<"tp_btf/", "gone">>
         /\ in.type = "UNSPEC" => \A i \in Runnable : RowOf(in.secs[i]) # 0
    /\ out.err = "ok" =>
         /\ out.fd = Min(Runnable)
         /\ \A i \in DOMAIN in.secs :
              LET p == out.obj.programs[i] IN
              IF i \notin Runnable THEN p = ProgramOf(in.secs[i])
              ELSE /\ p.ifindex = 7
                   /\ p.type = IF in.type # "UNSPEC" THEN in.type ELSE section_names[RowOf(in.secs[i])].type
                   /\ in.secs[i] = <<"tp_btf/", "here">> => p.btf_id = 3
         /\ \A k \in DOMAIN out.obj.maps : (out.obj.maps[k].ifindex = 7) = (out.obj.maps[k].type # "PERF_EVENT_ARRAY")

\* Going forward meets every program that is not function storage once, in
\* the order of the object, and going backward the same in reverse, wherever
\* the storage lies (bpf_program__next, bpf_program__prev).
ProgramsVisited ==
  Is("loadobj") =>
    LET obj == ObjectOf(in.secs, in.calls)
        fwd == for_each_program(obj, TRUE)
    IN /\ {fwd[k] : k \in DOMAIN fwd} = Runnable
       /\ \A k, l \in DOMAIN fwd : k < l => fwd[k] < fwd[l]
       /\ for_each_program(obj, FALSE) = Reverse(fwd)

\* A map is found exactly when some map has the name, and it is the first one;
\* next and prev are inverse to each other and stop at the ends.
MapFound ==
  Is("findmap") =>
    LET n == Len(in.names)
        having == {k \in 1 .. n : in.names[k] = in.name}
    IN /\ out.found = (having # {}) /\ (out.found => out.at = Min(having))
       /\ \A k \in 1 .. n : bpf_map__next(n, bpf_map__prev(n, k)) = k /\ bpf_map__prev(n, bpf_map__next(n, k)) = k
==============================================================================
