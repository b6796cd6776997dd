------------------------------ MODULE ElfObject ------------------------------
(***************************************************************************)
(* What libbpf makes of an ELF object file: the sections are collected,    *)
(* maps are found in three kinds of section and sorted, relocations are    *)
(* resolved to maps, and at load time the instructions are patched and the *)
(* functions of .text appended to the programs that call them.             *)
(*                                                                         *)
(* A file is a record: secs (sections, numbered from 1), syms, vars (the   *)
(* variables of the BTF DATASEC .maps), info (function records of          *)
(* .BTF.ext), caps (what the kernel can do) and flags for parts that may   *)
(* be corrupt.  Instructions are numbered from 0 as in the code.           *)
(***************************************************************************)
EXTENDS Cases, Integers, Sequences, FiniteSets, SequencesExt, TLC

MapDefSize == 20         \* sizeof(struct bpf_map_def)
InsnSize == 8
MapFd(i) == 100 + i      \* the descriptor of the i-th map

NoFile == [maps |-> -1, btf_maps |-> -1, text |-> 0, data |-> -1, rodata |-> -1, bss |-> -1,
           symbols |-> 0, btf |-> 0, ext |-> 0, relocs |-> <<>>, progs |-> <<>>, err |-> "ok"]

Err(o, e) == [o EXCEPT !.err = e]

-----------------------------------------------------------------------------
(* bpf_object__elf_collect *)

bpf_object__add_program(o, s, idx) ==
  IF s.size % InsnSize # 0 THEN Err(o, "EINVAL")
  ELSE [o EXCEPT !.progs = Append(@, [idx |-> idx, sec |-> s.name, insns |-> s.insns,
                                      main_cnt |-> 0, relocs |-> <<>>, func_info |-> <<>>])]

CollectSection(elf, o, idx) ==
  LET s == elf.secs[idx] IN
  CASE o.err # "ok" -> o
    [] s.name = "license" -> o
    [] s.name = "version" -> IF s.size # 4 THEN Err(o, "FORMAT") ELSE o
    [] s.name = "maps" -> [o EXCEPT !.maps = idx]
    [] s.name = ".maps" -> [o EXCEPT !.btf_maps = idx]
    [] s.name = ".BTF" -> [o EXCEPT !.btf = idx]
    [] s.name = ".BTF.ext" -> [o EXCEPT !.ext = idx]
    [] s.type = "SYMTAB" -> IF o.symbols # 0 THEN Err(o, "FORMAT") ELSE [o EXCEPT !.symbols = idx]
    [] s.type = "PROGBITS" /\ s.size > 0 ->
         (IF s.exec
          THEN bpf_object__add_program(IF s.name = ".text" THEN [o EXCEPT !.text = idx] ELSE o, s, idx)
          ELSE IF s.name = ".data" THEN [o EXCEPT !.data = idx]
          ELSE IF s.name = ".rodata" THEN [o EXCEPT !.rodata = idx] ELSE o)
    [] s.type = "REL" ->
         (IF elf.secs[s.target].exec THEN [o EXCEPT !.relocs = Append(@, s)] ELSE o)
    [] s.type = "NOBITS" /\ s.name = ".bss" -> [o EXCEPT !.bss = idx]
    [] OTHER -> o

-----------------------------------------------------------------------------
(* BTF: required by the maps of the section .maps, optional otherwise *)

bpf_object__init_btf(elf, o) ==
  LET has == o.btf # 0 /\ elf.btf_ok
      r == [o EXCEPT !.btf = IF has THEN @ ELSE 0,
                     !.ext = IF has /\ elf.ext_ok THEN @ ELSE 0]
  IN IF ~has /\ o.btf_maps >= 0 THEN Err(r, "ENOENT") ELSE r

\* A kernel that takes no BTF costs the object its BTF, and itself when its
\* maps are described there.
bpf_object__sanitize_and_load_btf(elf, o) ==
  IF o.btf = 0 THEN o
  ELSE IF elf.caps.btf_load
  THEN [o EXCEPT !.ext = IF elf.caps.btf_func THEN @ ELSE 0]
  ELSE LET r == [o EXCEPT !.btf = 0, !.ext = 0]
       IN IF o.btf_maps >= 0 THEN Err(r, "EINVAL") ELSE r

-----------------------------------------------------------------------------
(* bpf_object__init_maps *)

NoDef == [type |-> 0, key_size |-> 0, value_size |-> 0, max_entries |-> 0, map_flags |-> 0, pin |-> FALSE]

Map(name, kind, sec, off, def) ==
  [name |-> name, kind |-> kind, sec_idx |-> sec, sec_offset |-> off, def |-> def]

BadMaps == <<Map("?", "EINVAL", 0, 0, NoDef)>>

\* The section "maps": definitions of equal size, one for each of its symbols.
bpf_object__init_user_maps(elf, o, strict) ==
  IF o.maps < 0 THEN <<>>
  ELSE LET syms == SelectSeq(elf.syms, LAMBDA s : s.sec = o.maps)
           size == elf.secs[o.maps].size
           def_sz == size \div Len(syms)
       IN IF size = 0 \/ Len(syms) = 0 THEN BadMaps
          ELSE IF size % Len(syms) # 0 THEN BadMaps
          ELSE IF \E k \in DOMAIN syms : syms[k].off + def_sz > size
                    \/ (def_sz > MapDefSize /\ syms[k].extra /\ strict) THEN BadMaps
          ELSE [k \in DOMAIN syms |-> Map(syms[k].name, "UNSPEC", o.maps, syms[k].off, NoDef)]

\* One member of a BTF map definition.
SetSize(def, field, sz) ==
  IF def[field] # 0 /\ def[field] # sz THEN [def EXCEPT !.type = -1]
  ELSE [def EXCEPT ![field] = sz]

Field(def, f, strict) ==
  CASE def.type = -1 -> def
    [] f.name \in {"type", "max_entries", "map_flags"} -> [def EXCEPT ![f.name] = f.val]
    [] f.name \in {"key_size", "key"} -> SetSize(def, "key_size", f.val)
    [] f.name \in {"value_size", "value"} -> SetSize(def, "value_size", f.val)
    [] f.name = "pinning" -> IF f.val = 0 THEN def
                             ELSE IF f.val = 1 THEN [def EXCEPT !.pin = TRUE]
                             ELSE [def EXCEPT !.type = -1]
    [] OTHER -> IF strict THEN [def EXCEPT !.type = -1] ELSE def

MapFields(v, strict) == FoldLeft(LAMBDA def, f : Field(def, f, strict), NoDef, v.fields)

bpf_object__init_user_btf_map(o, v, size, strict) ==
  IF v.off + v.size > size \/ v.kind # "STRUCT" \/ v.def_size > v.size THEN BadMaps
  ELSE LET def == MapFields(v, strict)
       IN IF def.type \in {-1, 0} THEN BadMaps
          ELSE <<Map(v.name, "UNSPEC", o.btf_maps, v.off, def)>>

bpf_object__init_user_btf_maps(elf, o, strict) ==
  IF o.btf_maps < 0 THEN <<>>
  ELSE FlattenSeq([k \in DOMAIN elf.vars |->
         bpf_object__init_user_btf_map(o, elf.vars[k], elf.secs[o.btf_maps].size, strict)])

\* Internal maps for global variables.
bpf_object__init_global_data_maps(elf, o) ==
  LET one(kind, sec) ==
        IF sec >= 0 /\ elf.caps.global_data THEN <<Map(kind, kind, sec, 0, NoDef)>> ELSE <<>>
  IN one(".data", o.data) \o one(".rodata", o.rodata) \o one(".bss", o.bss)

compare_bpf_map(a, b) ==
  IF a.sec_idx # b.sec_idx THEN a.sec_idx < b.sec_idx ELSE a.sec_offset < b.sec_offset

bpf_object__init_maps(elf, o, strict) ==
  LET ms == bpf_object__init_user_maps(elf, o, strict)
              \o bpf_object__init_user_btf_maps(elf, o, strict)
              \o bpf_object__init_global_data_maps(elf, o)
  IN IF \E k \in DOMAIN ms : ms[k].kind = "EINVAL" THEN BadMaps ELSE SortSeq(ms, compare_bpf_map)

\* The end of bpf_object__elf_collect.  Every program needs a global symbol,
\* .text excepted.
bpf_object__elf_collect(elf, strict) ==
  LET o == FoldLeft(LAMBDA ob, idx : CollectSection(elf, ob, idx), NoFile,
                    [k \in DOMAIN elf.secs |-> k])
      b == bpf_object__init_btf(elf, o)
      ms == bpf_object__init_maps(elf, b, strict)
      l == bpf_object__sanitize_and_load_btf(elf, b)
      named(p) == \E k \in DOMAIN elf.syms : elf.syms[k].sec = p.idx /\ elf.syms[k].global
      final == CASE o.err # "ok" -> o.err
                 [] o.symbols = 0 -> "FORMAT"
                 [] b.err # "ok" -> b.err
                 [] ms = BadMaps -> "EINVAL"
                 [] l.err # "ok" -> l.err
                 [] \E k \in DOMAIN o.progs : ~named(o.progs[k]) /\ o.progs[k].idx # o.text -> "EINVAL"
                 [] OTHER -> "ok"
  IN [file |-> [l EXCEPT !.err = final], maps |-> IF final = "ok" THEN ms ELSE <<>>]

-----------------------------------------------------------------------------
(* bpf_object__collect_reloc *)

InData(o, sec) == sec \in {o.data, o.bss, o.rodata}
InMaps(o, sec) == sec \in {o.maps, o.btf_maps}
Kind(o, sec) == CASE sec = o.data -> ".data" [] sec = o.bss -> ".bss" [] sec = o.rodata -> ".rodata" [] OTHER -> "UNSPEC"

\* Mutant: the section of the symbol is not compared.
FindMap_ByOffset(o, maps, s) ==
  LET kind == Kind(o, s.sec)
  IN SelectInSeq(maps, LAMBDA m : m.kind = kind /\ (kind # "UNSPEC" \/ m.sec_offset = s.off))

\* The map a symbol stands for; 0 when there is none.
FindMap(o, maps, s) ==
  LET kind == Kind(o, s.sec)
  IN SelectInSeq(maps, LAMBDA m : m.kind = kind
                   /\ (kind # "UNSPEC" \/ (m.sec_idx = s.sec /\ m.sec_offset = s.off)))

\* One relocation.  A 64-bit load of a symbol in .text leaves a descriptor
\* that is never written: "unset".
RelocDesc(elf, o, maps, prog, r) ==
  LET s == elf.syms[r.sym]
      insn == prog.insns[r.insn + 1]
      m == FindMap(o, maps, s)
  IN CASE ~(s.sec = o.text \/ InMaps(o, s.sec) \/ InData(o, s.sec)) -> [type |-> "RELOC"]
       [] insn.op = "call" ->
            (IF insn.src # "PSEUDO_CALL" THEN [type |-> "RELOC"]
             ELSE [type |-> "CALL", insn |-> r.insn])
       [] insn.op \notin {"call", "ld64"} -> [type |-> "RELOC"]
       [] insn.op = "ld64" /\ InData(o, s.sec) /\ (s.global \/ ~elf.caps.global_data) -> [type |-> "RELOC"]
       [] insn.op = "ld64" /\ (InMaps(o, s.sec) \/ InData(o, s.sec)) ->
            (IF m = 0 THEN [type |-> "RELOC"]
             ELSE [type |-> IF InData(o, s.sec) THEN "DATA" ELSE "LD64", insn |-> r.insn, map |-> m])
       [] OTHER -> [type |-> "unset"]

bpf_object__collect_reloc(elf, ob) ==
  LET step(o, rs) ==
        LET pi == SelectInSeq(o.file.progs, LAMBDA p : p.idx = rs.target)
            ds == [k \in DOMAIN rs.rels |-> RelocDesc(elf, o.file, o.maps, o.file.progs[pi], rs.rels[k])]
        IN IF o.file.err # "ok" THEN o
           ELSE IF pi = 0 \/ \E k \in DOMAIN ds : ds[k].type = "RELOC"
           THEN [o EXCEPT !.file.err = "RELOC"]
           ELSE [o EXCEPT !.file.progs[pi].relocs = ds]
  IN FoldLeft(step, ob, ob.file.relocs)

HasPseudoCalls(o) ==
  \E k \in DOMAIN o.progs : \E d \in DOMAIN o.progs[k].relocs : o.progs[k].relocs[d].type = "CALL"

-----------------------------------------------------------------------------
(* bpf_object__relocate *)

\* bpf_program_reloc_btf_ext: the function records of a section, moved to
\* where its instructions are.  A program without records of its own ignores
\* those of .text.
bpf_program_reloc_btf_ext(elf, o, prog, sec, at) ==
  LET mine == SelectSeq(elf.info, LAMBDA r : r.sec = sec)
      moved == [k \in DOMAIN mine |-> mine[k].off \div InsnSize + at]
  IN IF o.ext = 0 \/ (at # 0 /\ prog.func_info = <<>>) THEN prog
     ELSE IF mine = <<>> THEN (IF prog.func_info = <<>> THEN prog ELSE [prog EXCEPT !.main_cnt = -1])
     ELSE [prog EXCEPT !.func_info = @ \o moved]

\* A call counts from its own place, the symbol from the start of .text.
CallTarget(prog, r) == prog.insns[r.insn + 1].imm + prog.main_cnt - r.insn

\* bpf_program__reloc_text: .text is appended at the first call.
bpf_program__reloc_text(elf, o, prog, r) ==
  LET ti == SelectInSeq(o.progs, LAMBDA p : p.idx = o.text)
      text == o.progs[ti]
      noted == bpf_program_reloc_btf_ext(elf, o, prog, text.sec, Len(prog.insns))
      grown == IF prog.main_cnt # 0 THEN prog
               ELSE IF noted.main_cnt = -1 THEN noted
               ELSE [noted EXCEPT !.insns = @ \o text.insns, !.main_cnt = Len(prog.insns)]
  IN IF prog.idx = o.text \/ ti = 0 \/ grown.main_cnt = -1 THEN [prog EXCEPT !.main_cnt = -1]
     ELSE [grown EXCEPT !.insns[r.insn + 1].imm = CallTarget(grown, r)]

\* A 64-bit load takes the map's descriptor; of a global variable's map the
\* offset moves to the second half.
RelocLoad(prog, r) ==
  IF r.insn + 1 >= Len(prog.insns) THEN [prog EXCEPT !.main_cnt = -1]
  ELSE IF r.type = "LD64"
  THEN [prog EXCEPT !.insns[r.insn + 1] = [@ EXCEPT !.src = "MAP_FD", !.imm = MapFd(r.map)]]
  ELSE [prog EXCEPT !.insns[r.insn + 1] = [@ EXCEPT !.src = "MAP_VALUE", !.imm = MapFd(r.map)],
                    !.insns[r.insn + 2].imm = prog.insns[r.insn + 1].imm]

bpf_program__relocate(elf, o, k) ==
  LET p0 == bpf_program_reloc_btf_ext(elf, o, o.progs[k], o.progs[k].sec, 0)
      step(p, r) == CASE p.main_cnt = -1 \/ r.type = "unset" -> p
                      [] r.type = "CALL" -> bpf_program__reloc_text(elf, o, p, r)
                      [] OTHER -> RelocLoad(p, r)
      p1 == FoldLeft(step, p0, o.progs[k].relocs)
  IN IF o.err # "ok" THEN o
     ELSE IF p1.main_cnt = -1 THEN Err(o, "RELOC") ELSE [o EXCEPT !.progs[k] = p1]

bpf_object__relocate(elf, o) ==
  FoldLeft(LAMBDA ob, k : bpf_program__relocate(elf, ob, k), o, [k \in DOMAIN o.progs |-> k])

\* bpf_object__load_progs skips .text when it was appended to others.
bpf_program__is_function_storage(o, calls, p) == p.idx = o.text /\ calls

\* The whole way from the file to the programs given to the kernel.
OpenAndLoad(elf, strict) ==
  LET c == bpf_object__elf_collect(elf, strict)
      r == IF c.file.err = "ok" THEN bpf_object__collect_reloc(elf, c) ELSE c
      l == IF r.file.err = "ok" THEN bpf_object__relocate(elf, r.file) ELSE r.file
  IN [opened |-> r.file, file |-> l, maps |-> r.maps,
      progs |-> IF l.err # "ok" THEN <<>>
                ELSE SelectSeq(l.progs, LAMBDA p :
                       ~bpf_program__is_function_storage(l, HasPseudoCalls(r.file), p))]

------------------------------------------------------------------------------
(***************************************************************************)
(* Object files for ElfObject: every order of the sections a compiler may  *)
(* emit, with loads of maps and variables and calls into .text, and one    *)
(* layout with each of the defects the code looks for.                     *)
(***************************************************************************)

Pos(q, x) == SelectInSeq(q, LAMBDA y : y = x)

Ld(imm) == [op |-> "ld64", src |-> "none", imm |-> imm]
Half == [op |-> "half", src |-> "none", imm |-> 0]
Call(fn) == [op |-> "call", src |-> "PSEUDO_CALL", imm |-> fn - 1]
Exit == [op |-> "exit", src |-> "none", imm |-> 0]

\* Functions f and g start at these instructions of .text.
FnStart == [f |-> 0, g |-> 3]
VarOffset == 4

Fields == <<[name |-> "type", val |-> 1], [name |-> "key_size", val |-> 4], [name |-> "key", val |-> 4],
            [name |-> "max_entries", val |-> 2]>>
BtfVar(n, off, fs) == [name |-> n, off |-> off, size |-> 32, kind |-> "STRUCT", def_size |-> 32, fields |-> fs]

\* The load with target t, a symbol's name.
LdOf(t) == Ld(IF t = ".data" THEN VarOffset ELSE 0)

\* The file of an input: c.order names the sections that hold code and data,
\* c.a and c.t what a program and .text load, c.calls what the program calls.
Code(c, name) ==
  CASE name = ".text" -> <<LdOf(c.t), Half, Exit, Exit>>
    [] name = "xdp" -> <<LdOf(c.a), Half, LdOf(c.a), Half>> \o [k \in DOMAIN c.calls |-> Call(FnStart[c.calls[k]])] \o <<Exit>>
    [] name = "tc" -> <<Call(FnStart["g"]), Exit>>
    [] OTHER -> <<>>

Symbols(c) ==
  LET at(n) == Pos(c.order, n)
      sym(n, sec, off, global) == [name |-> n, sec |-> at(sec), off |-> off, global |-> global, extra |-> c.defect = "extra"]
      all == <<sym("xdp_prog", "xdp", 0, TRUE), sym("tc_prog", "tc", 0, c.defect # "unnamed"), sym("f", ".text", 0, TRUE),
               sym("g", ".text", 8 * FnStart["g"], TRUE), sym(".data", ".data", 0, c.defect = "globalvar"),
               sym("m2", "maps", 24, TRUE), sym("m1", "maps", 0, TRUE),
               sym("b1", ".maps", 0, TRUE), sym("b2", ".maps", 32, TRUE)>>
  IN SelectSeq(all, LAMBDA s : s.sec # 0)
     \o <<[name |-> "undef", sec |-> 0, off |-> 0, global |-> TRUE, extra |-> FALSE]>>

SymAt(c, n) == SelectInSeq(Symbols(c), LAMBDA s : s.name = n)
Rel(c, i, n) == [insn |-> i, sym |-> SymAt(c, n)]

Rels(c, name) ==
  CASE name = ".text" -> IF c.t = "none" THEN <<>> ELSE <<Rel(c, 0, c.t)>>
    [] name = "xdp" -> (IF c.a = "none" THEN <<>> ELSE <<Rel(c, 0, c.a), Rel(c, 2, c.a)>>)
                       \o [k \in DOMAIN c.calls |-> Rel(c, 3 + k, IF c.defect = "undef" THEN "undef" ELSE c.calls[k])]
    [] name = "tc" -> IF Pos(c.order, ".text") = 0 THEN <<>> ELSE <<Rel(c, 0, "g")>>
    [] OTHER -> <<>>

Section(name, type, exec, size, insns, target, rels) ==
  [name |-> name, type |-> type, exec |-> exec, size |-> size, insns |-> insns, target |-> target, rels |-> rels]

CodeNames == {".text", "xdp", "tc"}
PlainSection(name, size) == Section(name, "PROGBITS", FALSE, size, <<>>, 0, <<>>)

Sections(c) ==
  LET held(n) == IF n \in CodeNames
                 THEN Section(n, "PROGBITS", TRUE, 8 * Len(Code(c, n)) + (IF c.defect = "cut" THEN 4 ELSE 0), Code(c, n), 0, <<>>)
                 ELSE PlainSection(n, CASE n = "maps" -> IF c.defect = "uneven" THEN 47 ELSE 48
                                 [] n = ".maps" -> IF c.defect = "short" THEN 60 ELSE 64 [] OTHER -> 8)
      codes == SelectSeq(c.order, LAMBDA n : n \in CodeNames)
      rel(n) == Section(".rel", "REL", FALSE, 16, <<>>, Pos(c.order, n), Rels(c, n))
      symtab == Section(".symtab", "SYMTAB", FALSE, 24, <<>>, 0, <<>>)
  IN [k \in DOMAIN c.order |-> held(c.order[k])] \o [k \in DOMAIN codes |-> rel(codes[k])]
     \o (IF c.defect = "nosyms" THEN <<>> ELSE <<symtab>>) \o (IF c.defect = "twosyms" THEN <<symtab>> ELSE <<>>)
     \o <<PlainSection("version", IF c.defect = "version" THEN 8 ELSE 4), PlainSection("license", 4)>>
     \o (IF c.defect = "nobtf" THEN <<>> ELSE <<PlainSection(".BTF", 8), PlainSection(".BTF.ext", 8)>>)

File(c) ==
  [secs |-> Sections(c), syms |-> Symbols(c),
   vars |-> IF Pos(c.order, ".maps") = 0 THEN <<>> ELSE <<BtfVar("b2", 32, c.fields), BtfVar("b1", 0, Fields)>>,
   info |-> SelectSeq(<<[sec |-> "xdp", off |-> 0], [sec |-> "tc", off |-> 0], [sec |-> ".text", off |-> 0],
                        [sec |-> ".text", off |-> 24]>>, LAMBDA r : c.defect # "notextinfo" \/ r.sec # ".text"),
   btf_ok |-> c.defect # "badbtf", ext_ok |-> c.defect # "badext",
   caps |-> [global_data |-> c.defect # "nodata", btf_load |-> c.defect # "noload", btf_func |-> c.defect # "nofunc"]]

-----------------------------------------------------------------------------
(* The inputs *)

Orders == UNION {SetToSeqs({"xdp"} \cup S) : S \in SUBSET {".text", "tc", "maps", ".maps", ".data"}}
Targets(order) == {n \in {"m1", "m2"} : Pos(order, "maps") # 0} \cup {n \in {"b1", "b2"} : Pos(order, ".maps") # 0}
                  \cup {n \in {".data"} : Pos(order, ".data") # 0} \cup {"none"}
CallSeqs(order) == IF Pos(order, ".text") = 0 THEN {<<>>} ELSE {<<>>, <<"g">>, <<"f", "g">>}

TextTargets(order) ==
  IF Pos(order, ".text") = 0 THEN {"none"}
  ELSE IF Len(order) = 6 THEN {"b1", "m2"} ELSE Targets(order)

ElfLayouts ==
  UNION {[algo : {"elf"}, order : {o}, a : Targets(o), t : TextTargets(o),
          calls : CallSeqs(o), fields : {Fields}, defect : {"none"}] : o \in {q \in Orders : Len(q) \in {1, 2, 3, 6}}}

Standard == <<".text", "xdp", "tc", "maps", ".maps", ".data">>

\* A defect the loader must not overlook; the others only cost the object
\* something it can do without.
Fatal == {"unnamed", "globalvar", "undef", "cut", "uneven", "short", "nosyms", "twosyms", "version", "nobtf", "badbtf",
          "noload", "nodata", "extra", "notextinfo"}
Benign == {"badext", "nofunc"}

ElfDefects ==
  [algo : {"elf"}, order : {Standard}, a : {".data"}, t : {"m1"}, calls : {<<"f", "g">>}, fields : {Fields},
   defect : Fatal \cup Benign]

FieldSets == {<<[name |-> "type", val |-> 1], [name |-> "key_size", val |-> 4], [name |-> "key", val |-> k],
                [name |-> "pinning", val |-> p], [name |-> "value_size", val |-> 8]>> : k \in {4, 8}, p \in 0..2}
Shuffled(q) == {[k \in DOMAIN q |-> q[f[k]]] : f \in {g \in [DOMAIN q -> DOMAIN q] : \A x, y \in DOMAIN q : g[x] = g[y] => x = y}}

ElfFields ==
  [algo : {"elf"}, order : {Standard}, a : {"b2"}, t : {"none"}, calls : {<<>>}, defect : {"none"},
   fields : UNION {Shuffled(q) : q \in FieldSets}]

ElfInputs == ElfLayouts \cup ElfDefects \cup ElfFields

ElfNext == Compute("elf", LAMBDA c : OpenAndLoad(File(c), TRUE))

-----------------------------------------------------------------------------
(* Properties *)

Prog(name) == SelectInSeq(out.progs, LAMBDA p : p.sec = name)
Good == Is("elf") /\ out.file.err = "ok"

\* The instruction at i of p loads the map of the symbol n.
Loads(p, i, n) ==
  LET insn == p.insns[i + 1]
      k == insn.imm - MapFd(0)
  IN /\ k \in DOMAIN out.maps
     /\ out.maps[k].name = n
     /\ insn.src = IF n = ".data" THEN "MAP_VALUE" ELSE "MAP_FD"
     /\ n = ".data" => p.insns[i + 2].imm = VarOffset

\* Every load of a map or of a variable's map names, in the loaded program,
\* the map its symbol stood for, whichever sections hold the maps and in
\* whichever order the maps were found and sorted (bpf_program__collect_reloc,
\* bpf_program__relocate).
LoadsRight ==
  Good /\ Prog("xdp") # 0 /\ in.a # "none" => \A i \in {0, 2} : Loads(out.progs[Prog("xdp")], i, in.a)

\* The copies of .text inside the programs that call it have their loads
\* relocated exactly when .text precedes the caller in the file: the copy is
\* taken when the caller is relocated, and the programs are relocated in the
\* order of the file (bpf_program__reloc_text).  A caller that comes first is
\* given to the kernel with the loads of its copy as the compiler left them.
TextLoadsRight ==
  Good /\ in.t # "none" =>
    \A k \in DOMAIN out.progs :
      LET p == out.progs[k]
      IN p.main_cnt # 0 =>
           IF Pos(in.order, ".text") < Pos(in.order, p.sec) THEN Loads(p, p.main_cnt, in.t)
           ELSE SubSeq(p.insns, p.main_cnt + 1, p.main_cnt + 2) = SubSeq(Code(in, ".text"), 1, 2)

\* Every call lands on the first instruction of the function it names, in the
\* program's own copy of .text (bpf_program__reloc_text).
CallsRight ==
  Good => \A k \in DOMAIN out.progs :
    LET p == out.progs[k]
        calls == IF p.sec = "xdp" THEN in.calls
                 ELSE IF p.sec = "tc" /\ Pos(in.order, ".text") # 0 THEN <<"g">> ELSE <<>>
        first == IF p.sec = "xdp" THEN 4 ELSE 0
    IN \A j \in DOMAIN calls :
         first + j + p.insns[first + j].imm = p.main_cnt + FnStart[calls[j]]

\* The function records of a loaded program start at its functions, those of
\* .text shifted to its copy and no others (bpf_program_reloc_btf_ext).
InfoRight ==
  Good /\ out.file.ext # 0 =>
    \A k \in DOMAIN out.progs :
      LET p == out.progs[k]
      IN p.sec # ".text" =>
           p.func_info = <<0>> \o (IF p.main_cnt = 0 THEN <<>> ELSE <<p.main_cnt, p.main_cnt + FnStart["g"]>>)

\* A well-formed file loads in every layout, and a file with a defect that
\* changes what the program means never does (bpf_object__elf_collect and
\* bpf_object__collect_reloc).
AcceptsWellFormed ==
  Is("elf") => /\ in \in ElfLayouts \/ in.defect \in Benign => out.file.err = "ok"
               /\ in.defect \in Fatal => out.file.err # "ok"

\* The members of a BTF map definition mean the same in every order
\* (bpf_object__init_user_btf_map).
FieldOrder ==
  Is("elf") /\ in.a = "b2" /\ in.calls = <<>> /\ in.order = Standard /\ in.fields # Fields =>
    LET val(n) == in.fields[SelectInSeq(in.fields, LAMBDA f : f.name = n)].val
        ok == val("key") = val("key_size") /\ val("pinning") < 2
    IN /\ out.file.err = IF ok THEN "ok" ELSE "EINVAL"
       /\ ok => \E k \in DOMAIN out.maps : /\ out.maps[k].name = "b2"
                                           /\ out.maps[k].def = [NoDef EXCEPT !.type = 1, !.key_size = val("key"),
                                                 !.value_size = 8, !.pin = (val("pinning") = 1)]
==============================================================================
