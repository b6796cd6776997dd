------------------------------ MODULE CoreReloc ------------------------------
(***************************************************************************)
(* CO-RE relocations of libbpf.c: a field access that was compiled against *)
(* the local types is found again in the types of the running kernel, and  *)
(* the instruction's immediate operand patched.                            *)
(*                                                                         *)
(* A type is a record with a kind and a name.  A name is the sequence of   *)
(* its parts between the separators "___": <<>> is anonymous, and          *)
(* <<"s", "v2">> stands for s___v2.  A negative result is an error.         *)
(***************************************************************************)
EXTENDS Cases, Integers, SequencesExt, FiniteSets

CoreComposite == {"STRUCT", "UNION"}
CoreMods == {"CONST", "TYPEDEF"}

RECURSIVE skip_mods_and_typedefs(_, _)
skip_mods_and_typedefs(ts, id) ==
  IF ts[id].kind \in CoreMods THEN skip_mods_and_typedefs(ts, ts[id].type) ELSE id

\* btf__resolve_size; -1 for a type without size.
RECURSIVE CoreSize(_, _)
CoreSize(ts, id) ==
  LET t == ts[skip_mods_and_typedefs(ts, id)]
  IN CASE t.kind = "PTR" -> 8
       [] t.kind = "ARRAY" -> LET s == CoreSize(ts, t.type) IN IF s < 0 THEN s ELSE s * t.nelems
       [] t.kind \in {"FUNC", "FWD"} -> -1
       [] OTHER -> t.size

-----------------------------------------------------------------------------
(* Accessor specs.  spec is the sequence of named fields and array indices, *)
(* raw_len counts every step, bit_offset is where they lead.                *)

BPF_CORE_SPEC_MAX_LEN == 64

NoSpec == [spec |-> <<>>, raw_len |-> 0, bit_offset |-> 0, r |-> 1]

SpecError(s) == [s EXCEPT !.r = -1]
Accessor(id, idx, name) == [type |-> id, idx |-> idx, name |-> name]

\* One step of a raw spec; at is the type reached so far.
ParseStep(ts, a, idx) ==
  LET id == skip_mods_and_typedefs(ts, a.at)
      t == ts[id]
  IN CASE a.s.r < 0 -> a
       [] t.kind \in CoreComposite ->
            (IF idx >= Len(t.members) THEN [a EXCEPT !.s = SpecError(@)]
             ELSE LET m == t.members[idx + 1]
                  IN [at |-> m.type,
                      s |-> [a.s EXCEPT !.bit_offset = @ + m.off, !.raw_len = @ + 1,
                                        !.spec = IF m.name = "" THEN @ ELSE Append(@, Accessor(id, idx, m.name))]])
       [] t.kind = "ARRAY" ->
            (LET elem == skip_mods_and_typedefs(ts, t.type)
             IN IF idx >= t.nelems \/ CoreSize(ts, elem) < 0 THEN [a EXCEPT !.s = SpecError(@)]
                ELSE [at |-> elem,
                      s |-> [a.s EXCEPT !.bit_offset = @ + idx * CoreSize(ts, elem) * 8, !.raw_len = @ + 1,
                                        !.spec = Append(@, Accessor(elem, idx, ""))]])
       [] OTHER -> [a EXCEPT !.s = SpecError(@)]

bpf_core_spec_parse(ts, type_id, raw) ==
  LET id == skip_mods_and_typedefs(ts, type_id)
      first == [NoSpec EXCEPT !.spec = <<Accessor(id, raw[1], "")>>, !.raw_len = 1,
                              !.bit_offset = raw[1] * CoreSize(ts, id) * 8]
  IN IF Len(raw) > BPF_CORE_SPEC_MAX_LEN \/ CoreSize(ts, id) < 0 THEN SpecError(NoSpec)
     ELSE FoldLeft(LAMBDA a, idx : ParseStep(ts, a, idx), [at |-> id, s |-> first], Tail(raw)).s

\* The name without its flavor.
EssentialName(name) == IF Len(name) > 1 THEN Front(name) ELSE name

bpf_core_find_cands(lts, local_id, tts) ==
  SelectSeq([i \in DOMAIN tts |-> i],
            LAMBDA i : tts[i].name # <<>> /\ EssentialName(tts[i].name) = EssentialName(lts[local_id].name))

\* The bytes the C library's allocator has for a request.
MallocRoom(bytes) == Max({24, ((bytes + 23) \div 16) * 16 - 8})

\* The n-th id, of four bytes, is written into an allocation of n bytes.
CandsOverrun(cands) == \E n \in DOMAIN cands : 4 * n > MallocRoom(n)

RECURSIVE bpf_core_fields_are_compat(_, _, _, _)
bpf_core_fields_are_compat(lts, local_id, tts, targ_id) ==
  LET l == lts[skip_mods_and_typedefs(lts, local_id)]
      t == tts[skip_mods_and_typedefs(tts, targ_id)]
  IN \/ l.kind \in CoreComposite /\ t.kind \in CoreComposite
     \/ /\ l.kind = t.kind
        /\ CASE l.kind = "PTR" -> TRUE
             [] l.kind = "INT" -> l.offset = 0 /\ t.offset = 0
             [] l.kind \in {"FWD", "ENUM"} -> l.name = <<>> \/ t.name = <<>> \/ EssentialName(l.name) = EssentialName(t.name)
             [] l.kind = "ARRAY" -> bpf_core_fields_are_compat(lts, l.type, tts, t.type)
             [] OTHER -> FALSE

\* The member of a target type that has the accessor's name, looked for in
\* order and inside anonymous members.  A member of that name that is not
\* compatible ends the search, with the offset it had added still there.
RECURSIVE bpf_core_match_member(_, _, _, _, _)
bpf_core_match_member(lts, acc, tts, targ_id, s) ==
  LET id == skip_mods_and_typedefs(tts, targ_id)
      local == lts[acc.type].members[acc.idx + 1]
      try(a, i) ==
        LET m == tts[id].members[i]
            into == [a.s EXCEPT !.bit_offset = @ + m.off, !.raw_len = @ + 1]
        IN CASE a.done -> a
             [] a.s.raw_len = BPF_CORE_SPEC_MAX_LEN -> [a EXCEPT !.done = TRUE, !.s.r = -1]
             [] m.name = "" ->
                  (LET b == bpf_core_match_member(lts, acc, tts, m.type, into)
                   IN IF b.s.r # 0 THEN [b EXCEPT !.done = TRUE]
                      ELSE [b EXCEPT !.done = FALSE, !.s.bit_offset = @ - m.off, !.s.raw_len = @ - 1])
             [] m.name = local.name ->
                  (IF bpf_core_fields_are_compat(lts, local.type, tts, m.type)
                   THEN [done |-> TRUE, next |-> m.type,
                         s |-> [into EXCEPT !.spec = Append(@, Accessor(id, i - 1, m.name)), !.r = 1]]
                   ELSE [done |-> TRUE, next |-> m.type, s |-> [into EXCEPT !.r = 0]])
             [] OTHER -> a
      none == [done |-> FALSE, next |-> 0, s |-> [s EXCEPT !.r = 0]]
  IN IF tts[id].kind \notin CoreComposite THEN none
     ELSE FoldLeft(try, none, [i \in DOMAIN tts[id].members |-> i])

\* One accessor of the local spec in a target type.
MatchStep(lts, tts, a, acc, i) ==
  LET id == skip_mods_and_typedefs(tts, a.at)
      t == tts[id]
      elem == IF i = 1 THEN id ELSE skip_mods_and_typedefs(tts, t.type)
  IN CASE a.s.r <= 0 -> a
       [] acc.name # "" ->
            (LET b == bpf_core_match_member(lts, acc, tts, id, a.s) IN [at |-> b.next, s |-> b.s])
       [] i > 1 /\ (t.kind # "ARRAY" \/ (t.kind = "ARRAY" /\ acc.idx >= t.nelems)) -> [a EXCEPT !.s.r = 0]
       [] a.s.raw_len = BPF_CORE_SPEC_MAX_LEN \/ CoreSize(tts, elem) < 0 -> [a EXCEPT !.s.r = -1]
       [] OTHER -> [at |-> elem,
                    s |-> [a.s EXCEPT !.spec = Append(@, Accessor(elem, acc.idx, "")), !.raw_len = @ + 1,
                                      !.bit_offset = @ + acc.idx * CoreSize(tts, elem) * 8]]

bpf_core_spec_match(lts, local, tts, targ_id) ==
  FoldLeft(LAMBDA a, i : MatchStep(lts, tts, a, local.spec[i], i),
           [at |-> targ_id, s |-> NoSpec], [i \in DOMAIN local.spec |-> i]).s

-----------------------------------------------------------------------------
(* What an instruction is patched with *)

\* The aligned load of a bit field: the size of its type, doubled until the
\* field is within one unit.
Unit(bit_off, size) == ((bit_off \div 8) \div size) * size
LoadSizes(byte_sz) == {byte_sz} \cup {sz \in {2 * byte_sz, 4 * byte_sz, 8 * byte_sz} : sz <= 8}

BitfieldLoad(bit_off, bit_sz, byte_sz) ==
  LET fits == {sz \in LoadSizes(byte_sz) : bit_off + bit_sz - Unit(bit_off, sz) * 8 <= sz * 8}
  IN IF fits = {} THEN [off |-> 0, sz |-> -1] ELSE [off |-> Unit(bit_off, Min(fits)), sz |-> Min(fits)]

\* The value, -1 for an error, and whether the compiler must agree with it.
bpf_core_calc_field_relo(ts, s, kind) ==
  LET acc == Last(s.spec)
      m == ts[acc.type].members[acc.idx + 1]
      mt == ts[skip_mods_and_typedefs(ts, m.type)]
      bitfield == m.bits > 0
      load == IF bitfield THEN BitfieldLoad(s.bit_offset, m.bits, mt.size)
              ELSE [off |-> s.bit_offset \div 8, sz |-> CoreSize(ts, m.type)]
      bit_sz == IF bitfield THEN m.bits ELSE load.sz * 8
  IN IF acc.name = ""
     THEN [val |-> CASE kind = "BYTE_OFFSET" -> s.bit_offset \div 8
                     [] kind = "BYTE_SIZE" -> CoreSize(ts, acc.type)
                     [] OTHER -> -1,
           validate |-> TRUE]
     ELSE [val |-> CASE load.sz < 0 -> -1
                     [] kind = "BYTE_OFFSET" -> load.off
                     [] kind = "BYTE_SIZE" -> load.sz
                     [] kind = "SIGNED" -> (IF mt.kind = "ENUM" \/ (mt.kind = "INT" /\ mt.signed) THEN 1 ELSE 0)
                     [] kind = "LSHIFT_U64" -> 64 - (s.bit_offset + bit_sz - load.off * 8)
                     [] kind = "RSHIFT_U64" -> 64 - bit_sz
                     [] OTHER -> -1,
           validate |-> ~bitfield \/ kind \in {"SIGNED", "RSHIFT_U64"}]

Failed == -1
\* Stands for (__u32)-1, the operand of an access that has no target: the
\* verifier refuses the program if it can get there.
Poison == -2

\* The immediate operand after the relocation, or Failed.  relo.insn says
\* what is at relo.insn_off: "alu_k" takes an immediate operand, "alu_x" a
\* register, "ldx" is no arithmetic, "inside" is no start of an instruction.
bpf_core_reloc_insn(lts, local, tts, targ, found, relo) ==
  IF relo.insn # "alu_k" THEN Failed
  ELSE IF relo.kind = "EXISTS" THEN (IF relo.imm # 1 THEN Failed ELSE IF found THEN 1 ELSE 0)
  ELSE IF ~found THEN Poison
  ELSE LET orig == bpf_core_calc_field_relo(lts, local, relo.kind)
           new == bpf_core_calc_field_relo(tts, targ, relo.kind).val
       IN IF orig.val < 0 \/ new < 0 \/ (orig.validate /\ relo.imm # orig.val) THEN Failed ELSE new

-----------------------------------------------------------------------------
(* bpf_core_reloc_field: o carries the candidates cached for each local     *)
(* type, which a relocation prunes, and the operands patched so far.  After *)
(* a list has overrun its memory nothing is said of the rest.               *)

Matches(lts, local, tts, cands) == [i \in DOMAIN cands |-> bpf_core_spec_match(lts, local, tts, cands[i])]

PrunedCands_Always(cands, kept) == kept
PrunedCands(cands, kept) == IF kept = <<>> THEN cands ELSE kept

bpf_core_reloc_field(lts, tts, relaxed, o, relo) ==
  LET local == bpf_core_spec_parse(lts, relo.type, relo.raw)
      cands == IF relo.type \in DOMAIN o.cache THEN o.cache[relo.type] ELSE bpf_core_find_cands(lts, relo.type, tts)
      ms == Matches(lts, local, tts, cands)
      hits == SelectSeq([i \in DOMAIN ms |-> i], LAMBDA i : ms[i].r = 1)
      kept == [k \in DOMAIN hits |-> ms[hits[k]].spec[1].type]
      targ == IF hits = <<>> THEN NoSpec ELSE ms[hits[1]]
      ambiguous == \E k \in DOMAIN hits : ms[hits[k]].bit_offset # targ.bit_offset
      val == bpf_core_reloc_insn(lts, local, tts, targ, hits # <<>>, relo)
  IN CASE o.err \/ o.overrun -> o
       [] lts[relo.type].name = <<>> \/ local.r < 0 -> [o EXCEPT !.err = TRUE]
       [] CandsOverrun(cands) -> [o EXCEPT !.overrun = TRUE]
       [] \/ ambiguous \/ \E i \in DOMAIN ms : ms[i].r < 0
          \/ hits = <<>> /\ ~relaxed /\ relo.kind # "EXISTS" -> [o EXCEPT !.err = TRUE]
       [] val = Failed -> [o EXCEPT !.err = TRUE]
       [] OTHER -> [err |-> FALSE, overrun |-> FALSE, vals |-> Append(o.vals, val),
                    cache |-> [id \in DOMAIN o.cache \cup {relo.type} |->
                                 IF id = relo.type THEN PrunedCands(cands, kept) ELSE o.cache[id]]]

bpf_core_reloc_fields(lts, tts, relaxed, relos) ==
  FoldLeft(LAMBDA o, relo : bpf_core_reloc_field(lts, tts, relaxed, o, relo),
           [err |-> FALSE, overrun |-> FALSE, vals |-> <<>>, cache |-> <<>>], relos)

------------------------------------------------------------------------------
(***************************************************************************)
(* Local and kernel types for CoreReloc, with the fields of a struct, those *)
(* of its anonymous members included, as the reference.                    *)
(***************************************************************************)

Mem(name, type, off, bits) == [name |-> name, type |-> type, off |-> off, bits |-> bits]
U32 == [kind |-> "INT", name |-> <<"u32">>, size |-> 4, signed |-> FALSE, offset |-> 0]
S8 == [U32 EXCEPT !.name = <<"s8">>, !.size = 1, !.signed = TRUE]
OldBitfield == [U32 EXCEPT !.offset = 4]
Ptr == [kind |-> "PTR", name |-> <<>>]
Struct(name, size, members) == [kind |-> "STRUCT", name |-> name, size |-> size, members |-> members]
Arr(type, n) == [kind |-> "ARRAY", name |-> <<>>, type |-> type, nelems |-> n]

\* struct s___loc { u32 a; struct { u32 b; u32 arr[4]; }; struct in t; }
LocalTypes ==
  <<U32, S8, Arr(1, 4),
    Struct(<<>>, 20, <<Mem("b", 1, 0, 0), Mem("arr", 3, 32, 0)>>),
    Struct(<<"in">>, 8, <<Mem("x", 1, 0, 0), Mem("y", 2, 32, 0)>>),
    Struct(<<"s", "loc">>, 32, <<Mem("a", 1, 0, 0), Mem("", 4, 32, 0), Mem("t", 5, 192, 0)>>)>>

\* The kernel's s and s___2: a may have moved or become a byte, b may be
\* outside the anonymous struct, a pointer, an old kind of bit field, or gone,
\* arr may be shorter or longer.
Shape(name, f) ==
  Struct(name, 64,
    <<Mem("a", f.at, f.a, 0)>>
      \o (CASE f.b = "flat" -> <<Mem("b", 1, 64, 0)>>
            [] f.b = "anon" -> <<Mem("", 8, 96, 0)>>
            [] f.b = "ptr" -> <<Mem("", 7, 64, 0)>>
            [] f.b = "old" -> <<Mem("b", 11, 64, 0)>>
            [] f.b = "none" -> <<>>)
      \o <<Mem("arr", f.arr, 128, 0), Mem("t", 6, 384 + f.a, 0)>>)

\* c.more is the number of further types like the first, all candidates.
KernelTypes(c) ==
  <<U32, S8, Ptr, Arr(1, 2), Arr(1, 8),
    Struct(<<"in">>, 16, <<Mem("y", 2, 0, 0), Mem("z", 1, 32, 0), Mem("x", 1, 64, 0)>>),
    Struct(<<>>, 16, <<Mem("", 10, 0, 0), Mem("w", 1, 64, 0)>>),
    Struct(<<>>, 8, <<Mem("v", 1, 0, 0), Mem("b", 1, 32, 0)>>),
    [kind |-> "TYPEDEF", name |-> <<"u">>, type |-> 1],
    Struct(<<>>, 8, <<Mem("b", 3, 0, 0)>>), OldBitfield,
    Shape(<<"s">>, c.s1),
    IF c.s2.b = "func" THEN [kind |-> "FUNC", name |-> <<"s">>] ELSE Shape(<<"s", "2">>, c.s2)>>
  \o [k \in 1..c.more |-> Shape(<<"s", "3">>, c.s1)]
Candidates(c) == 12..(13 + c.more)

\* An access: the compiler's indices, and the names and indices they mean.
Accesses ==
  {[raw |-> <<0, 0>>, path |-> <<"a">>, idx |-> {}], [raw |-> <<0, 1, 0>>, path |-> <<"b">>, idx |-> {}],
   [raw |-> <<0, 1, 1, 3>>, path |-> <<"arr">>, idx |-> {3}], [raw |-> <<0, 2, 1>>, path |-> <<"t", "y">>, idx |-> {}]}
AccessA == CHOOSE x \in Accesses : x.path = <<"a">>
AccessB == CHOOSE x \in Accesses : x.path = <<"b">>
Kinds == {"BYTE_OFFSET", "BYTE_SIZE", "EXISTS", "SIGNED", "LSHIFT_U64", "RSHIFT_U64"}

Relo(access, kind, insn) ==
  [type |-> 6, raw |-> access.raw, kind |-> kind, insn |-> insn,
   imm |-> IF kind = "EXISTS" THEN 1
           ELSE bpf_core_calc_field_relo(LocalTypes, bpf_core_spec_parse(LocalTypes, 6, access.raw), kind).val]

\* Two accesses over many shapes; every aspect of a field whose size and sign
\* may have changed; instructions that cannot be patched; many candidates.
Shapes1 == [a : {0, 32}, at : {9}, b : {"flat", "anon", "ptr", "none"}, arr : {4, 5}]
Shapes2 == [a : {0}, at : {9}, b : {"flat", "anon", "none"}, arr : {4, 5}]
             \cup [a : {0}, at : {9}, b : {"func"}, arr : {4}]
FewShapes == [a : {0}, at : {2, 9}, b : {"flat", "old"}, arr : {4}]
CoreCase(S1, S2, uses, insns, mores) ==
  {[algo |-> "core", s1 |-> s1, s2 |-> s2, relaxed |-> rx, use |-> u, insn |-> n, more |-> m] :
     s1 \in S1, s2 \in S2, rx \in BOOLEAN, u \in [1..2 -> uses], n \in insns, m \in mores}
CoreInputs ==
  CoreCase(Shapes1, Shapes2, Accesses \X {"BYTE_OFFSET", "EXISTS"}, {"alu_k"}, {0})
    \cup CoreCase(FewShapes, FewShapes, {AccessA, AccessB} \X Kinds, {"alu_k"}, {0})
    \cup CoreCase(FewShapes, FewShapes, {AccessB} \X {"BYTE_OFFSET", "EXISTS"}, {"alu_x", "ldx", "inside"}, {0, 4, 5})

CoreNext ==
  Compute("core", LAMBDA c : bpf_core_reloc_fields(LocalTypes, KernelTypes(c), c.relaxed,
                                                   <<Relo(c.use[1][1], c.use[1][2], "alu_k"),
                                                     Relo(c.use[2][1], c.use[2][2], c.insn)>>))

\* A field a inside n anonymous structs, each a byte into the one around it.
NestedTypes(n) ==
  <<U32>> \o [k \in 1..(n + 1) |-> Struct(IF k = n + 1 THEN <<"s">> ELSE <<>>, 4 + n,
                                         IF k = 1 THEN <<Mem("a", 1, 0, 0)>> ELSE <<Mem("", k, 8, 0)>>)]
DeepInputs == [algo : {"deep"}, lt : {0, 1, 62, 63}, kt : {0, 1, 62, 63}]
DeepNext ==
  Compute("deep",
    LAMBDA c : bpf_core_reloc_fields(NestedTypes(c.lt), NestedTypes(c.kt), FALSE,
                 <<[type |-> c.lt + 2, raw |-> [k \in 1..(c.lt + 2) |-> 0], kind |-> "BYTE_OFFSET",
                    insn |-> "alu_k", imm |-> c.lt]>>))

\* Bit fields of a type of size bytes, anywhere in a struct.
BitsInputs == [algo : {"bits"}, off : 0..79, bits : 1..33, size : {1, 2, 4, 8}]
BitsTypes(c) ==
  <<[kind |-> "INT", name |-> <<"int">>, size |-> c.size, signed |-> FALSE, offset |-> 0],
    Struct(<<"s">>, 32, <<Mem("f", 1, c.off, c.bits)>>)>>
BitsNext ==
  Compute("bits",
    LAMBDA c : [k \in {"BYTE_OFFSET", "BYTE_SIZE", "LSHIFT_U64", "RSHIFT_U64"} |->
                  bpf_core_calc_field_relo(BitsTypes(c), bpf_core_spec_parse(BitsTypes(c), 2, <<0, 0>>), k).val])

-----------------------------------------------------------------------------
(* The reference *)

\* The named fields of a struct, wherever they are embedded.
RECURSIVE FieldsAt(_, _, _)
FieldsAt(ts, id, off) ==
  UNION {LET m == ts[id].members[i]
         IN IF m.name = "" THEN FieldsAt(ts, m.type, off + m.off)
            ELSE {[name |-> m.name, type |-> m.type, off |-> off + m.off]} : i \in DOMAIN ts[id].members}

RECURSIVE Locate(_, _, _, _)
Locate(ts, id, path, off) ==
  LET here == {f \in FieldsAt(ts, id, off) : f.name = Head(path)}
  IN IF Len(path) = 1 THEN here
     ELSE UNION {Locate(ts, f.type, Tail(path), f.off) : f \in {g \in here : ts[g.type].kind = "STRUCT"}}

\* The fields an access leads to in a kernel type: no pointer and no old kind
\* of bit field is taken for an integer and no index is past an array's end.
HitFields(ts, id, access) ==
  {g \in Locate(ts, id, access.path, 0) :
     /\ ts[g.type] \notin {Ptr, OldBitfield}
     /\ \A i \in access.idx : i < ts[g.type].nelems}
Hits(ts, id, access) ==
  {IF access.idx = {} THEN f.off ELSE f.off + 96 : f \in HitFields(ts, id, access)}

\* The kernel types an access of s___loc may mean; the ones that lack what an
\* earlier access used are no longer among them.
Meant(ts, cands, access) ==
  LET with == {id \in cands : Hits(ts, id, access) # {}} IN IF with = {} THEN cands ELSE with

-----------------------------------------------------------------------------
(* Properties *)

\* An access that is relocated reads the field of that name: its offset is the
\* one of every kernel type the access may mean, and the relocation fails when
\* they disagree on it.  Its size, sign and shifts are those of the first such
\* type; the others are not compared (bpf_core_reloc_field looks at bit_offset
\* alone).  EXISTS is 1 exactly when one of the types has the field.  The
\* relocation also fails when the field is nowhere and the program does not
\* allow that, when the name is also a function's, and when the instruction
\* cannot be patched.  All this up to six candidates: the list is grown by a
\* byte for each id of four, and the seventh overruns it.
FieldFound ==
  Is("core") =>
    LET ts == KernelTypes(in)
        has(S, access) == {id \in S : Hits(ts, id, access) # {}}
        offs(S, access) == UNION {Hits(ts, id, access) : id \in S}
        one == in.use[1]
        two == in.use[2]
        S0 == Candidates(in)
        S1 == Meant(ts, S0, one[1])
        bad(S, u) ==
          \/ Cardinality(offs(S, u[1])) > 1
          \/ offs(S, u[1]) = {} /\ u[2] # "EXISTS" /\ ~in.relaxed
        field(S, access) ==
          LET f == CHOOSE f \in HitFields(ts, Min(has(S, access)), access) : TRUE
          IN ts[IF f.type = 9 THEN 1 ELSE f.type]
        value(S, u) ==
          CASE u[2] = "EXISTS" -> IF offs(S, u[1]) = {} THEN 0 ELSE 1
            [] u[2] # "EXISTS" /\ offs(S, u[1]) = {} -> Poison
            [] u[2] = "BYTE_OFFSET" /\ offs(S, u[1]) # {} -> (CHOOSE o \in offs(S, u[1]) : TRUE) \div 8
            [] u[2] = "BYTE_SIZE" /\ offs(S, u[1]) # {} -> field(S, u[1]).size
            [] u[2] = "SIGNED" /\ offs(S, u[1]) # {} -> IF field(S, u[1]).signed THEN 1 ELSE 0
            [] u[2] \in {"LSHIFT_U64", "RSHIFT_U64"} /\ offs(S, u[1]) # {} -> 64 - 8 * field(S, u[1]).size
    IN CASE Cardinality(S0) > 6 -> out.overrun
         [] OTHER ->
              /\ ~out.overrun
              /\ IF in.s2.b = "func" \/ bad(S0, one) \/ bad(S1, two) \/ in.insn # "alu_k" THEN out.err
                 ELSE ~out.err /\ out.vals = <<value(S0, one), value(S1, two)>>

\* A field is found however deep it is nested in anonymous structs, as long as
\* the way to it has at most BPF_CORE_SPEC_MAX_LEN steps on either side; a
\* longer one fails the relocation.
DeepFound ==
  Is("deep") =>
    IF in.lt + 2 > 64 \/ in.kt + 2 > 64 THEN out.err ELSE ~out.err /\ out.vals = <<in.kt>>

\* The load and the two shifts that libbpf works out for a bit field leave
\* exactly its bits in the register, and the load is aligned.
BitfieldRead ==
  Is("bits") /\ out["BYTE_SIZE"] > 0 =>
    LET first == in.off - out["BYTE_OFFSET"] * 8
    IN /\ out["BYTE_OFFSET"] % out["BYTE_SIZE"] = 0
       /\ first >= 0 /\ first + in.bits <= out["BYTE_SIZE"] * 8
       /\ out["RSHIFT_U64"] = 64 - in.bits
       /\ out["LSHIFT_U64"] + first + in.bits = 64
==============================================================================
