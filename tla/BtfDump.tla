------------------------------- MODULE BtfDump -------------------------------
(***************************************************************************)
(* btf_dump__dump_type: types as C declarations.  The definitions a type   *)
(* needs are put in an order C accepts, forward declarations are added     *)
(* where an order cannot do, and members are padded to their offsets.      *)
(*                                                                         *)
(* A type is [kind, name, refs] with name "" for an anonymous one; d is    *)
(* [types, referenced, order, emit, fwd, queue, text]: text is what was    *)
(* printed so far, a sequence of events [what, id].                        *)
(***************************************************************************)
EXTENDS Cases, Integers, Sequences, FiniteSets, SequencesExt

Composite == {"STRUCT", "UNION"}
Mods == {"VOLATILE", "CONST", "RESTRICT"}

\* btf_dump_mark_referenced: the result of a function prototype is not
\* looked at.
btf_dump_mark_referenced(types) ==
  UNION {LET t == types[i] IN
         IF t.kind = "FUNC_PROTO" THEN Range(Tail(t.refs)) ELSE Range(t.refs) : i \in DOMAIN types}

btf_dump__new(types) ==
  [types |-> types, referenced |-> btf_dump_mark_referenced(types),
   order |-> [i \in DOMAIN types |-> "NOT_ORDERED"], emit |-> [i \in DOMAIN types |-> "NOT_EMITTED"],
   fwd |-> [i \in DOMAIN types |-> FALSE], queue |-> <<>>, text |-> <<>>]

-----------------------------------------------------------------------------
(* Ordering.  The answer is [d, r]: r is 1 for a strong link, 0 for a weak  *)
(* one, negative for a cycle no declaration can break.                     *)

Enqueue(d, id) == [d EXCEPT !.queue = Append(@, id)]
Ordered(d, id) == [d EXCEPT !.order[id] = "ORDERED"]

\* A named struct behind a pointer can be declared later.
Weak(t, through_ptr) == through_ptr /\ t.name # ""

RECURSIVE btf_dump_order_type(_, _, _)
btf_dump_order_type(d, id, through_ptr) ==
  LET t == d.types[id]
      \* the references, one after the other, until one fails
      all(e, refs, ptr) ==
        FoldLeft(LAMBDA a, ref : IF a.r < 0 THEN a
                                 ELSE LET x == btf_dump_order_type(a.d, ref, ptr)
                                      IN [d |-> x.d, r |-> IF x.r < 0 THEN x.r ELSE IF x.r > a.r THEN x.r ELSE a.r],
                 [d |-> e, r |-> 0], refs)
  IN CASE id = 0 \/ d.order[id] = "ORDERED" -> [d |-> d, r |-> 1]
       [] d.order[id] = "ORDERING" ->
            [d |-> d, r |-> IF t.kind \in Composite /\ Weak(t, through_ptr) THEN 0 ELSE -1]
       [] t.kind = "INT" -> [d |-> Ordered(d, id), r |-> 0]
       [] t.kind = "PTR" ->
            LET x == btf_dump_order_type(d, t.refs[1], TRUE) IN [d |-> Ordered(x.d, id), r |-> x.r]
       [] t.kind \in Mods \cup {"ARRAY"} -> btf_dump_order_type(d, t.refs[1], through_ptr)
       [] t.kind \in Composite ->
            (IF Weak(t, through_ptr) THEN [d |-> d, r |-> 0]
             ELSE LET x == all([d EXCEPT !.order[id] = "ORDERING"], t.refs, FALSE)
                  IN IF x.r < 0 THEN x
                     ELSE [d |-> Ordered(IF t.name # "" THEN Enqueue(x.d, id) ELSE x.d, id), r |-> 1])
       [] t.kind \in {"ENUM", "FWD"} ->
            [d |-> Ordered(IF t.name # "" \/ id \notin d.referenced THEN Enqueue(d, id) ELSE d, id), r |-> 1]
       [] t.kind = "TYPEDEF" ->
            LET x == btf_dump_order_type(d, t.refs[1], through_ptr)
            IN IF x.r < 0 \/ (through_ptr /\ x.r = 0) THEN x
               ELSE [d |-> Ordered(Enqueue(x.d, id), id), r |-> 1]
       [] t.kind = "FUNC_PROTO" -> all(d, t.refs, through_ptr)
       [] OTHER -> [d |-> Ordered(d, id), r |-> 0]

-----------------------------------------------------------------------------
(* Emission *)

Text(d, what, id) == [d EXCEPT !.text = Append(@, [what |-> what, id |-> id])]
Fwd(d, id) == [Text(d, "fwd", id) EXCEPT !.fwd[id] = TRUE]
SetEmit(d, id, s) == [d EXCEPT !.emit[id] = s]

NeedsFwd(d, id, cont) == ~d.fwd[id] /\ id # cont

RECURSIVE btf_dump_emit_type(_, _, _)
btf_dump_emit_type(d, id, cont) ==
  LET t == d.types[id]
      top == cont = 0
      all(e, refs, c) == FoldLeft(LAMBDA a, ref : btf_dump_emit_type(a, ref, c), e, refs)
  IN CASE id = 0 \/ d.emit[id] = "EMITTED" -> d
       [] d.emit[id] = "EMITTING" ->
            (IF d.fwd[id] THEN d
             ELSE IF t.kind \in Composite THEN (IF id = cont \/ t.name = "" THEN d ELSE Fwd(d, id))
             ELSE IF t.kind = "TYPEDEF" THEN [Text(d, "typedef", id) EXCEPT !.fwd[id] = TRUE] ELSE d)
       [] t.kind = "INT" -> SetEmit(d, id, "EMITTED")
       [] t.kind = "ENUM" -> SetEmit(IF top THEN Text(d, "def", id) ELSE d, id, "EMITTED")
       [] t.kind \in Mods \cup {"PTR", "ARRAY"} -> btf_dump_emit_type(d, t.refs[1], cont)
       [] t.kind = "FWD" -> SetEmit(Text(d, "fwd", id), id, "EMITTED")
       [] t.kind = "TYPEDEF" ->
            LET x == btf_dump_emit_type(SetEmit(d, id, "EMITTING"), t.refs[1], id)
            IN SetEmit(IF x.fwd[id] THEN x ELSE Text(x, "typedef", id), id, "EMITTED")
       [] t.kind \in Composite ->
            LET e == SetEmit(d, id, "EMITTING")
                x == IF top \/ t.name = "" THEN all(e, t.refs, IF t.name = "" THEN cont ELSE id)
                     ELSE IF NeedsFwd(e, id, cont) THEN Fwd(e, id) ELSE e
            IN IF top THEN SetEmit(Text(x, "def", id), id, "EMITTED") ELSE SetEmit(x, id, "NOT_EMITTED")
       [] t.kind = "FUNC_PROTO" -> all(d, t.refs, cont)
       [] OTHER -> d

\* btf_dump__dump_type
btf_dump__order(d, id) == btf_dump_order_type([d EXCEPT !.queue = <<>>], id, FALSE)
btf_dump__emit(d) == FoldLeft(LAMBDA e, id : btf_dump_emit_type(e, id, 0), d, d.queue)

-----------------------------------------------------------------------------
(* The body of a struct.  A member is [bits, size, align, off]: its width   *)
(* as a bit field or 0, the size and alignment of its type in bytes, its   *)
(* offset in bits.  The text is a sequence of [pad, bits, size, align].    *)

StructAlign(ms) == FoldLeft(LAMBDA a, m : IF m.align > a THEN m.align ELSE a, 1, ms)

btf_is_struct_packed(ms, size) ==
  \/ size % StructAlign(ms) # 0
  \/ \E k \in DOMAIN ms : ms[k].bits = 0 /\ ms[k].off % (8 * ms[k].align) # 0

\* Mutant: whole words first, the remainder last.
chip_away_bits_WordsFirst(total, most) == IF total < most THEN total ELSE most

chip_away_bits(total, most) == IF total % most # 0 THEN total % most ELSE most

RECURSIVE Pads(_)
Pads(gap) ==
  LET size == CASE gap > 32 -> 8 [] gap > 16 -> 4 [] gap > 8 -> 2 [] OTHER -> 1
      n == chip_away_bits(gap, 8 * size)
  IN IF gap <= 0 THEN <<>>
     ELSE <<[pad |-> TRUE, bits |-> n, size |-> size, align |-> size]>> \o Pads(gap - n)

btf_dump_emit_bit_padding(cur, off, bits, align) ==
  IF bits = 0 /\ off - cur < align * 8 THEN <<>> ELSE Pads(off - cur)

btf_dump_emit_struct_def(ms, size) ==
  LET packed == btf_is_struct_packed(ms, size)
      end(k) == IF k = 0 THEN 0 ELSE ms[k].off + (IF ms[k].bits # 0 THEN ms[k].bits ELSE 8 * ms[k].size)
      member(k) == btf_dump_emit_bit_padding(end(k - 1), ms[k].off, ms[k].bits, IF packed THEN 1 ELSE ms[k].align)
                   \o <<[pad |-> FALSE, bits |-> ms[k].bits, size |-> ms[k].size, align |-> ms[k].align]>>
  IN [packed |-> packed,
      decls |-> FlattenSeq([k \in DOMAIN ms |-> member(k)])
                \o btf_dump_emit_bit_padding(end(Len(ms)), size * 8, 0, IF packed THEN 1 ELSE StructAlign(ms))]

------------------------------------------------------------------------------
(***************************************************************************)
(* Type graphs and struct layouts for BtfDump, with C's rules as the       *)
(* reference: what must be declared before a use, and where a compiler     *)
(* puts the members of a declaration.                                      *)
(***************************************************************************)

\* An int, a struct A, a pointer, a struct B that may be anonymous, a typedef
\* and one more type; c gives what each refers to.
Graph(c) ==
  <<[kind |-> "INT", name |-> "int", refs |-> <<>>],
    [kind |-> "STRUCT", name |-> "A", refs |-> <<c.a1, c.a2>>],
    [kind |-> "PTR", name |-> "", refs |-> <<c.p>>],
    [kind |-> "STRUCT", name |-> c.bname, refs |-> <<c.b>>],
    [kind |-> "TYPEDEF", name |-> "T", refs |-> <<c.t>>],
    CASE c.k = "ARRAY" -> [kind |-> "ARRAY", name |-> "", refs |-> <<c.x>>]
      [] c.k = "PTR" -> [kind |-> "PTR", name |-> "", refs |-> <<c.x>>]
      [] c.k = "FUNC_PROTO" -> [kind |-> "FUNC_PROTO", name |-> "", refs |-> <<1, c.x>>]
      [] c.k = "ENUM" -> [kind |-> "ENUM", name |-> "E", refs |-> <<>>]
      [] c.k = "FWD" -> [kind |-> "FWD", name |-> "F", refs |-> <<>>]>>

Reach(steps, from) ==
  LET within[n \in 0 .. Len(steps)] ==
        IF n = 0 THEN from
        ELSE LET S == within[n - 1] IN S \cup UNION {steps[i] : i \in S}
  IN within[Len(steps)]

\* The steps that stay within one declaration: no compiler emits a cycle of
\* pointers, typedefs, arrays and anonymous structs alone, and the size of a
\* struct never depends on itself.
InlineSteps(ts) ==
  [i \in DOMAIN ts |-> IF ts[i].kind \notin Composite \/ ts[i].name = "" THEN Range(ts[i].refs) ELSE {}]
SizeSteps(ts) ==
  [i \in DOMAIN ts |-> IF ts[i].kind \in {"PTR", "FUNC_PROTO"} THEN {} ELSE Range(ts[i].refs)]

\* The types whose size a complete definition of i needs.
SizeNeeds(ts, i) == Reach(SizeSteps(ts), SizeSteps(ts)[i])

\* The types written out inside the declaration of i: behind a pointer those
\* of an anonymous struct, which needs its members complete.
InlineStrong(ts, i) ==
  LET written == Reach(InlineSteps(ts), Range(ts[i].refs))
      anon == {j \in written : ts[j].kind \in Composite /\ ts[j].name = ""}
  IN SizeNeeds(ts, i) \cup UNION {SizeNeeds(ts, j) : j \in anon}

\* Types that lead nowhere else are taken away until none is left.
Acyclic(steps) ==
  LET left[n \in 0 .. Len(steps)] ==
        IF n = 0 THEN DOMAIN steps
        ELSE LET D == left[n - 1] IN {i \in D : steps[i] \cap D # {}}
  IN left[Len(steps)] = {}

Realizable(ts) ==
  /\ Acyclic(InlineSteps(ts))
  /\ \A i \in DOMAIN ts : ts[i].kind = "ARRAY" => ts[ts[i].refs[1]].kind \notin {"FWD", "FUNC_PROTO"}
  /\ \A i \in DOMAIN ts : ts[i].kind \in Composite =>
        \A j \in SizeNeeds(ts, i) : ts[j].kind \notin {"FWD", "FUNC_PROTO"}
  /\ \A strong \in {[i \in DOMAIN ts |-> InlineStrong(ts, i)]} : Acyclic(strong)

GraphInputs ==
  {c \in [algo : {"dump"}, a1 : {3, 4, 5, 6}, a2 : {1, 4}, p : {2, 4, 5, 6}, bname : {"B", ""},
          b : {2, 3, 5, 6}, t : {2, 3, 4, 6}, k : {"ARRAY", "PTR", "FUNC_PROTO", "ENUM", "FWD"}, x : {2, 4, 5}] :
     (c.k \in {"ENUM", "FWD"} => c.x = 2) /\ Realizable(Graph(c))}

\* Every type is dumped in turn: pc is "start", then <<"order", i>> or
\* <<"emit", i>>.
GraphNext ==
  /\ in.algo = "dump"
  /\ \/ /\ pc = "start"
        /\ out' = [d |-> btf_dump__new(Graph(in)), id |-> 1, r |-> 0]
        /\ pc' = "order"
     \/ /\ pc = "order"
        /\ LET x == btf_dump__order(out.d, out.id)
           IN /\ out' = [out EXCEPT !.d = x.d, !.r = x.r]
              /\ pc' = IF x.r < 0 THEN "done" ELSE "emit"
     \/ /\ pc = "emit"
        /\ out' = [out EXCEPT !.d = btf_dump__emit(@), !.id = @ + 1]
        /\ pc' = IF out.id = Len(out.d.types) THEN "done" ELSE "order"
  /\ UNCHANGED in

-----------------------------------------------------------------------------
(* Struct layouts as a compiler makes them *)

RoundUp(n, to) == ((n + to - 1) \div to) * to

\* Where a declaration is placed when the bits before cur are taken.  A bit
\* field does not cross a unit of its type, unless the struct is packed.
Place(m, cur, packed) ==
  CASE m.bits # 0 ->
         (IF ~packed /\ cur \div (8 * m.size) # (cur + m.bits - 1) \div (8 * m.size) THEN RoundUp(cur, 8 * m.size) ELSE cur)
    [] OTHER -> RoundUp(cur, IF packed THEN 8 ELSE 8 * m.align)

Width(m) == IF m.bits # 0 THEN m.bits ELSE 8 * m.size

\* The offsets of the members and the size in bytes of a declaration.
CLayout(decls, packed) ==
  LET step(a, m) == LET o == Place(m, a.cur, packed)
                    IN [cur |-> o + Width(m), offs |-> IF m.pad THEN a.offs ELSE Append(a.offs, o)]
      end == FoldLeft(step, [cur |-> 0, offs |-> <<>>], decls)
      align == IF packed THEN 1 ELSE FoldLeft(LAMBDA a, m : IF ~m.pad /\ m.align > a THEN m.align ELSE a, 1, decls)
  IN [offs |-> end.offs, size |-> RoundUp(end.cur, 8 * align) \div 8]

\* Members as the programmer wrote them: a type, a width, and possibly an
\* alignment attribute, which BTF does not record.
MemberTypes == {[bits |-> 0, size |-> s, align |-> a] : s \in {1, 2, 4, 8}, a \in {1, 2, 4, 8, 16}}
Written == {m \in MemberTypes : m.align = m.size \/ m.align = 16 \/ (m.align = 8 /\ m.size = 4)}
             \cup {[bits |-> b, size |-> 4, align |-> 4] : b \in {3, 14, 30}} \cup {[bits |-> 40, size |-> 8, align |-> 8]}

LayoutInputs == [algo : {"layout"}, ms : BoundedSeq(Written, 3), packed : BOOLEAN]

\* What BTF says of it.
Compiled(c) ==
  LET decls == [k \in DOMAIN c.ms |-> [pad |-> FALSE, bits |-> c.ms[k].bits, size |-> c.ms[k].size, align |-> c.ms[k].align]]
      l == CLayout(decls, c.packed)
  IN [ms |-> [k \in DOMAIN c.ms |-> [bits |-> c.ms[k].bits, size |-> c.ms[k].size, align |-> c.ms[k].size, off |-> l.offs[k]]],
      size |-> l.size]

LayoutNext == Compute("layout", LAMBDA c : btf_dump_emit_struct_def(Compiled(c).ms, Compiled(c).size))

-----------------------------------------------------------------------------
(* Properties *)

\* When the event at place n is printed, the type j is complete, or at least
\* declared.
Before(n, what, j) == \E k \in 1..(n - 1) : out.d.text[k] = [what |-> what, id |-> j]

\* C accepts the text: a struct is defined when all whose size it needs are
\* defined, a name that is written was declared before, and nothing is defined
\* twice (btf_dump_order_type, btf_dump_emit_type).
DeclaredBeforeUse ==
  Is("dump") =>
    LET ts == out.d.types
        text == out.d.text
        written(i) == Reach(InlineSteps(ts), Range(ts[i].refs))
    IN /\ out.r >= 0
       /\ \A n, k \in DOMAIN text : text[n] = text[k] => n = k
       /\ \A i \in DOMAIN ts : ts[i].name # "" /\ ts[i].kind \in Composite \cup {"TYPEDEF", "ENUM", "FWD"} =>
            \E n \in DOMAIN text : text[n].id = i /\ (ts[i].kind \in Composite => text[n].what = "def")
       /\ \A n \in DOMAIN text : text[n].what = "def" /\ ts[text[n].id].kind \in Composite =>
            /\ \A j \in InlineStrong(ts, text[n].id) : ts[j].kind \in Composite /\ ts[j].name # "" => Before(n, "def", j)
            /\ \A j \in written(text[n].id) : ts[j].kind = "TYPEDEF" => Before(n, "typedef", j)
       /\ \A n \in DOMAIN text : \A j \in written(text[n].id) \ {text[n].id} :
            text[n].what # "fwd" /\ ts[j].kind \in Composite /\ ts[j].name # "" => Before(n, "fwd", j) \/ Before(n, "def", j)

\* A bit field of the struct lies across two units of its type.
Crosses(ms) ==
  \E k \in DOMAIN ms :
    ms[k].bits # 0 /\ ms[k].off \div (8 * ms[k].size) # (ms[k].off + ms[k].bits - 1) \div (8 * ms[k].size)

\* The C text of a struct, compiled again, puts every member at its offset and
\* gives the struct its size (btf_dump_emit_struct_def), except in one case:
\* a packed struct whose only unnatural members are bit fields across two
\* units is not recognised, as btf_is_struct_packed passes over bit fields.
LayoutKept ==
  Is("layout") /\ (Crosses(Compiled(in).ms) => out.packed) =>
    LET l == CLayout(out.decls, out.packed)
    IN /\ l.offs = [k \in DOMAIN in.ms |-> Compiled(in).ms[k].off]
       /\ l.size = Compiled(in).size

------------------------------------------------------------------------------
(***************************************************************************)
(* btf_dump_emit_type_decl: a chain of BTF types as a C declarator, and    *)
(* the names btf_dump gives to types that share one.                       *)
(*                                                                         *)
(* A chain is a sequence of links, the declared type first and the         *)
(* terminal type last: [k |-> "PTR"], a modifier, "ARRAY", "FUNC_PROTO"    *)
(* with the chains of its parameters in ps, or "INT", or "VOID".  Text is  *)
(* a sequence of tokens; the tokens of an argument list are one token.     *)
(***************************************************************************)

DeclMods == {"VOLATILE", "CONST", "RESTRICT"}
Tok(t) == [tok |-> t]

\* btf_dump_emit_mods: the modifiers on top of the stack, which end the chain
\* s; their number.
RECURSIVE btf_dump_emit_mods(_)
btf_dump_emit_mods(s) ==
  IF s # <<>> /\ Last(s).k \in DeclMods THEN 1 + btf_dump_emit_mods(Front(s)) ELSE 0

TopMods(s) == [i \in 1..btf_dump_emit_mods(s) |-> Tok(s[Len(s) - i + 1].k)]
Drop(s) == SubSeq(s, 1, Len(s) - btf_dump_emit_mods(s))

\* No parentheses for a multi-dimensional array.
Parens(rest) == Last(rest).k # "ARRAY"

RECURSIVE btf_dump_emit_type_chain(_)
btf_dump_emit_type_chain(s) ==
  LET top == Last(s)
      rest == Front(s)
      left == Drop(rest)
      in_parens(t) == <<Tok("(")>> \o btf_dump_emit_type_chain(t) \o <<Tok(")")>>
      \* one void parameter is no parameter, the last of several is an ellipsis
      args(ps) == IF Len(ps) = 1 /\ ps[1][1].k = "VOID" THEN <<>>
                  ELSE [i \in DOMAIN ps |-> IF i = Len(ps) /\ ps[i][1].k = "VOID" THEN <<Tok("...")>>
                                            ELSE btf_dump_emit_type_chain(ps[i])]
  IN IF s = <<>> THEN <<Tok("NAME")>>
     ELSE CASE top.k \in {"INT", "VOID"} -> TopMods(rest) \o <<Tok(top.k)>> \o btf_dump_emit_type_chain(left)
            [] top.k \in DeclMods \cup {"PTR"} -> <<Tok(top.k)>> \o btf_dump_emit_type_chain(rest)
            [] top.k = "ARRAY" ->
                 (CASE left = <<>> -> <<Tok("NAME")>>
                    [] left # <<>> /\ Parens(left) -> in_parens(left)
                    [] OTHER -> btf_dump_emit_type_chain(left)) \o <<Tok("[]")>>
            [] top.k = "FUNC_PROTO" ->
                 TopMods(rest) \o (IF left = <<>> THEN <<Tok("NAME")>> ELSE in_parens(left))
                   \o <<[tok |-> "()", args |-> args(top.ps)]>>

-----------------------------------------------------------------------------
(* Names.  A type to be named is [id, orig, space]; dups counts the uses of *)
(* a name in a space, cached is the name a type was given.  A name is what  *)
(* is printed: <<"a">> is a, <<"a", 2>> is a___2, whether a type has it or  *)
(* it was made up, and <<"l", 0>> is l cut at 255 characters.              *)

Long == {<<"l">>}

\* "%s___%zu" into new_name[256]
NewName(orig, dup_cnt) == Append(orig, IF orig \in Long THEN 0 ELSE dup_cnt)

\* Typedefs and enumerators share one, struct, union and enum tags the other.
NameSpace(t) == IF t.space = "tag" THEN "type_names" ELSE "ident_names"

\* btf_dump_name_dups: the number of uses so far, this one included.
btf_dump_name_dups(d, space, orig) == d.dups[space][orig] + 1

\* An enumerator has no id, and is counted each time it is printed.
btf_dump_resolve_name(d, t) ==
  LET n == btf_dump_name_dups(d, NameSpace(t), t.orig)
      counted == [d EXCEPT !.dups[NameSpace(t)][t.orig] = n]
      name == IF n > 1 THEN NewName(t.orig, n) ELSE t.orig
  IN IF t.space # "enumerator" /\ d.cached[t.id] # <<>> THEN d
     ELSE IF t.space = "enumerator" THEN [counted EXCEPT !.printed = @ \cup {<<t.id, name>>}]
     ELSE [counted EXCEPT !.cached[t.id] = name]

------------------------------------------------------------------------------
(***************************************************************************)
(* Type chains and names for BtfDecl, with C's grammar of declarators as   *)
(* the reference.                                                          *)
(***************************************************************************)

Link(k) == [k |-> k]
Params == {<<>>, <<<<Link("VOID")>>>>, <<<<Link("INT")>>, <<Link("VOID")>>>>,
           <<<<Link("PTR"), Link("CONST"), Link("INT")>>>>,
           <<<<Link("PTR"), [k |-> "FUNC_PROTO", ps |-> <<>>], Link("INT")>>>>}
Protos == {[k |-> "FUNC_PROTO", ps |-> ps] : ps \in Params}

\* A function returns neither a function nor an array, an array holds no
\* functions and nothing void, and only pointers and terminals are modified.
May(a, b) ==
  CASE a.k = "FUNC_PROTO" -> b.k \notin {"FUNC_PROTO", "ARRAY"}
    [] a.k = "ARRAY" -> b.k \notin {"FUNC_PROTO", "VOID"}
    [] a.k \in DeclMods -> b.k \in {"PTR", "INT", "VOID"} \cup DeclMods /\ a.k # b.k
    [] a.k = "PTR" -> TRUE

Extend(S) == {<<a>> \o s : a \in {Link("PTR"), Link("ARRAY"), Link("CONST"), Link("VOLATILE")} \cup Protos, s \in S}
Valid(S) == {s \in S : May(s[1], s[2])}
Chains(n) ==
  FoldLeft(LAMBDA S, k : S \cup Valid(Extend(S)), {<<Link("INT")>>, <<Link("VOID")>>}, [k \in 1..n |-> k])

DeclInputs == {[algo |-> "decl", chain |-> s] : s \in Chains(4) \ {<<Link("VOID")>>}}

DeclNext == Compute("decl", LAMBDA c : btf_dump_emit_type_chain(c.chain))

\* The types that are named and the order in which they are mentioned: some
\* share a name, one has the form that is made up for others, some are long.
Tag(i, orig) == [id |-> i, orig |-> orig, space |-> "tag"]
Named == {Tag(1, <<"a">>), Tag(2, <<"a">>), Tag(8, <<"a", 2>>),
          [id |-> 3, orig |-> <<"a">>, space |-> "typedef"], [id |-> 4, orig |-> <<"b">>, space |-> "typedef"],
          [id |-> 5, orig |-> <<"b">>, space |-> "typedef"], [id |-> 6, orig |-> <<"b">>, space |-> "enumerator"],
          [id |-> 7, orig |-> <<"a">>, space |-> "enumerator"]}
LongNamed == {Tag(i, <<"l">>) : i \in 9..11}
NameInputs ==
  {[algo |-> "names", mentions |-> s] : s \in BoundedSeq(LongNamed, 3) \cup {m \in BoundedSeq(Named, 4) :
     \A i, j \in DOMAIN m : m[i] = m[j] /\ m[i].space = "enumerator" => i = j}}

NoNames ==
  [dups |-> [sp \in {"type_names", "ident_names", "tag", "typedef", "enumerator"} |->
               [o \in {<<"a">>, <<"b">>, <<"a", 2>>, <<"l">>} |-> 0]],
   cached |-> [i \in 1..11 |-> <<>>], printed |-> {}]

NameNext == Compute("names", LAMBDA c : FoldLeft(btf_dump_resolve_name, NoNames, c.mentions))

-----------------------------------------------------------------------------
(* The reference: what a C compiler makes of the tokens.  A link with the   *)
(* set of its modifiers, parameters as such links.                         *)

RECURSIVE Qualified(_)
Qualified(s) ==
  LET q == Cardinality({i \in DOMAIN s : \A j \in 1..i : s[j].k \in DeclMods})
      t == s[q + 1]
      this == [k |-> t.k, quals |-> {s[i].k : i \in 1..q},
               ps |-> IF t.k = "FUNC_PROTO"
                      THEN [i \in DOMAIN t.ps |-> Qualified(t.ps[i])] ELSE <<>>]
  IN IF q + 1 = Len(s) THEN <<this>> ELSE <<this>> \o Qualified(SubSeq(s, q + 2, Len(s)))

Skip(s, n) == SubSeq(s, n + 1, Len(s))
Quals(s) == Cardinality({i \in DOMAIN s : \A j \in 1..i : s[j].tok \in DeclMods})
QualSet(s) == {s[i].tok : i \in 1..Quals(s)}

\* A declarator: the links from the name outwards, and the tokens left.
RECURSIVE Declarator(_), DeclSuffixes(_), Declaration(_)
Declarator(s) ==
  IF s[1].tok = "PTR"
  THEN LET r == Tail(s)
           d == Declarator(Skip(r, Quals(r)))
       IN [links |-> d.links \o <<[k |-> "PTR", quals |-> QualSet(r), ps |-> <<>>]>>, rest |-> d.rest]
  ELSE LET d == IF s[1].tok = "NAME" THEN [links |-> <<>>, rest |-> Tail(s)]
                ELSE LET e == Declarator(Tail(s)) IN [e EXCEPT !.rest = Tail(@)]
           f == DeclSuffixes(d.rest)
       IN [links |-> d.links \o f.links, rest |-> f.rest]
DeclSuffixes(s) ==
  IF s = <<>> \/ s[1].tok \notin {"[]", "()"} THEN [links |-> <<>>, rest |-> s]
  ELSE LET this == IF s[1].tok = "[]" THEN [k |-> "ARRAY", quals |-> {}, ps |-> <<>>]
                   ELSE [k |-> "FUNC_PROTO", quals |-> {},
                         ps |-> [i \in DOMAIN s[1].args |->
                                   IF s[1].args[i][1].tok = "..." THEN <<[k |-> "VOID", quals |-> {}, ps |-> <<>>]>>
                                   ELSE Declaration(s[1].args[i])]]
           f == DeclSuffixes(Tail(s))
       IN [links |-> <<this>> \o f.links, rest |-> f.rest]
Declaration(s) ==
  LET d == Declarator(Skip(s, Quals(s) + 1))
  IN d.links \o <<[k |-> s[Quals(s) + 1].tok, quals |-> QualSet(s), ps |-> <<>>]>>

\* One void parameter stands for none.
NoVoid(links) ==
  [i \in DOMAIN links |-> IF Len(links[i].ps) = 1 /\ links[i].ps[1][1].k = "VOID"
                          THEN [links[i] EXCEPT !.ps = <<>>] ELSE links[i]]

-----------------------------------------------------------------------------
(* Properties *)

\* A C compiler reads the declaration that btf_dump prints for a type as that
\* very type: pointers to arrays and arrays of pointers, functions that return
\* function pointers, and what a const applies to are told apart.
ParsesBack == Is("decl") => Declaration(out) = NoVoid(Qualified(in.chain))

\* Two types of one name space of C are printed with one name in two cases
\* only, which btf_dump_resolve_name does not see because a name it makes up is
\* not counted: the name made up for one is the other's own (struct a, a and
\* a___2), or both were made up from a name too long for the suffix.
NamesDistinct ==
  Is("names") =>
    LET named == {<<t, IF t.space = "enumerator" THEN (CHOOSE p \in out.printed : p[1] = t.id)[2] ELSE out.cached[t.id]>>
                  : t \in {in.mentions[i] : i \in DOMAIN in.mentions}}
        csp(t) == IF t.space = "tag" THEN "tag" ELSE "ordinary"
        own(x) == x[2] = x[1].orig
    IN \A x, y \in named :
         csp(x[1]) = csp(y[1]) /\ x[2] = y[2] /\ x[1] # y[1] =>
           own(x) # own(y) \/ (~own(x) /\ x[1].orig = y[1].orig /\ x[1].orig \in Long)
==============================================================================
