------------------------------- MODULE BtfData -------------------------------
(***************************************************************************)
(* Reading BTF, btf.c: the table of types, the queries on it, the data     *)
(* sections, and the sections of .BTF.ext.  Data is a sequence of words; a *)
(* word that means something is a record, others are what they hold.       *)
(***************************************************************************)
EXTENDS Cases, Integers, SequencesExt, FiniteSets, FiniteSetsExt

BaseWords == 3     \* sizeof(struct btf_type) / 4

\* The words of a type, by its kind and number of members; 0 if unsupported.
btf_type_size(t) ==
  CASE t.kind \in {"FWD", "CONST", "VOLATILE", "RESTRICT", "PTR", "TYPEDEF", "FUNC"} -> BaseWords
    [] t.kind \in {"INT", "VAR"} -> BaseWords + 1
    [] t.kind \in {"ENUM", "FUNC_PROTO"} -> BaseWords + 2 * t.vlen
    [] t.kind = "ARRAY" -> BaseWords + 3
    [] t.kind \in {"STRUCT", "UNION", "DATASEC"} -> BaseWords + 3 * t.vlen
    [] OTHER -> 0

MaxOf(a, b) == IF a > b THEN a ELSE b
MinOf(a, b) == IF a < b THEN a ELSE b

\* The table grows by a quarter, at least 16, up to max; slot 0 is void.  top
\* is the largest index written, next to the size the table had then.
btf_add_type(tab, t, max) ==
  LET full == tab.size - tab.nr < 2
      size == IF full THEN MinOf(max, tab.size + MaxOf(tab.size \div 4, 16)) ELSE tab.size
  IN IF full /\ tab.size = max THEN [tab EXCEPT !.err = TRUE]
     ELSE [tab EXCEPT !.size = size, !.nr = @ + 1, !.types = Append(@, t), !.over = @ \/ tab.nr + 1 >= size]

NoTypes == [size |-> 0, nr |-> 0, types |-> <<>>, err |-> FALSE, over |-> FALSE]

\* A pass of the loop of btf_parse_type_sec takes the type at word at.
btf_parse_type_sec(p, words, max) ==
  LET n == btf_type_size(words[p.at])
  IN IF n = 0 THEN [p EXCEPT !.tab.err = TRUE]
     ELSE [at |-> p.at + n, tab |-> btf_add_type(p.tab, words[p.at], max)]

-----------------------------------------------------------------------------
(* Queries.  ts is the table, id 0 is void.  The two limits are scaled down: *)
(* 32 modifiers, and 2^32 - 1.                                              *)

MAX_RESOLVE_DEPTH == 8
UMax == 255

VoidOrNull(ts, id) == id = 0 \/ id > Len(ts) \/ (id \in 1..Len(ts) /\ ts[id].kind = "FWD")

Sized == {"INT", "STRUCT", "UNION", "ENUM", "DATASEC"}
PtrSize == 8
Through == {"TYPEDEF", "VOLATILE", "CONST", "RESTRICT", "VAR"}

\* One pass of the loop: a.size is -1 until a type with a size is reached.
SizePass_Unchecked(ts, a) ==
  IF a.stop \/ VoidOrNull(ts, a.id) THEN [a EXCEPT !.stop = TRUE]
  ELSE LET t == ts[a.id]
       IN CASE t.kind \in Sized -> [a EXCEPT !.stop = TRUE, !.size = t.size]
            [] t.kind = "PTR" -> [a EXCEPT !.stop = TRUE, !.size = PtrSize]
            [] t.kind \in Through -> [a EXCEPT !.id = t.type]
            [] t.kind = "ARRAY" -> [a EXCEPT !.id = t.type, !.nelems = (@ * t.nelems) % (UMax + 1)]
            [] OTHER -> [a EXCEPT !.stop = TRUE]
SizePass(ts, a) ==
  IF a.stop \/ VoidOrNull(ts, a.id) THEN [a EXCEPT !.stop = TRUE]
  ELSE LET t == ts[a.id]
       IN CASE t.kind \in Sized -> [a EXCEPT !.stop = TRUE, !.size = t.size]
            [] t.kind = "PTR" -> [a EXCEPT !.stop = TRUE, !.size = PtrSize]
            [] t.kind \in Through -> [a EXCEPT !.id = t.type]
            [] t.kind = "ARRAY" ->
                 (IF a.nelems # 0 /\ t.nelems > UMax \div a.nelems THEN [a EXCEPT !.stop = TRUE]
                  ELSE [a EXCEPT !.id = t.type, !.nelems = @ * t.nelems])
            [] OTHER -> [a EXCEPT !.stop = TRUE]

\* The size, or -1.
btf__resolve_size(ts, id) ==
  LET after[n \in 0..MAX_RESOLVE_DEPTH] ==
        IF n = 0 THEN [id |-> id, nelems |-> 1, size |-> -1, stop |-> FALSE]
        ELSE LET a == after[n - 1] IN SizePass(ts, a)
      a == after[MAX_RESOLVE_DEPTH]
  IN IF a.size < 0 \/ (a.nelems # 0 /\ a.size > UMax \div a.nelems) THEN -1 ELSE a.nelems * a.size

\* The type behind modifiers, or -1.
btf__resolve_type(ts, id) ==
  LET through(i) == ~VoidOrNull(ts, i) /\ ts[i].kind \in Through
      after[n \in 0..MAX_RESOLVE_DEPTH] ==
        IF n = 0 THEN [id |-> id, depth |-> 0]
        ELSE LET a == after[n - 1]
             IN IF through(a.id) THEN [id |-> ts[a.id].type, depth |-> a.depth + 1] ELSE a
      a == after[MAX_RESOLVE_DEPTH]
  IN IF a.depth = MAX_RESOLVE_DEPTH \/ VoidOrNull(ts, a.id) THEN -1 ELSE a.id

\* The first type of a name, of whatever kind, or -1.
btf__find_by_name(ts, name) ==
  LET i == SelectInSeq(ts, LAMBDA t : t.name = name)
  IN CASE name = "void" -> 0 [] name # "void" /\ i > 0 -> i [] OTHER -> -1

\* The container of a map is named after it, in a buffer of max_name bytes: a
\* longer name is cut, and only one that is a single byte too long is noticed,
\* since snprintf tells the length the name would have.
max_name == 256
PrefixLen == 12
ContainerName(map) == IF map.len + PrefixLen < max_name THEN map.name ELSE map.cut

\* The key and value types of a map from the members of its container struct,
\* <<>> if there is none or the sizes are not the map's.
btf__get_map_kv_tids(ts, map, key_size, value_size) ==
  LET id == btf__find_by_name(ts, ContainerName(map))
  IN IF map.len + PrefixLen = max_name \/ id < 0 THEN <<>>
     ELSE IF ts[id].kind # "STRUCT" \/ Len(ts[id].members) < 2 THEN <<>>
     ELSE LET k == ts[id].members[1]
              v == ts[id].members[2]
          IN IF btf__resolve_size(ts, k) = key_size /\ btf__resolve_size(ts, v) = value_size
             THEN <<k, v>> ELSE <<>>

-----------------------------------------------------------------------------
(* A data section: the offsets of global variables come from the symbol     *)
(* table, those of static ones are the compiler's, and the kernel wants     *)
(* them sorted.  Variables of one offset stay in some order.                *)

SortByOff(dvars) ==
  SortSeq(dvars, LAMBDA a, b : a.off < b.off)

\* <<>> when an entry is no variable, or a global one has no symbol.
btf_fixup_datasec(dvars, symbols) ==
  IF \E i \in DOMAIN dvars : ~dvars[i].var \/ (~dvars[i].static /\ dvars[i].name \notin DOMAIN symbols) THEN <<>>
  ELSE SortByOff([i \in DOMAIN dvars |->
                    IF dvars[i].static THEN dvars[i] ELSE [dvars[i] EXCEPT !.off = symbols[dvars[i].name]]])

-----------------------------------------------------------------------------
(* .BTF.ext: a word with the record size, then for each section two words   *)
(* of header, name and number of records, and the records.                  *)

SecHdrWords == 2

\* The walk of btf_ext_setup_info, which accepts what the sections fill
\* exactly; every pass skips a section.
SetupPass(words, a) ==
  IF a.bad \/ a.left = 0 THEN a
  ELSE IF a.left < SecHdrWords THEN [a EXCEPT !.bad = TRUE]
  ELSE LET sec == words[Len(words) - a.left + 1]
           total == SecHdrWords + sec.num * words[1]
       IN IF sec.num = 0 \/ a.left < total THEN [a EXCEPT !.bad = TRUE] ELSE [a EXCEPT !.left = @ - total]

\* place tells what the words cannot: a start that is not "aligned", an end
\* "beyond" the section, or a record size that is not one of "words".
btf_ext_setup_info(words, place, min_rec_size) ==
  \/ words = <<>>
  \/ /\ place = "good"
     /\ Len(words) > 1
     /\ words[1] >= min_rec_size
     /\ ~FoldLeft(LAMBDA a, w : SetupPass(words, a), [left |-> Len(words) - 1, bad |-> FALSE], words).bad

\* btf_ext__new: what the header is too short to describe is not looked at.
\* The result is what is kept of each kind, <<>> where there is none, or "bad".
btf_ext__new(e) ==
  LET described == IF ~e.lines THEN {} ELSE IF ~e.relocs THEN {"func", "line"} ELSE {"func", "line", "reloc"}
  IN IF e.nodata \/ \E k \in described : ~btf_ext_setup_info(e[k], e.place[k], 2) THEN [ok |-> FALSE]
     ELSE [ok |-> TRUE, func |-> IF "func" \in described THEN e.func ELSE <<>>,
           line |-> IF "line" \in described THEN e.line ELSE <<>>,
           reloc |-> IF "reloc" \in described THEN e.reloc ELSE <<>>]

\* btf_ext_reloc_info appends the records of a section, with the offsets of
\* their instructions moved behind the insns_cnt that are there already.
RelocPass(words, sec_name, a) ==
  IF a.at = 0 \/ a.at > Len(words) THEN [a EXCEPT !.at = 0]
  ELSE IF a.found \/ words[a.at].sec = sec_name THEN [a EXCEPT !.found = TRUE]
  ELSE [a EXCEPT !.at = @ + SecHdrWords + words[a.at].num * words[1]]

btf_ext_reloc_info(words, sec_name, insns_cnt, existing) ==
  LET a == FoldLeft(LAMBDA b, w : RelocPass(words, sec_name, b), [at |-> 2, found |-> FALSE], words)
      record(k) == LET first == a.at + SecHdrWords + (k - 1) * words[1]
                   IN <<words[first] \div 8 + insns_cnt>> \o SubSeq(words, first + 1, first + words[1] - 1)
  IN IF ~a.found THEN existing
     ELSE existing \o [k \in 1..words[a.at].num |-> record(k)]

-----------------------------------------------------------------------------
(* btf__get_from_id: the kernel is asked with a buffer of default words and *)
(* again with one of the size it answered; c says what the kernel has and   *)
(* which calls fail.  The result is the data, or <<>>.                      *)

Filled(buf, data) == [i \in 1..buf |-> IF i <= Len(data) THEN data[i] ELSE 0]

btf__get_from_id(c, default) ==
  IF c.fails \in {"fd", "malloc", "info"} THEN <<>>
  ELSE IF Len(c.data) <= default THEN SubSeq(Filled(default, c.data), 1, Len(c.data))
  ELSE IF c.fails \in {"realloc", "again"} THEN <<>>
  ELSE Filled(Len(c.data), c.data)

------------------------------------------------------------------------------
(***************************************************************************)
(* BTF for BtfData: what a compiler or the kernel wrote, next to what the  *)
(* reader makes of it.                                                     *)
(***************************************************************************)

\* A type as words: its own, then one for each member.
MemberWords(kind, vlen) ==
  CASE kind = "INT" -> 1 [] kind = "ARRAY" -> 3 [] kind = "STRUCT" -> 3 * vlen [] kind \in {"ENUM", "FUNC_PROTO"} -> 2 * vlen
    [] OTHER -> 0
TypeWords(t) == <<t>> \o [i \in 1..(2 + MemberWords(t.kind, t.vlen)) |-> "word"]

WrittenKinds == {"INT", "PTR", "ARRAY", "STRUCT", "ENUM", "FUNC_PROTO"}
MaxTypes == 36
ParseInputs ==
  {[algo |-> "parse", types |-> ts] :
     ts \in UNION {[1..n -> [kind : WrittenKinds, vlen : 0..2]] : n \in 0..2}
            \cup {[i \in 1..n |-> [kind |-> "PTR", vlen |-> 0]] : n \in 3..40}}
SectionWords(types) == FlattenSeq([i \in DOMAIN types |-> TypeWords(types[i])])
ParseStart ==
  /\ pc = "start"
  /\ in.algo = "parse"
  /\ out' = [at |-> 1, tab |-> NoTypes]
  /\ pc' = "types"
  /\ UNCHANGED in
ParsePass ==
  /\ pc = "types"
  /\ LET words == SectionWords(in.types)
         more == ~out.tab.err /\ out.at <= Len(words)
     IN /\ out' = IF more THEN btf_parse_type_sec(out, words, MaxTypes) ELSE out.tab
        /\ pc' = IF more THEN "types" ELSE "done"
  /\ UNCHANGED in
ParseNext == ParseStart \/ ParsePass

\* Four types, each of which may refer to any, and a chain of modifiers of
\* every length around the limit, which ends in an int or in itself.
Leaf(kind, size) == [kind |-> kind, name |-> kind, size |-> size]
Ref(kind, type) == [kind |-> kind, name |-> "", type |-> type]
ArrayOf(type, n) == [kind |-> "ARRAY", name |-> "", type |-> type, nelems |-> n]
ResolveTypes ==
  {Leaf("INT", 4), Leaf("STRUCT", 0), Leaf("FUNC_PROTO", 0), Leaf("FWD", 0), Leaf("PTR", 0)}
    \cup {Ref("CONST", i) : i \in 0..4} \cup {ArrayOf(i, n) : i \in 1..3, n \in {0, 9, 32}}
Chain(n, end) == [i \in 1..(n + 1) |-> IF i = n + 1 THEN end ELSE Ref("TYPEDEF", i + 1)]
ResolveInputs ==
  {[algo |-> "resolve", types |-> ts] :
     ts \in [1..3 -> ResolveTypes] \cup {Chain(n, Leaf("INT", 4)) : n \in 5..11} \cup {Chain(n, Ref("CONST", 1)) : n \in 3..5}}
ResolveNext ==
  Compute("resolve", LAMBDA c : [size |-> btf__resolve_size(c.types, 1), type |-> btf__resolve_type(c.types, 1)])

\* A map and its container struct, perhaps with another type of that name.
Containers ==
  {Ref("TYPEDEF", 1), Leaf("INT", 4),
   [kind |-> "STRUCT", name |-> "m", size |-> 12, members |-> <<1, 2>>],
   [kind |-> "STRUCT", name |-> "m", size |-> 12, members |-> <<1>>],
   [kind |-> "STRUCT", name |-> "m'", size |-> 12, members |-> <<1, 2>>],
   [kind |-> "INT", name |-> "m", size |-> 4]}
\* m' is the name of the container of m after 255 characters.
KvInputs ==
  {c \in {[algo |-> "kv", types |-> <<Leaf("INT", 4), ArrayOf(1, n), a, b>>, key |-> k, value |-> v, len |-> l] :
            n \in {0, 2, 64}, a \in Containers, b \in Containers, k \in {4, 8}, v \in {0, 4, 8},
            l \in {1, 243, 244, 245, 300}} :
     c.len = 1 \/ (c.key = 4 /\ c.types[2].nelems = 2)}
KvNext ==
  Compute("kv", LAMBDA c : btf__get_map_kv_tids(c.types, [name |-> "m", cut |-> "m'", len |-> c.len], c.key, c.value))

\* Up to three variables of a data section.
SecVars == [name : {"a", "b", "c"}, var : {TRUE}, static : BOOLEAN, off : {0, 4, 8}]
SecInputs ==
  {[algo |-> "datasec", dvars |-> vs, symbols |-> s] :
     vs \in UNION {{f \in [1..n -> SecVars] : \A i, j \in 1..n : f[i].name = f[j].name => i = j} : n \in 1..3},
     s \in [{"a", "b"} -> {0, 4, 16}]}
SecNext == Compute("datasec", LAMBDA c : btf_fixup_datasec(c.dvars, c.symbols))

\* Sections of .BTF.ext, whole, cut short, or with one record too many counted.
InfoSecs == [sec : {"x", "y"}, num : 0..2]
RecordWords(sec, k) == <<8 * k, sec.sec, k>>
InfoWords(secs, cut, more) ==
  LET word(i) == IF more /\ i = Len(secs) THEN [secs[i] EXCEPT !.num = @ + 1] ELSE secs[i]
      all == <<3>> \o FlattenSeq([i \in DOMAIN secs |->
                <<word(i), "pad">> \o FlattenSeq([k \in 1..secs[i].num |-> RecordWords(secs[i], k)])])
  IN SubSeq(all, 1, Len(all) - MinOf(cut, Len(all)))
Misplaced == {"unaligned", "beyond", "odd"}
ExtInputs ==
  {[algo |-> "ext", func |-> f, line |-> l, lines |-> TRUE, relocs |-> TRUE, nodata |-> FALSE, cut |-> 0, more |-> FALSE,
    place |-> [func |-> IF at = "func" THEN p ELSE "good", line |-> IF at = "line" THEN p ELSE "good", reloc |-> "good"]] :
     f, l \in UNION {[1..n -> InfoSecs] : n \in 0..1}, p \in Misplaced, at \in {"func", "line"}}
  \cup
  {[algo |-> "ext", func |-> f, line |-> l, lines |-> sh[1], relocs |-> sh[2], nodata |-> FALSE, cut |-> c, more |-> m,
    place |-> [func |-> "good", line |-> "good", reloc |-> "good"]] :
     f \in UNION {[1..n -> InfoSecs] : n \in 0..2}, l \in UNION {[1..n -> InfoSecs] : n \in 0..1},
     sh \in {<<TRUE, TRUE>>, <<TRUE, FALSE>>, <<FALSE, FALSE>>}, c \in 0..9, m \in BOOLEAN}
ExtNext ==
  Compute("ext",
    LAMBDA c :
      LET f == InfoWords(c.func, c.cut, c.more)
          new == btf_ext__new([c EXCEPT !.func = f, !.line = InfoWords(c.line, 0, FALSE)] @@ [reloc |-> <<>>])
          usable == new.ok /\ Len(new.func) > 0
      IN [ok |-> new.ok,
          func |-> IF usable THEN btf_ext_reloc_info(new.func, "y", 5, <<"old">>) ELSE <<>>])

\* What the kernel has, against a default buffer of 3 words.
FromIdInputs ==
  {[algo |-> "fromid", data |-> [i \in 1..n |-> i], fails |-> f] :
     n \in 1..6, f \in {"no", "fd", "malloc", "info", "realloc", "again"}}
FromIdNext == Compute("fromid", LAMBDA c : btf__get_from_id(c, 3))

DataNext == ParseNext \/ ResolveNext \/ KvNext \/ SecNext \/ ExtNext \/ FromIdNext

-----------------------------------------------------------------------------
(* The reference *)

\* The size of a type by what it means: the product over the arrays on the
\* way, which must be finite and in range.
RECURSIVE SizeMeant(_, _, _)
SizeMeant(ts, id, seen) ==
  IF id = 0 \/ id > Len(ts) \/ id \in seen THEN -1
  ELSE LET t == ts[id]
           below == SizeMeant(ts, t.type, seen \cup {id})
       IN CASE t.kind \in {"INT", "STRUCT"} -> t.size
            [] t.kind = "PTR" -> PtrSize
            [] t.kind \in {"CONST", "TYPEDEF"} -> below
            [] t.kind = "ARRAY" -> IF below < 0 THEN -1 ELSE t.nelems * below
            [] OTHER -> -1

\* The elements all arrays from id on make together.
RECURSIVE ElementsMeant(_, _, _)
ElementsMeant(ts, id, seen) ==
  IF id = 0 \/ id > Len(ts) \/ id \in seen THEN 1
  ELSE LET t == ts[id]
       IN CASE t.kind \in {"CONST", "TYPEDEF"} -> ElementsMeant(ts, t.type, seen \cup {id})
            [] t.kind = "ARRAY" -> t.nelems * ElementsMeant(ts, t.type, seen \cup {id})
            [] OTHER -> 1

RECURSIVE TypeMeant(_, _, _)
TypeMeant(ts, id, seen) ==
  IF id = 0 \/ id > Len(ts) \/ id \in seen THEN -1
  ELSE IF ts[id].kind = "FWD" THEN -1
  ELSE IF ts[id].kind \in {"CONST", "TYPEDEF"} THEN TypeMeant(ts, ts[id].type, seen \cup {id}) ELSE id

\* Encodings of sections that may be accepted: whole ones, none of them empty.
WholeSections(secs) ==
  {InfoWords(SubSeq(secs, 1, n), 0, FALSE) :
     n \in {k \in 1..Len(secs) : \A i \in 1..k : secs[i].num > 0}}

-----------------------------------------------------------------------------
(* Properties *)

\* Reading the type section gives the types that were written, in their
\* order, without writing past the table, or an error when there are more
\* than fit.
TypesFound ==
  Is("parse") =>
    /\ ~out.over
    /\ out.err = (Len(in.types) > MaxTypes - 1)
    /\ ~out.err => out.types = in.types

\* A size that is answered is the type's, and one that is refused is not a
\* number of 32 bits, not the size of a type, or behind too many modifiers.
SizeExact ==
  Is("resolve") =>
    LET meant == SizeMeant(in.types, 1, {})
        long == Len(in.types) > MAX_RESOLVE_DEPTH
    IN /\ out.size >= 0 => out.size = meant
       /\ meant >= 0 /\ meant <= UMax /\ ElementsMeant(in.types, 1, {}) \in 1..UMax /\ ~long => out.size = meant

\* A type that can be sized and is no array has the size of the type it
\* resolves to, and a cycle of modifiers resolves to nothing.
ResolvesAlike ==
  Is("resolve") =>
    /\ out.type \in {-1, TypeMeant(in.types, 1, {})}
    /\ Len(in.types) <= MAX_RESOLVE_DEPTH => out.type = TypeMeant(in.types, 1, {})
    /\ out.type >= 0 => btf__resolve_size(in.types, out.type) = out.size

\* The types of a map's key and value have the sizes of the map's, and are
\* found whenever the first type of the container's name is such a struct.  A
\* container's name of more than 256 characters is looked for as cut at 255, so
\* that the types are those of another map; one of 256 is refused.
KvOfMap ==
  Is("kv") =>
    LET ids == {i \in DOMAIN in.types : in.types[i].name = IF in.len <= 243 THEN "m" ELSE "m'"}
        first == CHOOSE i \in ids : \A j \in ids : i <= j
    IN (out # <<>>) = (/\ ids # {}
                       /\ in.len # 244
                       /\ in.types[first].kind = "STRUCT"
                       /\ in.types[first].members = <<1, 2>>
                       /\ in.key = 4
                       /\ in.value = SizeMeant(in.types, 2, {}))

\* The kernel gets the variables sorted, each with the offset of its symbol,
\* or, if static, the one it had; a global one without symbol is an error.
SectionSorted ==
  Is("datasec") =>
    LET missing == \E i \in DOMAIN in.dvars : in.dvars[i].name = "c" /\ ~in.dvars[i].static
    IN /\ (out = <<>>) = missing
       /\ \A i, j \in DOMAIN out : i < j => out[i].off <= out[j].off
       /\ ~missing => {out[i].name : i \in DOMAIN out} = {in.dvars[i].name : i \in DOMAIN in.dvars}
       /\ \A i \in DOMAIN out : \E j \in DOMAIN in.dvars :
            /\ in.dvars[j].name = out[i].name
            /\ out[i].off = IF in.dvars[j].static THEN in.dvars[j].off ELSE in.symbols[out[i].name]

\* .BTF.ext is accepted exactly when its sections are whole and lie where they
\* may, and then a function's records are appended to those there are, with
\* the offsets of its instructions moved.
ExtRead ==
  Is("ext") =>
    LET f == InfoWords(in.func, in.cut, in.more)
        l == InfoWords(in.line, 0, FALSE)
        whole(words, secs, place) == words = <<>> \/ (words \in WholeSections(secs) /\ place = "good")
        ys == {i \in DOMAIN in.func : in.func[i].sec = "y"}
        first == CHOOSE i \in ys : \A j \in ys : i <= j
        last == Len(out.func)
    IN /\ out.ok = (~in.lines \/ (whole(f, in.func, in.place.func) /\ whole(l, in.line, in.place.line)))
       /\ out.ok /\ in.lines /\ in.cut = 0 /\ f # <<>> =>
            out.func = <<"old">> \o (IF ys = {} THEN <<>>
                                     ELSE [k \in 1..in.func[first].num |-> <<k + 5, "y", k>>])

\* The kernel's BTF is read whole or not at all.
WholeOrNothing ==
  Is("fromid") =>
    /\ out \in {<<>>, in.data}
    /\ in.fails = "no" => out = in.data

------------------------------------------------------------------------------
(***************************************************************************)
(* Where BTF comes from and what is made of it before a kernel sees it:    *)
(* btf__new, btf__parse_elf, the search for the kernel's own BTF, the data  *)
(* sections that are completed from the object file and the types an older  *)
(* kernel does not know (btf.c, libbpf.c).                                 *)
(***************************************************************************)

\* held is the memory, descriptors and ELF handles there are.
btf__free(held) == held \ {"btf", "data", "types"}

\* fail names the step that fails, "none" when data is valid BTF.
btf__new(held, fail) ==
  CASE fail = "calloc" -> [ok |-> FALSE, held |-> held]
    [] fail = "malloc" -> [ok |-> FALSE, held |-> btf__free(held \cup {"btf"})]
    [] fail \in {"hdr", "str"} -> [ok |-> FALSE, held |-> btf__free(held \cup {"btf", "data"})]
    [] fail = "types" -> [ok |-> FALSE, held |-> btf__free(held \cup {"btf", "data", "types"})]
    [] fail = "none" -> [ok |-> TRUE, held |-> held \cup {"btf", "data", "types"}]

\* The walk over the sections: the last .BTF and .BTF.ext, 0 for none.
ScanSection(v, secs, i, ext) ==
  LET s == secs[i] IN
  IF v.bad THEN v
  ELSE IF ~s.head \/ ~s.named THEN [v EXCEPT !.bad = TRUE]
  ELSE IF s.name = ".BTF" THEN (IF s.data THEN [v EXCEPT !.btf = i] ELSE [v EXCEPT !.bad = TRUE])
  ELSE IF ext /\ s.name = ".BTF.ext" THEN (IF s.data THEN [v EXCEPT !.ext = i] ELSE [v EXCEPT !.bad = TRUE])
  ELSE v

\* err is what the code reports, ext what the caller's btf_ext is left with.
\* Neither the file nor the ELF handle outlives the call.
btf__parse_elf(file, ext) ==
  LET v == FoldLeft(LAMBDA a, i : ScanSection(a, file.secs, i, ext),
                    [bad |-> FALSE, btf |-> 0, ext |-> 0], [i \in DOMAIN file.secs |-> i])
      opened == IF file.elf THEN {"fd", "elf"} ELSE {"fd"}
      done(held) == held \ {"fd", "elf"}
      ret(err, btf, e, held) == [err |-> err, btf |-> btf, ext |-> e, held |-> done(held)]
      new == btf__new(opened, file.secs[v.btf].fail)
      newExt == file.secs[v.ext].fail = "none"
  IN IF ~file.open THEN ret("open", 0, "same", {})
     ELSE IF ~file.elf \/ ~file.native \/ v.bad THEN ret("format", 0, "same", opened)
     ELSE IF v.btf = 0 THEN ret("noent", 0, "same", opened)
     ELSE IF ~new.ok THEN ret("btf", 0, "same", new.held)
     ELSE IF ~ext THEN ret("no", v.btf, "same", new.held)
     ELSE IF v.ext = 0 THEN ret("no", v.btf, "null", new.held)
     ELSE IF newExt THEN ret("no", v.btf, "ext", new.held \cup {"ext"})
     ELSE ret("btf_ext", 0, "err", btf__free(new.held))

-----------------------------------------------------------------------------
(* The kernel's BTF: sysfs first, then the kernel image on disk.            *)

\* The buffer is freed on every path.
btf_load_raw(place) ==
  LET new == btf__new({"buf"}, place.fail)
  IN IF place.io # "no" THEN [ok |-> FALSE, held |-> {}] ELSE [ok |-> new.ok, held |-> new.held \ {"buf"}]

Locations == <<TRUE, FALSE, FALSE, FALSE, FALSE, FALSE, FALSE, FALSE>>   \* raw_btf

LoadLocation(place, raw) ==
  IF raw THEN btf_load_raw(place)
  ELSE LET r == btf__parse_elf([open |-> place.io # "open", elf |-> place.io # "short", native |-> TRUE,
                                secs |-> <<[name |-> ".BTF", head |-> TRUE, named |-> TRUE, data |-> TRUE, fail |-> place.fail]>>], FALSE)
       IN [ok |-> r.err = "no", held |-> r.held]

\* A place that cannot be read, or has no valid BTF, is passed over.
bpf_core_find_kernel_btf(places) ==
  FoldLeft(LAMBDA v, i : IF v.at # 0 \/ ~places[i].access THEN v
                         ELSE LET r == LoadLocation(places[i], Locations[i])
                              IN [at |-> IF r.ok THEN i ELSE 0, ok |-> r.ok, held |-> v.held \cup r.held],
           [at |-> 0, ok |-> FALSE, held |-> {}], [i \in DOMAIN Locations |-> i])

-----------------------------------------------------------------------------
(* Completing the data sections.  The names of types are offsets into the   *)
(* strings, which are sequences of parts.  A type has a kind, a name, val,  *)
(* which is its size or the type it refers to, and words: the linkage of a  *)
(* VAR, the triples <<type, offset, size>> of a DATASEC.                    *)

\* The first section of that name, unless one before it cannot be read.
bpf_object_search_section_size(elf, name) ==
  FoldLeft(LAMBDA v, s : IF v.end THEN v
                         ELSE IF ~s.readable THEN [ret |-> "IO", size |-> 0, end |-> TRUE]
                         ELSE IF s.name = name THEN [ret |-> "ok", size |-> s.size, end |-> TRUE] ELSE v,
           [ret |-> "NOENT", size |-> 0, end |-> FALSE], elf.secs)

\* .data, .bss and .rodata are known from collecting the object's sections.
Kept == {<<".", "data">>, <<".", "bss">>, <<".", "rodata">>}
bpf_object__section_size(elf, name) ==
  LET found == IF name \in Kept THEN [ret |-> "NOENT", size |-> elf.efile[name]] ELSE bpf_object_search_section_size(elf, name)
  IN [size |-> found.size, ret |-> IF found.size # 0 THEN "ok" ELSE found.ret]

\* The value of the first global object of that name, -1 if there is none or
\* the name of one before it cannot be read.
bpf_object__variable_offset(elf, name) ==
  LET at == {i \in DOMAIN elf.symbols : /\ elf.symbols[i].global /\ elf.symbols[i].object
                                        /\ ~elf.symbols[i].readable \/ elf.symbols[i].name = name}
  IN IF at = {} THEN -1
     ELSE IF ~elf.symbols[Min(at)].readable THEN -1 ELSE elf.symbols[Min(at)].value

\* The size and the variables of one section, as btf_fixup_datasec leaves
\* them; val is -1 when it fails.
FixupSection(ts, strs, t, elf) ==
  LET sec == bpf_object__section_size(elf, strs[t.name])
      dvars == [i \in DOMAIN t.words |->
                 LET v == ts[t.words[i][1]]
                 IN [var |-> v.kind = "VAR", static |-> v.kind = "VAR" /\ v.words[1] = "static", name |-> v.name,
                     off |-> t.words[i][2], type |-> t.words[i][1], size |-> t.words[i][3]]]
      names == {n \in {dvars[i].name : i \in DOMAIN dvars} : bpf_object__variable_offset(elf, strs[n]) >= 0}
      fixed == btf_fixup_datasec(dvars, [n \in names |-> bpf_object__variable_offset(elf, strs[n])])
  IN IF sec.ret # "ok" \/ sec.size = 0 \/ (t.val # 0 /\ t.val # sec.size) \/ (fixed = <<>> /\ dvars # <<>>)
     THEN [t EXCEPT !.val = -1]
     ELSE [t EXCEPT !.val = sec.size, !.words = [i \in DOMAIN fixed |-> <<fixed[i].type, fixed[i].off, fixed[i].size>>]]

btf__finalize_data(ts, strs, elf) ==
  [i \in DOMAIN ts |-> IF ts[i].kind = "DATASEC" THEN FixupSection(ts, strs, ts[i], elf) ELSE ts[i]]

-----------------------------------------------------------------------------
(* What an older kernel does not know.                                      *)

\* One byte, since the variable may be no larger.
VarAsInt(t) == [t EXCEPT !.kind = "INT", !.val = 1, !.words = <<8>>]

\* The three words of a variable become those of a member, <<name, type,
\* offset in bits>>, in the place of the ones they are made from.
AsMember(ts, w) ==
  LET offset == [w EXCEPT ![3] = w[2] * 8]
      type == [offset EXCEPT ![2] = offset[1]]
  IN [type EXCEPT ![1] = ts[type[1]].name]

SanitizeType(ts, t, caps) ==
  IF ~caps.datasec /\ t.kind = "VAR" THEN VarAsInt(t)
  ELSE IF ~caps.datasec /\ t.kind = "DATASEC"
       THEN [t EXCEPT !.kind = "STRUCT", !.words = [i \in DOMAIN @ |-> AsMember(ts, @[i])]]
  ELSE IF ~caps.func /\ t.kind = "FUNC_PROTO" THEN [t EXCEPT !.kind = "ENUM", !.val = 4]
  ELSE IF ~caps.func /\ t.kind = "FUNC" THEN [t EXCEPT !.kind = "TYPEDEF"]
  ELSE t

\* The dots of a section's name become underscores in the string itself.
SanitizeNames(ts, strs, caps) ==
  [n \in DOMAIN strs |-> IF ~caps.datasec /\ \E i \in DOMAIN ts : ts[i].kind = "DATASEC" /\ ts[i].name = n
                         THEN [k \in DOMAIN strs[n] |-> IF strs[n][k] = "." THEN "_" ELSE strs[n][k]] ELSE strs[n]]

bpf_object__sanitize_btf(ts, caps) == [i \in DOMAIN ts |-> SanitizeType(ts, ts[i], caps)]

------------------------------------------------------------------------------
(***************************************************************************)
(* Files with and without BTF, places of a kernel image, and objects with a *)
(* data section of up to two variables, for kernels old and new.           *)
(***************************************************************************)

FileSec(name, head, named, data, fail) == [name |-> name, head |-> head, named |-> named, data |-> data, fail |-> fail]
FileSecs ==
  {FileSec(n, TRUE, TRUE, TRUE, f) : n \in {".BTF", ".BTF.ext"}, f \in {"none", "malloc", "hdr", "types"}}
    \cup {FileSec(n, TRUE, TRUE, FALSE, "none") : n \in {".BTF", ".BTF.ext"}}
    \cup {FileSec("other", h, n, TRUE, "none") : h, n \in BOOLEAN}
ElfFileInputs ==
  [algo : {"elffile"}, ext : BOOLEAN, open : BOOLEAN, elf : BOOLEAN, native : BOOLEAN, secs : SeqOf(FileSecs, 2)]
ElfFileNext ==
  Compute("elffile", LAMBDA c : btf__parse_elf([open |-> c.open, elf |-> c.elf, native |-> c.native, secs |-> c.secs], c.ext))

\* Three of the places differ from being absent.
Places == {[access |-> a, io |-> i, fail |-> f] : a \in {TRUE}, i \in {"no", "open", "short"}, f \in {"none", "types"}}
NoPlace == [access |-> FALSE, io |-> "no", fail |-> "none"]
PlaceInputs == [algo : {"kernel"}, raw : Places \cup {NoPlace}, second : Places \cup {NoPlace}, last : Places \cup {NoPlace}]
PlacesOf(c) == [i \in DOMAIN Locations |-> CASE i = 1 -> c.raw [] i = 3 -> c.second [] i = 8 -> c.last [] OTHER -> NoPlace]
PlaceNext == Compute("kernel", LAMBDA c : bpf_core_find_kernel_btf(PlacesOf(c)))

\* An object: an int, the variables x and y, their section, a function and
\* its prototype.  swapped puts the section before the variables, turned turns
\* its entries around, at is where the compiler placed the variables; odd is an
\* entry that is the int, or a symbol z without a name between those of x and y.
Strs(c) == <<<<"int">>, <<"x">>, <<"y">>, c.section, <<"f">>>>
Type(kind, name, val, words) == [kind |-> kind, name |-> name, val |-> val, words |-> words]
IntId == 1
SecId(c) == IF c.swapped THEN 2 ELSE 4
VarId(c, k) == IF c.swapped THEN 2 + k ELSE 1 + k
Entries(c) ==
  LET entry(k) == <<IF c.odd = "entry" /\ k = 2 THEN IntId ELSE VarId(c, k), IF c.static THEN c.at[k] ELSE 0, c.size>>
  IN IF c.turned THEN <<entry(2), entry(1)>> ELSE <<entry(1), entry(2)>>
ObjectTypes(c) ==
  LET link == IF c.static THEN "static" ELSE "global"
      sec == Type("DATASEC", 4, c.claimed, Entries(c))
      var(k) == Type("VAR", 1 + k, IntId, <<link>>)
  IN <<Type("INT", 1, c.size, <<8 * c.size>>)>>
       \o (IF c.swapped THEN <<sec, var(1), var(2)>> ELSE <<var(1), var(2), sec>>)
       \o <<Type("FUNC_PROTO", 0, IntId, <<>>), Type("FUNC", 5, 5, <<>>)>>
ObjectElf(c) ==
  [secs |-> c.others \o <<[name |-> c.section, size |-> c.total, readable |-> TRUE]>>,
   efile |-> [n \in Kept |-> IF n = c.section THEN c.total ELSE 0],
   symbols |-> <<[name |-> <<"x">>, global |-> FALSE, object |-> TRUE, value |-> 99, readable |-> TRUE],
                 [name |-> <<"x">>, global |-> ~c.static, object |-> TRUE, value |-> c.at[1], readable |-> TRUE],
                 [name |-> <<"z">>, global |-> TRUE, object |-> TRUE, value |-> 9, readable |-> c.odd # "symbol"],
                 [name |-> <<"y">>, global |-> ~c.static, object |-> TRUE, value |-> c.at[2], readable |-> TRUE]>>]
ObjectInputs ==
  {c \in [algo : {"object"}, section : {<<".", "data">>, <<"maps">>}, swapped : BOOLEAN, static : BOOLEAN,
          turned : BOOLEAN, size : {1, 4}, at : {<<0, 4>>, <<4, 0>>, <<0, 1>>},
          claimed : {0, 5, 8}, total : {0, 5, 8}, func : BOOLEAN, datasec : BOOLEAN, odd : {"no", "entry", "symbol"},
          others : {<<>>, <<[name |-> <<"text">>, size |-> 9, readable |-> FALSE]>>,
                    <<[name |-> <<"text">>, size |-> 9, readable |-> TRUE]>>}] :
     /\ \A k \in 1 .. 2 : c.at[k] % c.size = 0
     /\ c.odd # "no" => c.func /\ c.datasec /\ c.others = <<>>
     /\ c.total = 0 \/ \A k \in 1 .. 2 : c.at[k] + c.size <= c.total}
ObjectNext ==
  Compute("object", LAMBDA c :
    LET strs == Strs(c)
        ts == btf__finalize_data(ObjectTypes(c), strs, ObjectElf(c))
        caps == [func |-> c.func, datasec |-> c.datasec]
        bad == \E i \in DOMAIN ts : ts[i].val = -1
    IN [err |-> bad, types |-> IF bad THEN <<>> ELSE bpf_object__sanitize_btf(ts, caps),
        strs |-> IF bad THEN <<>> ELSE SanitizeNames(ts, strs, caps)])

FileNext == ElfFileNext \/ PlaceNext \/ ObjectNext

-----------------------------------------------------------------------------
(* Properties *)

Whole(s) == s.head /\ s.named /\ (s.name = "other" \/ s.data)
LastNamed(secs, name) == LET at == {i \in DOMAIN secs : secs[i].name = name} IN IF at = {} THEN 0 ELSE Max(at)

\* btf__parse_elf succeeds exactly when the file can be read and its last
\* .BTF, and .BTF.ext where the caller wants it, are valid; it keeps neither
\* the file nor, when it fails, any memory, and a caller that is told of an
\* error never gets extensions it would have to free.
ElfBtfRead ==
  Is("elffile") =>
    LET b == LastNamed(in.secs, ".BTF")
        e == LastNamed(in.secs, ".BTF.ext")
        readable == \A i \in DOMAIN in.secs : Whole(in.secs[i]) \/ (~in.ext /\ in.secs[i].name = ".BTF.ext")
        valid == /\ in.open /\ in.elf /\ in.native /\ readable
                 /\ b # 0 /\ in.secs[b].fail = "none"
                 /\ (in.ext /\ e # 0) => in.secs[e].fail = "none"
    IN /\ (out.err = "no") = valid
       /\ valid => /\ out.btf = b
                   /\ out.held = {"btf", "data", "types"} \cup (IF in.ext /\ e # 0 THEN {"ext"} ELSE {})
       /\ ~valid => out.held = {} /\ out.ext # "ext"

\* The kernel's BTF is taken from the first place that holds a valid one, and
\* the places before it leave nothing behind.
KernelBtfFound ==
  Is("kernel") =>
    LET good == {i \in DOMAIN Locations : LET p == PlacesOf(in)[i] IN p.access /\ p.io = "no" /\ p.fail = "none"}
    IN IF good = {} THEN ~out.ok /\ out.held = {}
       ELSE out.ok /\ out.at = Min(good) /\ out.held = {"btf", "data", "types"}

\* A type a kernel without data sections, or without functions, is given is
\* one it knows and accepts: members lie in their struct in rising order,
\* each with the name, the type and the place of its variable, and the name of
\* the struct is an identifier; other types and ids are as they were.
SanitizedValid ==
  (Is("object") /\ ~out.err) =>
    LET before == ObjectTypes(in)
        sec == out.types[SecId(in)]
        place(id) == IF id = VarId(in, 1) THEN in.at[1] ELSE in.at[2]
    IN /\ \A i \in DOMAIN out.types :
            /\ ~in.datasec => out.types[i].kind \notin {"VAR", "DATASEC"}
            /\ ~in.func => out.types[i].kind \notin {"FUNC", "FUNC_PROTO"}
            /\ out.types[i].name = before[i].name
            /\ out.types[i].kind = before[i].kind /\ i # SecId(in) => out.types[i] = before[i]
       /\ sec.val = in.total
       /\ in.datasec => \A k \in 1 .. 2 : sec.words[k][2] = place(sec.words[k][1])
       /\ ~in.datasec =>
            /\ \A k \in 1 .. 2 : LET m == sec.words[k] IN
                 /\ m[1] = before[m[2]].name /\ m[3] = 8 * place(m[2])
                 /\ m[3] + (8 * out.types[m[2]].val) <= 8 * sec.val
            /\ sec.words[1][2] # sec.words[2][2]
            /\ sec.words[1][3] < sec.words[2][3]
            /\ \A k \in DOMAIN out.strs[sec.name] : out.strs[sec.name][k] # "."

\* An object is refused exactly when the size of its section is not the one
\* its BTF claims, is zero, or cannot be found out, when an entry is no
\* variable, or when a symbol in front of a global variable's has no name.
SectionsAgree ==
  Is("object") =>
    out.err = \/ in.total = 0
              \/ in.claimed \notin {0, in.total}
              \/ in.section \notin Kept /\ \E i \in DOMAIN in.others : ~in.others[i].readable
              \/ in.odd = "entry"
              \/ in.odd = "symbol" /\ ~in.static
==============================================================================
