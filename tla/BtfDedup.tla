------------------------------ MODULE BtfDedup -------------------------------
(***************************************************************************)
(* btf__dedup: the types of several compilation units, some of which know  *)
(* a struct only by its forward declaration, are merged into one list      *)
(* without duplicates.                                                     *)
(*                                                                         *)
(* A type is [kind, name, info, labels, refs]: info is what the word info  *)
(* and the size say beyond kind and vlen, labels the names (and offsets or *)
(* values) of members, enumerators or parameters, refs the types referred  *)
(* to: of an array its element and its index, of a function prototype its  *)
(* result and then its parameters.  Type 0 is void.                        *)
(*                                                                         *)
(* The state d of the algorithm is [types, map, cands, newest, err]; cands *)
(* lists the canonical types in the order the hash table yields them:      *)
(* newest first, or the reverse where the table has grown.                 *)
(***************************************************************************)
EXTENDS Cases, Integers, Sequences, FiniteSets, SequencesExt

Unprocessed == -1
InProgress == -2

RefKinds == {"CONST", "VOLATILE", "RESTRICT", "PTR", "TYPEDEF", "FUNC"}
Structs == {"STRUCT", "UNION"}
PrimKinds == {"INT", "ENUM", "FWD"}

Void == [kind |-> "VOID", name |-> "", info |-> 0, labels |-> <<>>, refs |-> <<>>]
TypeOf(d, id) == IF id = 0 THEN Void ELSE d.types[id]
KindOf(d, id) == TypeOf(d, id).kind

btf_dedup_new(types, newest) ==
  [types |-> types,
   map |-> [i \in DOMAIN types |-> IF types[i].kind \in {"VAR", "DATASEC"} THEN i ELSE Unprocessed],
   cands |-> <<>>, newest |-> newest, err |-> "ok"]

-----------------------------------------------------------------------------
(* Comparing two types.  name_off, info (kind, vlen, kflag) and the word    *)
(* shared by size and type are the part all kinds have.                    *)

SameInfo(a, b) == a.kind = b.kind /\ a.info = b.info /\ Len(a.labels) = Len(b.labels)
btf_equal_common(a, b) ==
  /\ a.name = b.name
  /\ SameInfo(a, b)
  /\ a.kind \in RefKinds \cup {"FUNC_PROTO"} => a.refs[1] = b.refs[1]
btf_equal_int(a, b) == btf_equal_common(a, b)
btf_equal_enum(a, b) == btf_equal_common(a, b) /\ a.labels = b.labels
btf_is_enum_fwd(a) == a.kind = "ENUM" /\ a.labels = <<>>
btf_compat_enum(a, b) ==
  IF ~btf_is_enum_fwd(a) /\ ~btf_is_enum_fwd(b) THEN btf_equal_enum(a, b)
  ELSE a.name = b.name /\ a.kind = b.kind /\ a.info = b.info
btf_shallow_equal_struct(a, b) == btf_equal_common(a, b) /\ a.labels = b.labels
btf_equal_array(a, b) == btf_equal_common(a, b) /\ a.refs = b.refs
btf_compat_array(a, b) == btf_equal_common(a, b)
btf_equal_fnproto(a, b) == btf_equal_common(a, b) /\ a.labels = b.labels /\ a.refs = b.refs
btf_compat_fnproto(a, b) == a.name = b.name /\ SameInfo(a, b) /\ a.labels = b.labels

-----------------------------------------------------------------------------
(* The mapping to canonical types *)

MapOf(d, id) == IF id = 0 THEN 0 ELSE d.map[id]     \* void is canonical
is_type_mapped(d, id) == MapOf(d, id) >= 0

RECURSIVE resolve_type_id(_, _)
resolve_type_id(d, id) ==
  IF is_type_mapped(d, id) /\ MapOf(d, id) # id THEN resolve_type_id(d, MapOf(d, id)) ELSE id

resolve_fwd_id(d, id) ==
  LET r == resolve_type_id(d, id)
  IN IF KindOf(d, id) # "FWD" \/ KindOf(d, r) = "FWD" THEN id ELSE r

btf_dedup_table_add(d, id) == [d EXCEPT !.cands = IF d.newest THEN <<id>> \o @ ELSE Append(@, id)]

Settle(d, id, new) ==
  LET e == [d EXCEPT !.map[id] = new] IN IF new = id THEN btf_dedup_table_add(e, id) ELSE e

-----------------------------------------------------------------------------
(* Primitive types *)

\* Every candidate is looked at until one equals the type; a full enum
\* takes over the canonical forward declarations it meets on the way.
EnumStep(d, id, fwds, acc, c) ==
  LET t == d.types[id]
      cand == d.types[c]
  IN IF acc.new # id THEN acc
     ELSE IF btf_equal_enum(t, cand) THEN [acc EXCEPT !.new = c]
     ELSE IF ~fwds \/ ~btf_compat_enum(t, cand) THEN acc
     ELSE IF btf_is_enum_fwd(t) THEN [acc EXCEPT !.new = c]
     ELSE [acc EXCEPT !.d.map[c] = id]

First(d, id, Equal(_, _)) ==
  LET k == SelectInSeq(d.cands, LAMBDA c : Equal(d.types[id], d.types[c]))
  IN IF k = 0 THEN id ELSE d.cands[k]

btf_dedup_prim_type(d, id, fwds) ==
  CASE d.types[id].kind \notin PrimKinds -> d
    [] d.types[id].kind = "INT" -> Settle(d, id, First(d, id, btf_equal_int))
    [] d.types[id].kind = "FWD" -> Settle(d, id, First(d, id, btf_equal_common))
    [] d.types[id].kind = "ENUM" ->
         LET acc == FoldLeft(LAMBDA a, c : EnumStep(d, id, fwds, a, c), [d |-> d, new |-> id], d.cands)
         IN Settle(acc.d, id, acc.new)

-----------------------------------------------------------------------------
(* Structs and unions: are two type graphs the same?  The answer is         *)
(* [eq, h], h the hypothetical mapping as far as it was filled; a type that  *)
(* is not one of a value has no answer.                                    *)

HypotOf(h, id) == LET k == SelectInSeq(h, LAMBDA p : p[1] = id) IN IF k = 0 THEN Unprocessed ELSE h[k][2]

\* A type met again must correspond to the same type as before.
MetAgain(h, canon, cand) == HypotOf(h, canon) = cand

RECURSIVE btf_dedup_is_equiv(_, _, _, _, _)
btf_dedup_is_equiv(d, fwds, h, cand, canon0) ==
  LET canon == resolve_fwd_id(d, canon0)
      a == TypeOf(d, cand)
      b == TypeOf(d, canon)
      g == Append(h, <<canon, cand>>)
      yes(p) == [eq |-> IF p THEN "yes" ELSE "no", h |-> g]
      \* the referenced types, in order, as long as they agree
      refs(ra, rb) == FoldLeft(LAMBDA r, k : IF r.eq = "yes" THEN btf_dedup_is_equiv(d, fwds, r.h, ra[k], rb[k]) ELSE r,
                               yes(TRUE), [k \in DOMAIN ra |-> k])
  IN CASE resolve_type_id(d, cand) = resolve_type_id(d, canon0) -> [eq |-> "yes", h |-> h]
       [] HypotOf(h, canon) # Unprocessed -> [eq |-> IF MetAgain(h, canon, cand) THEN "yes" ELSE "no", h |-> h]
       [] a.name # b.name -> yes(FALSE)
       [] fwds /\ a.kind # b.kind /\ "FWD" \in {a.kind, b.kind} ->
            yes(IF a.kind = "FWD" THEN a.info = b.kind ELSE b.info = a.kind)
       [] a.kind # b.kind -> yes(FALSE)
       [] a.kind = "INT" -> yes(btf_equal_int(a, b))
       [] a.kind = "ENUM" -> yes(IF fwds THEN btf_compat_enum(a, b) ELSE btf_equal_enum(a, b))
       [] a.kind = "FWD" -> yes(btf_equal_common(a, b))
       [] a.kind \in RefKinds -> IF SameInfo(a, b) THEN refs(a.refs, b.refs) ELSE yes(FALSE)
       [] a.kind = "ARRAY" -> IF btf_compat_array(a, b) THEN refs(Reverse(a.refs), Reverse(b.refs)) ELSE yes(FALSE)
       [] a.kind \in Structs -> IF btf_shallow_equal_struct(a, b) THEN refs(a.refs, b.refs) ELSE yes(FALSE)
       [] a.kind = "FUNC_PROTO" -> IF btf_compat_fnproto(a, b) THEN refs(a.refs, b.refs) ELSE yes(FALSE)
       [] OTHER -> [eq |-> "EINVAL", h |-> g]

\* One pair of a successful comparison: a forward declaration is resolved, a
\* struct is mapped to one that is canonical already.
MergePair(d, p) ==
  LET t == resolve_type_id(d, p[2])
      c == resolve_type_id(d, p[1])
      tk == KindOf(d, t)
      ck == KindOf(d, c)
      e == IF tk # "FWD" /\ ck = "FWD" THEN [d EXCEPT !.map[c] = t]
           ELSE IF tk = "FWD" /\ ck # "FWD" THEN [d EXCEPT !.map[t] = c] ELSE d
  IN IF tk \in Structs /\ ck # "FWD" /\ is_type_mapped(e, c) /\ ~is_type_mapped(e, t)
     THEN [e EXCEPT !.map[t] = c] ELSE e

btf_dedup_merge_hypot_map(d, h) == FoldLeft(MergePair, d, h)

btf_dedup_struct_type(d, id, fwds) ==
  LET try(acc, c) ==
        IF acc.eq # "no" \/ ~btf_shallow_equal_struct(d.types[id], d.types[c]) THEN acc
        ELSE LET r == btf_dedup_is_equiv(d, fwds, <<>>, id, c)
             IN [eq |-> r.eq, new |-> IF r.eq = "yes" THEN c ELSE id, h |-> r.h]
      found == FoldLeft(try, [eq |-> "no", new |-> id, h |-> <<>>], d.cands)
  IN IF d.err # "ok" \/ is_type_mapped(d, id) \/ d.types[id].kind \notin Structs THEN d
     ELSE IF found.eq = "EINVAL" THEN [d EXCEPT !.err = "EINVAL"]
     ELSE Settle(IF found.new = id THEN d ELSE btf_dedup_merge_hypot_map(d, found.h), id, found.new)

-----------------------------------------------------------------------------
(* Reference types: what they refer to comes first, and their references    *)
(* are rewritten to it.  The answer is [d, id].                            *)

RECURSIVE btf_dedup_ref_type(_, _)
btf_dedup_ref_type(d, id) ==
  LET t == TypeOf(d, id)
      step(r, k) ==
        IF r.err # "ok" THEN r
        ELSE LET s == btf_dedup_ref_type(r, t.refs[k])
             IN IF s.d.err # "ok" THEN s.d ELSE [s.d EXCEPT !.types[id].refs[k] = s.id]
      e == FoldLeft(step, [d EXCEPT !.map[id] = InProgress], [k \in DOMAIN t.refs |-> k])
      new == CASE t.kind \in RefKinds -> First(e, id, btf_equal_common)
               [] t.kind = "ARRAY" -> First(e, id, btf_equal_array)
               [] OTHER -> First(e, id, btf_equal_fnproto)
  IN CASE MapOf(d, id) = InProgress -> [d |-> [d EXCEPT !.err = "ELOOP"], id |-> id]
       [] is_type_mapped(d, id) -> [d |-> d, id |-> resolve_type_id(d, id)]
       [] t.kind \notin RefKinds \cup {"ARRAY", "FUNC_PROTO"} -> [d |-> [d EXCEPT !.err = "EINVAL"], id |-> id]
       [] e.err # "ok" -> [d |-> e, id |-> id]
       [] OTHER -> [d |-> Settle(e, id, new), id |-> new]

-----------------------------------------------------------------------------
(* Compaction and the final renumbering *)

\* The new number of each canonical type, -1 of the others.
CompactIds(d) ==
  [i \in DOMAIN d.types |-> IF d.map[i] # i THEN -1 ELSE Cardinality({j \in 1..i : d.map[j] = j})]

btf_dedup_remap_type_id(d, new, id) == IF id = 0 THEN 0 ELSE new[resolve_type_id(d, id)]

btf_dedup_compact_and_remap(d) ==
  LET new == CompactIds(d)
      kept == SelectSeq([i \in DOMAIN d.types |-> i], LAMBDA i : d.map[i] = i)
      remap(t) == [t EXCEPT !.refs = [k \in DOMAIN t.refs |-> btf_dedup_remap_type_id(d, new, t.refs[k])]]
      ts == [k \in DOMAIN kept |-> remap(d.types[kept[k]])]
  IN [types |-> ts,
      err |-> IF \E k \in DOMAIN ts : \E j \in DOMAIN ts[k].refs : ts[k].refs[j] < 0 THEN "EINVAL" ELSE "ok",
      final |-> [i \in DOMAIN d.types |-> btf_dedup_remap_type_id(d, new, i)]]

\* btf__dedup, one pass at a time.
Passes == <<"prim", "struct", "ref", "compact", "done">>

btf__dedup(d, pass, fwds) ==
  LET ids == [i \in DOMAIN d.types |-> i] IN
  CASE pass = "prim" -> FoldLeft(LAMBDA e, i : btf_dedup_prim_type(e, i, fwds), d, ids)
    [] pass = "struct" -> FoldLeft(LAMBDA e, i : btf_dedup_struct_type(e, i, fwds), d, ids)
    [] pass = "ref" -> FoldLeft(LAMBDA e, i : IF e.err # "ok" THEN e ELSE btf_dedup_ref_type(e, i).d, d, ids)
    [] pass = "compact" -> IF d.err # "ok" THEN d ELSE btf_dedup_compact_and_remap(d)

-----------------------------------------------------------------------------
(* Strings.  A string is [at, text, len], its text a number that stands for *)
(* its place in the sort; refs are the offsets that types, members and line *)
(* records hold.  Equal strings share one copy, unused ones go.            *)

\* Mutant: of equal strings only the first is asked whether it is used.
UsedTexts_FirstOfGroup(strs, refs) ==
  {s.text : s \in {x \in Range(strs) : /\ x.at \in Range(refs) \/ x.at = 0
                                       /\ \A y \in Range(strs) : y.text = x.text => x.at <= y.at}}
UsedTexts(strs, refs) == {s.text : s \in {x \in Range(strs) : x.at \in Range(refs) \/ x.at = 0}}

btf_dedup_strings(strs, refs) ==
  LET used == UsedTexts(strs, refs)
      len(x) == (CHOOSE s \in Range(strs) : s.text = x).len
      before(x) == {y \in used : y < x}
      new_off(x) == FoldSet(LAMBDA y, n : n + len(y) + 1, 0, before(x))
      text_at(o) == (CHOOSE s \in Range(strs) : s.at = o).text
  IN IF \E k \in DOMAIN refs : \A s \in Range(strs) : s.at # refs[k]
     THEN [err |-> "EINVAL", strs |-> strs, refs |-> refs]
     ELSE [err |-> "ok",
           strs |-> SetToSeq({[at |-> new_off(x), text |-> x, len |-> len(x)] : x \in used}),
           refs |-> [k \in DOMAIN refs |-> IF refs[k] = 0 THEN 0 ELSE new_off(text_at(refs[k]))]]

------------------------------------------------------------------------------
(***************************************************************************)
(* Compilation units for BtfDedup.  Each unit has an int, a struct A and   *)
(* pointers to A and to B; it knows B as a struct, as a union or only by   *)
(* its forward declaration, and one more type of another kind.             *)
(***************************************************************************)

T(kind, name, info, labels, refs) == [kind |-> kind, name |-> name, info |-> info, labels |-> labels, refs |-> refs]

\* What B is in a unit; C11 allows one definition and any number of forward
\* declarations of it, but two units may also disagree.
BForm(b) ==
  CASE b = "fwd" -> T("FWD", "B", "STRUCT", <<>>, <<>>)
    [] b = "int" -> T("STRUCT", "B", 4, <<"x">>, <<1>>)
    [] b = "ptrA" -> T("STRUCT", "B", 8, <<"x">>, <<5>>)
    [] b = "ptrB" -> T("STRUCT", "B", 8, <<"x">>, <<3>>)
    [] b = "fwdunion" -> T("FWD", "B", "UNION", <<>>, <<>>)
    [] b = "union" -> T("UNION", "B", 4, <<"x">>, <<1>>)

Extra(x) ==
  CASE x = "typedef" -> T("TYPEDEF", "T", 0, <<>>, <<3>>)
    [] x = "enum" -> T("ENUM", "E", 4, <<"V">>, <<>>)
    [] x = "enumfwd" -> T("ENUM", "E", 4, <<>>, <<>>)
    [] x = "array" -> T("ARRAY", "", 2, <<>>, <<3, 1>>)
    [] x = "proto" -> T("FUNC_PROTO", "", 0, <<"p">>, <<0, 5>>)
    [] x = "var" -> T("VAR", "v", 0, <<>>, <<2>>)

\* The types of a unit; u.a is the type of A's member.
DedupUnit(u) ==
  <<T("INT", "int", 4, <<>>, <<>>), T("STRUCT", "A", 8, <<"m">>, <<u.a>>), T("PTR", "", 0, <<>>, <<4>>),
    BForm(u.b), T("PTR", "", 0, <<>>, <<2>>), Extra(u.x)>>

\* The same with the numbers of the types turned around.
Turned(ts) ==
  LET n == Len(ts)
      new(i) == IF i = 0 THEN 0 ELSE n + 1 - i
  IN [i \in DOMAIN ts |-> [ts[n + 1 - i] EXCEPT !.refs = [k \in DOMAIN @ |-> new(@[k])]]]

Shift(ts, by) == [i \in DOMAIN ts |-> [ts[i] EXCEPT !.refs = [k \in DOMAIN @ |-> IF @[k] = 0 THEN 0 ELSE @[k] + by]]]

UnitTypes(u) == IF u.turned THEN Turned(DedupUnit(u)) ELSE DedupUnit(u)
Units(us) == FoldLeft(LAMBDA ts, u : ts \o Shift(UnitTypes(u), Len(ts)), <<>>, us)

AMembers == {1, 3, 5, 6}
Us(bs, xs, as) == {u \in [a : as, b : bs, x : xs, turned : BOOLEAN] : u.a = 6 => u.x \in {"typedef", "enum", "array"}}

\* A struct whose member is a variable, which no compiler writes.
Broken == [a : {6}, b : {"fwd", "int"}, x : {"var"}, turned : BOOLEAN]

DedupInputs ==
  LET all == Us({"fwd", "int", "ptrA", "ptrB", "fwdunion", "union"}, {"typedef", "enum", "enumfwd", "array", "proto", "var"}, AMembers)
      few == Us({"fwd", "int", "ptrA", "ptrB"}, {"typedef", "enumfwd"}, {1, 3, 6})
      tri == {u \in Us({"fwd", "int", "ptrA"}, {"typedef"}, {3, 5}) : ~u.turned}
  IN {[algo |-> "dedup", units |-> <<u, v>>, fwds |-> TRUE, newest |-> n] : u \in {w \in few : ~w.turned}, v \in all, n \in BOOLEAN}
     \cup {[algo |-> "dedup", units |-> <<u, v>>, fwds |-> TRUE, newest |-> u.turned] : u \in few, v \in all}
     \cup {[algo |-> "dedup", units |-> <<u, v>>, fwds |-> FALSE, newest |-> TRUE] : u \in few, v \in few}
     \cup {[algo |-> "dedup", units |-> <<u, v, w>>, fwds |-> TRUE, newest |-> n] : u, v, w \in tri, n \in BOOLEAN}
     \cup {[algo |-> "dedup", units |-> <<u, v>>, fwds |-> TRUE, newest |-> n] : u, v \in Broken, n \in BOOLEAN}

\* String sections: the empty string, then strings of the length of their
\* text, and references to the starts of strings.
Section1(texts) ==
  [k \in 1..(Len(texts) + 1) |->
     [at |-> IF k = 1 THEN 0 ELSE 1 + FoldLeft(LAMBDA n, x : n + x + 1, 0, SubSeq(texts, 1, k - 2)),
      text |-> IF k = 1 THEN 0 ELSE texts[k - 1], len |-> IF k = 1 THEN 0 ELSE texts[k - 1]]]

StringInputs ==
  UNION {[algo : {"strings"}, strs : {Section1(x)}, refs : BoundedSeq({s.at : s \in Range(Section1(x))}, 2)] :
           x \in BoundedSeq(1..3, 4)}

StringNext == Compute("strings", LAMBDA c : btf_dedup_strings(c.strs, c.refs))

DedupNext ==
  /\ in.algo = "dedup"
  /\ \/ /\ pc = "start"
        /\ out' = btf_dedup_new(Units(in.units), in.newest)
        /\ pc' = Passes[1]
     \/ \E k \in 1..(Len(Passes) - 1) :
          /\ pc = Passes[k]
          /\ out' = btf__dedup(out, pc, in.fwds)
          /\ pc' = Passes[k + 1]
  /\ UNCHANGED in

-----------------------------------------------------------------------------
(* Properties *)

IsBroken == in.units[1] \in Broken
IsDedup == Is("dedup") /\ ~IsBroken

\* t may stand for s: it is the same type, or s is only the forward
\* declaration of it.
StandsFor(t, s) ==
  \/ t.kind = s.kind /\ t.name = s.name /\ t.info = s.info /\ t.labels = s.labels /\ Len(t.refs) = Len(s.refs)
  \/ in.fwds /\ s.kind = "FWD" /\ t.kind = s.info /\ t.name = s.name
  \/ in.fwds /\ btf_is_enum_fwd(s) /\ t.kind = "ENUM" /\ t.name = s.name /\ t.info = s.info

Final(id) == IF id = 0 THEN 0 ELSE out.final[id]

\* Deduplication keeps the meaning of every type: its representative looks
\* the same and refers, place by place, to the representatives of what it
\* referred to (btf__dedup).  Only types that refer to a variable as to a
\* type are refused.
MeaningKept ==
  /\ Is("dedup") => (out.err = "EINVAL") = IsBroken
  /\ IsDedup =>
    LET old == Units(in.units) IN
    /\ out.err = "ok"
    /\ \A i \in DOMAIN old :
         LET t == out.types[out.final[i]]
         IN /\ StandsFor(t, old[i])
            /\ t.kind = old[i].kind => \A k \in DOMAIN t.refs : t.refs[k] = Final(old[i].refs[k])

\* The pairs of types that no path of references tells apart, found by
\* starting from those that look alike and dropping what leads elsewhere.
Alike(ts) ==
  LET look == {p \in (DOMAIN ts) \X (DOMAIN ts) : [ts[p[1]] EXCEPT !.refs = Len(@)] = [ts[p[2]] EXCEPT !.refs = Len(@)]}
      same(S, a, b) == a = b \/ <<a, b>> \in S
      drop(S, n) == {p \in S : \A k \in DOMAIN ts[p[1]].refs : same(S, ts[p[1]].refs[k], ts[p[2]].refs[k])}
  IN FoldLeft(drop, look, [n \in DOMAIN ts |-> n])

\* No two types of the result are alike, not even as parts of two copies of
\* a cycle; variables excepted, which are never merged (btf__dedup).
NoDuplicates == IsDedup => \A p \in Alike(out.types) : p[1] = p[2] \/ out.types[p[1]].kind = "VAR"

\* After the strings are deduplicated every reference reads the text it read
\* before, every text is there once, and none that nothing refers to; the
\* strings lie one behind the other (btf_dedup_strings).
StringsKept ==
  Is("strings") =>
    LET textAt(strs, o) == (CHOOSE s \in Range(strs) : s.at = o).text
        total == FoldLeft(LAMBDA n, s : n + s.len + 1, 0, out.strs)
    IN /\ out.err = "ok"
       /\ \A k \in DOMAIN in.refs : \E s \in Range(out.strs) :
            s.at = out.refs[k] /\ s.text = textAt(in.strs, in.refs[k])
       /\ \A s, t \in Range(out.strs) : s.text = t.text => s = t
       /\ \A s \in Range(out.strs) : s.at = 0 \/ s.at \in Range(out.refs)
       /\ \A s \in Range(out.strs) : s.at + s.len + 1 = total
                                     \/ \E t \in Range(out.strs) : t.at = s.at + s.len + 1
==============================================================================
