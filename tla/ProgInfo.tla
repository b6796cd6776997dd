------------------------------ MODULE ProgInfo -------------------------------
(***************************************************************************)
(* What libbpf reads back of the system: the arrays of a loaded program in *)
(* one block of memory (bpf_program__get_prog_info_linear and the          *)
(* functions that move the block), its line information (bpf_prog_linfo.c) *)
(* and the number of processors.  A block is a function from offsets to    *)
(* the bytes in it; an address is a base and an offset.                    *)
(***************************************************************************)
EXTENDS Cases, Integers, SequencesExt, FiniteSetsExt

\* The rows of bpf_prog_info_array_desc: the place of the pointer, of the
\* count and of the size of a record in struct bpf_prog_info, or the size
\* itself as a negative number.
Desc(name, array, count, size) == [name |-> name, array_offset |-> array, count_offset |-> count, size_offset |-> size]
bpf_prog_info_array_desc == <<
  Desc("jited_insns", 24, 16, -1), Desc("xlated_insns", 32, 20, -1), Desc("map_ids", 56, 52, -4),
  Desc("jited_ksyms", 112, 104, -8), Desc("jited_func_lens", 120, 108, -4), Desc("func_info", 136, 144, 132),
  Desc("line_info", 152, 148, 172), Desc("jited_line_info", 160, 168, 176), Desc("prog_tags", 184, 180, -8) >>
Arrays == DOMAIN bpf_prog_info_array_desc

\* A field of info, or the fixed size.
bpf_prog_info_read_offset(info, offset) == IF offset >= 0 THEN info[offset] ELSE -offset

\* Step 2: the arrays asked for that this kernel knows.
Included(asked, info_len) ==
  {i \in asked : LET d == bpf_prog_info_array_desc[i] IN
                 /\ info_len >= d.array_offset + 4 /\ info_len >= d.count_offset + 4
                 /\ d.size_offset > 0 => info_len >= d.size_offset}

\* count * size
ArrayLen(info, i) ==
  LET d == bpf_prog_info_array_desc[i]
  IN bpf_prog_info_read_offset(info, d.count_offset) * bpf_prog_info_read_offset(info, d.size_offset)

LenBefore(info, arrays, i) == MapThenSumSet(LAMBDA j : ArrayLen(info, j), {j \in arrays : j < i})
Roundup8(n) == ((n + 7) \div 8) * 8

\* The kernel fills an array with no more records than it is given room for;
\* the size of a record is its own.
KernelBytes(kernel, i, room) ==
  LET d == bpf_prog_info_array_desc[i]
      now == kernel.again[d.count_offset]
  IN (IF now < room THEN now ELSE room) * bpf_prog_info_read_offset(kernel.info, d.size_offset)

\* Steps 3 to 7: room for the arrays one behind the other, then the second
\* call of the kernel with pointers to them.
bpf_program__get_prog_info_linear(kernel, asked) ==
  LET info == kernel.info
      arrays == Included(asked, kernel.info_len)
      at == [i \in arrays |-> LenBefore(info, arrays, i)]
      room(i) == info[bpf_prog_info_array_desc[i].count_offset]
  IN [arrays |-> arrays, base |-> kernel.base,
      data_len |-> Roundup8(LenBefore(info, arrays, Len(bpf_prog_info_array_desc) + 1)),
      array |-> [i \in arrays |-> kernel.base + at[i]],
      count |-> [i \in arrays |-> kernel.again[bpf_prog_info_array_desc[i].count_offset]],
      bytes |-> UNION {{<<i, k, at[i] + k>> : k \in 0 .. KernelBytes(kernel, i, room(i)) - 1} : i \in arrays}]

bpf_program__bpil_addr_to_offs(linear) == [linear EXCEPT !.array = [i \in linear.arrays |-> @[i] - linear.base]]
bpf_program__bpil_offs_to_addr(linear) == [linear EXCEPT !.array = [i \in linear.arrays |-> @[i] + linear.base]]

-----------------------------------------------------------------------------
(* Line information.  l has the instruction offset (insn) and the address  *)
(* in machine code (jited) of each line; ksym and len the functions.       *)

NoLines == [ok |-> FALSE, nr |-> 0, func_idx |-> <<>>, per_func |-> <<>>]

\* One turn of the loop of dissect_jited_func; line i, the next function f.
DissectLine(l, ksym, len, v, i) ==
  LET f == v.f IN
  IF v.err \/ f > Len(ksym) THEN v
  ELSE IF ksym[f] = l.jited[i]
       THEN [v EXCEPT !.err = l.jited[i - 1] - ksym[f - 1] + 1 > len[f - 1],
                      !.func_idx = Append(@, i), !.per_func = Append(@, i - v.prev), !.prev = i, !.f = f + 1]
       ELSE [v EXCEPT !.err = l.jited[i] <= l.jited[i - 1]]

\* Where each function's lines begin and how many it has.
dissect_jited_func(l, ksym, len) ==
  LET n == Len(l.jited)
      first == [err |-> ksym[1] # l.jited[1], f |-> 2, prev |-> 1, func_idx |-> <<1>>, per_func |-> <<>>]
      v == FoldLeft(LAMBDA a, i : DissectLine(l, ksym, len, a, i), first, [i \in 1 .. n - 1 |-> i + 1])
  IN [ok |-> ~v.err /\ v.f = Len(ksym) + 1, func_idx |-> v.func_idx, per_func |-> Append(v.per_func, n + 1 - v.prev)]

\* Nothing without lines; only the instructions' lines when the machine
\* code's do not match them; nothing at all when they match and are wrong.
bpf_prog_linfo__new(l, ksym, len) ==
  IF l.insn = <<>> THEN [err |-> TRUE, jited |-> NoLines]
  ELSE IF ksym = <<>> \/ Len(l.jited) # Len(l.insn) \/ Len(len) # Len(ksym) THEN [err |-> FALSE, jited |-> NoLines]
  ELSE LET d == dissect_jited_func(l, ksym, len)
       IN IF ~d.ok THEN [err |-> TRUE, jited |-> NoLines]
          ELSE [err |-> FALSE, jited |-> [ok |-> TRUE, nr |-> Len(ksym), func_idx |-> d.func_idx, per_func |-> d.per_func]]

\* The search common to both functions: the line before the first one, from
\* start on and among n, that lies beyond x; 0 when x lies before them all.
Lfind(keys, x, start, n) ==
  LET beyond == {i \in start .. start + n - 1 : x < keys[i]}
  IN IF x < keys[start] THEN 0 ELSE IF beyond = {} THEN start + n - 1 ELSE Min(beyond) - 1

bpf_prog_linfo__lfind(l, insn_off, nr_skip) ==
  IF nr_skip >= Len(l.insn) THEN 0 ELSE Lfind(l.insn, insn_off, nr_skip + 1, Len(l.insn) - nr_skip)

\* func_idx counts functions from 0.
bpf_prog_linfo__lfind_addr_func(l, jited, addr, func_idx, nr_skip) ==
  IF func_idx >= jited.nr THEN 0
  ELSE LET n == jited.per_func[func_idx + 1] IN
       IF nr_skip >= n THEN 0
       ELSE Lfind(l.jited, addr, jited.func_idx[func_idx + 1] + nr_skip, n - nr_skip)

-----------------------------------------------------------------------------
(* /sys/devices/system/cpu/possible: numbers and ranges between commas.    *)

\* sscanf reads a number, a range or nothing; a number is a range of one.
CountRange(v, r) ==
  IF r.read = 0 THEN [v EXCEPT !.err = TRUE]
  ELSE LET end == IF r.read = 1 THEN r.lo ELSE r.hi
       IN [v EXCEPT !.cpus = @ + end - r.lo + 1, !.end = end]

\* The result is kept for the next call, an error is not.
libbpf_num_possible_cpus(cached, file) ==
  IF cached > 0 THEN [ret |-> cached, cached |-> cached]
  ELSE LET v == FoldLeft(LAMBDA a, r : IF a.err THEN a ELSE CountRange(a, r), [cpus |-> 0, end |-> 0, err |-> FALSE], file)
       IN IF v.err \/ v.cpus <= 0 THEN [ret |-> -1, cached |-> 0] ELSE [ret |-> v.cpus, cached |-> v.cpus]

------------------------------------------------------------------------------
(***************************************************************************)
(* Kernels of several ages and programs with arrays of several lengths;    *)
(* functions and lines at a few addresses; lists of processors.            *)
(***************************************************************************)

\* The lengths of struct bpf_prog_info over the years.
InfoLens == {40, 80, 104, 128, 192, 208}
CountOffsets == {bpf_prog_info_array_desc[i].count_offset : i \in Arrays}
SizeOffsets == {132, 172, 176}
\* Counts 0 to 2 in two patterns, records of 1 and 2 bytes; a kernel writes
\* nothing beyond the length it knows.
InfoOf(len, pattern) ==
  [o \in CountOffsets \cup SizeOffsets |->
     IF o + 4 > len THEN 0 ELSE IF o \in SizeOffsets THEN 1 + ((o \div 4) % 2) ELSE ((o \div 4) + pattern) % 3]
LinearInputs == [algo : {"linear"}, asked : SUBSET Arrays, len : InfoLens, pattern : 0 .. 2]
LinearOf(c) == [info |-> InfoOf(c.len, c.pattern), again |-> InfoOf(c.len, c.pattern), info_len |-> c.len, base |-> 1000]
LinearNext == Compute("linear", LAMBDA c : bpf_program__get_prog_info_linear(LinearOf(c), c.asked))

LineAddrs == 0 .. 5
FuncTables == [ksym : {<<0>>, <<2>>}, len : {<<2>>, <<4>>}]
                \cup [ksym : {<<0, 3>>, <<3, 0>>}, len : {<<2, 2>>, <<3, 1>>, <<3, 3>>}]
                \cup {[ksym |-> <<1, 2>>, len |-> <<1, 3>>], [ksym |-> <<2, 4, 0>>, len |-> <<2, 2, 2>>]}
LineInputs ==
  [algo : {"lines"}, table : FuncTables, jited : UNION {[1 .. n -> LineAddrs] : n \in 1 .. 4}]
LinesOf(c) == [insn |-> [i \in DOMAIN c.jited |-> 3 * (i - 1)], jited |-> c.jited]
LineNext == Compute("lines", LAMBDA c : bpf_prog_linfo__new(LinesOf(c), c.table.ksym, c.table.len))

RangesOf == {[read |-> 0, lo |-> 0, hi |-> 0]} \cup [read : {1}, lo : {0, 2, 5}, hi : {0}]
              \cup {[read |-> 2, lo |-> a, hi |-> b] : <<a, b>> \in {<<0, 3>>, <<4, 4>>, <<6, 7>>}}
CpuInputs == [algo : {"cpus"}, cached : {0, 3}, file : UNION {[1 .. n -> RangesOf] : n \in 1 .. 3}]
CpuNext == Compute("cpus", LAMBDA c : libbpf_num_possible_cpus(c.cached, c.file))

InfoNext == LinearNext \/ LineNext \/ CpuNext

-----------------------------------------------------------------------------
(* Properties *)

\* Every array that was asked for and that the kernel has comes back whole and
\* in the memory allocated for it, no byte of one over another, whatever the
\* age of the kernel (bpf_program__get_prog_info_linear).
InfoPacked ==
  Is("linear") =>
    LET info == InfoOf(in.len, in.pattern)
        has(d) == d.array_offset + 8 <= in.len /\ d.count_offset + 4 <= in.len /\ d.size_offset + 4 <= in.len
        whole(d) == info[d.count_offset] * (IF d.size_offset < 0 THEN -d.size_offset ELSE info[d.size_offset])
    IN /\ out.arrays = {i \in in.asked : has(bpf_prog_info_array_desc[i])}
       /\ \A b \in out.bytes : b[3] \in 0 .. out.data_len - 1
       /\ \A b, c \in out.bytes : b[3] = c[3] => b = c
       /\ \A i \in out.arrays : Cardinality({b \in out.bytes : b[1] = i}) = whole(bpf_prog_info_array_desc[i])

\* A block written out with offsets and read back elsewhere points to the
\* same bytes of the new block (bpf_program__bpil_addr_to_offs,
\* bpf_program__bpil_offs_to_addr).
InfoMoves ==
  Is("linear") =>
    LET moved == bpf_program__bpil_offs_to_addr([bpf_program__bpil_addr_to_offs(out) EXCEPT !.base = 5000])
    IN \A i \in out.arrays : moved.array[i] - 5000 = out.array[i] - 1000

\* The lines of function f under a division of the lines among the functions.
Share(starts, n, f) == starts[f] .. (IF f = Len(starts) THEN n ELSE starts[f + 1] - 1)
\* A kernel's lines: each function's begin at its entry, increase and stay
\* inside it.
WellLaid(starts) ==
  /\ starts[1] = 1 /\ \A f \in 2 .. Len(starts) : starts[f] > starts[f - 1]
  /\ \A f \in DOMAIN starts :
       LET s == Share(starts, Len(in.jited), f) IN
       /\ in.jited[starts[f]] = in.table.ksym[f]
       /\ \A i \in s : in.jited[i] \in in.table.ksym[f] .. in.table.ksym[f] + in.table.len[f] - 1
       /\ \A i, j \in s : i < j => in.jited[i] < in.jited[j]
Layouts == [DOMAIN in.table.ksym -> DOMAIN in.jited]

\* The line information of a program whose lines are laid out as the kernel
\* lays them out is accepted, each function gets its own lines, and an address
\* or an instruction is found on the last line that begins at or before it,
\* the skipped ones left out.  Information that is accepted has every function
\* begin at its entry (the lines of the last function are not looked at).
LinesFound ==
  Is("lines") =>
    LET l == LinesOf(in)
        n == Len(in.jited)
        d == out.jited
        laid == {s \in Layouts : WellLaid(s)}
        last(keys, x, from) == LET at == {i \in from : keys[i] <= x} IN IF at = {} THEN 0 ELSE Max(at)
    IN /\ laid # {} => ~out.err
       /\ ~out.err => \A f \in DOMAIN in.table.ksym : in.jited[d.func_idx[f]] = in.table.ksym[f]
       /\ \A s \in laid, f \in DOMAIN in.table.ksym, addr \in LineAddrs, skip \in 0 .. n :
            bpf_prog_linfo__lfind_addr_func(l, d, addr, f - 1, skip)
              = last(l.jited, addr, {i \in Share(s, n, f) : i >= s[f] + skip})
       \* which has nothing to do with the addresses
       /\ Range(in.jited) = {0} =>
            \A off \in 0 .. 12, skip \in 0 .. n : bpf_prog_linfo__lfind(l, off, skip) = last(l.insn, off, skip + 1 .. n)

\* The number of processors is that of the numbers and ranges listed, if no
\* processor is listed twice; a list that cannot be read is an error, and a
\* later call reads it again (libbpf_num_possible_cpus).
CpusCounted ==
  Is("cpus") =>
    LET cpus(r) == IF r.read = 1 THEN {r.lo} ELSE r.lo .. r.hi
        apart == \A i, j \in DOMAIN in.file : i # j => cpus(in.file[i]) \cap cpus(in.file[j]) = {}
        listed == UNION {cpus(in.file[i]) : i \in DOMAIN in.file}
    IN IF in.cached > 0 THEN out.ret = in.cached
       ELSE IF \E i \in DOMAIN in.file : in.file[i].read = 0 THEN out = [ret |-> -1, cached |-> 0]
       ELSE apart => out = [ret |-> Cardinality(listed), cached |-> Cardinality(listed)]
==============================================================================
