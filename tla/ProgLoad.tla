------------------------------ MODULE ProgLoad ------------------------------
(***************************************************************************)
(* Loading a program into the kernel, and the probes that load throw-away  *)
(* programs, maps and BTF to learn what the kernel can do: load_program    *)
(* and bpf_object__probe_caps (libbpf.c), bpf_load_program_xattr (bpf.c)    *)
(* and libbpf_probes.c.  Each is a conversation with the kernel in which   *)
(* an answer may ask for another attempt: EAGAIN to repeat the call, E2BIG *)
(* with a smaller record size to cut the debug records, any failure to     *)
(* repeat with a log, ENOSPC to repeat with a longer log.                  *)
(*                                                                         *)
(* One call is followed from start to end.  The kernel is a record chosen  *)
(* in the initial state, so that the answers agree with one another; the   *)
(* allocations may fail at most MaxNoMem times and the kernel answers      *)
(* EAGAIN at most MaxAgain times.                                          *)
(***************************************************************************)
EXTENDS Integers, Sequences, FiniteSets

CONSTANTS
  Worlds,          \* what is called, for which program, on which kernel
  LogBufSize,      \* BPF_LOG_BUF_SIZE, in lines of log
  MaxAgain, MaxNoMem

VARIABLES
  w,               \* the call, the program and the kernel
  pc,              \* the next step
  cont,            \* the step after bpf_load_program_xattr
  arg,             \* load_attr, log_buf and log_buf_sz of that call
  attr,            \* union bpf_attr, which the kernel may modify
  try,             \* which attempt of bpf_load_program_xattr this is
  heap,            \* the blocks malloc returned and free has not seen
  open,            \* the descriptors the call holds
  fd, errno,       \* the last result and errno
  log,             \* what log_buf holds
  ret,             \* what the call returns
  caps,            \* obj->caps
  seen,            \* the debug records of the program the kernel accepted
  budget           \* the transient failures still to come

vars == <<w, pc, cont, arg, attr, try, heap, open, fd, errno, log, ret, caps, seen, budget>>

----------------------------------------------------------------------------
(* The kernel.                                                             *)

NoInfo == [recs |-> <<>>, size |-> 0]

\* The size of the records, in words, which the kernel would rather have: the
\* one it knows when some record has a word beyond it that is not zero.
Known(info, size) ==
  IF info.size > size /\ \E r \in 1 .. Len(info.recs), i \in size + 1 .. info.size : info.recs[r][i] # 0
  THEN size ELSE info.size

\* BPF_PROG_LOAD: the error, or "ok"; the checks in the kernel's order.
Verdict(a) ==
  LET k == w.kernel IN
  CASE ~k.permitted                             -> "EPERM"
    [] w.prog.big                               -> "E2BIG"
    [] a.named /\ "name" \notin k.knows         -> "EINVAL"
    [] a.value /\ "global_data" \notin k.knows  -> "EINVAL"
    [] a.type \notin k.types                    -> "EINVAL"
    [] Known(a.func, k.words) # a.func.size     -> "E2BIG"
    [] Known(a.line, k.words) # a.line.size     -> "E2BIG"
    [] a.log_size > 0 /\ a.log_size < k.lines   -> "ENOSPC"
    [] a.type \notin w.prog.valid               -> "EACCES"
    [] OTHER                                    -> "ok"

\* The verifier ran, and wrote to the log if it was given one.
Verified(v) == v \in {"ENOSPC", "EACCES", "ok"}

----------------------------------------------------------------------------
Init ==
  /\ w \in Worlds
  /\ pc = w.call /\ cont = w.call /\ try = "first"
  /\ arg = [type |-> w.prog.type, named |-> "name" \in w.kernel.knows, value |-> FALSE, func |-> w.prog.func,
            line |-> w.prog.line, log_level |-> w.prog.log_level, buf |-> FALSE, size |-> LogBufSize]
  /\ attr = [type |-> "none", named |-> FALSE, value |-> FALSE, func |-> NoInfo, line |-> NoInfo, log_size |-> 0]
  /\ heap = {} /\ open = {} /\ fd = "none" /\ errno = "0" /\ log = "unset" /\ ret = "none"
  /\ caps = {} /\ seen = <<NoInfo, NoInfo>>
  /\ budget = [again |-> MaxAgain, nomem |-> MaxNoMem]

Fails(kind) == budget[kind] > 0 /\ budget' = [budget EXCEPT ![kind] = @ - 1]

\* Call bpf_load_program_xattr with these arguments; it returns to step `to`.
Xattr(a, to) == arg' = a /\ cont' = to /\ pc' = "xattr"
Finish(r) == ret' = r /\ pc' = "done"
\* The arguments of a probe: two instructions, no debug records.
ProbeArg(type, named, value, size) ==
  [type |-> type, named |-> named, value |-> value, func |-> NoInfo, line |-> NoInfo,
   log_level |-> 0, buf |-> size > 0, size |-> size]

----------------------------------------------------------------------------
(* bpf_load_program_xattr.                                                 *)

\* The checks and the first attempt.
bpf_load_program_xattr ==
  /\ pc = "xattr"
  /\ IF arg.buf # (arg.size > 0) \/ (arg.log_level > 0 /\ ~arg.buf)
     THEN /\ fd' = "EINVAL" /\ pc' = cont
          /\ UNCHANGED <<attr, try>>
     ELSE /\ attr' = [type |-> arg.type, named |-> arg.named, value |-> arg.value, func |-> arg.func,
                      line |-> arg.line, log_size |-> IF arg.log_level > 0 THEN arg.size ELSE 0]
          /\ try' = "first" /\ pc' = "syscall"
          /\ UNCHANGED fd
  /\ UNCHANGED <<w, cont, arg, heap, open, errno, log, ret, caps, seen, budget>>

\* The kernel asks for the call again, and sys_bpf_prog_load repeats it.
AnswerAgain ==
  /\ pc = "syscall"
  /\ Fails("again")
  /\ errno' = "EAGAIN"
  /\ UNCHANGED <<w, pc, cont, arg, attr, try, heap, open, fd, log, ret, caps, seen>>

\* The call itself.  On E2BIG the kernel leaves its record sizes in attr.
sys_bpf_prog_load ==
  /\ pc = "syscall"
  /\ LET v == Verdict(attr)
         k == w.kernel.words
         f == Known(attr.func, k)
     IN
     /\ fd' = v
     /\ errno' = IF v = "ok" THEN errno ELSE v
     /\ open' = IF v = "ok" THEN open \cup {"prog"} ELSE open
     /\ seen' = IF v = "ok" THEN <<attr.func, attr.line>> ELSE seen
     /\ log' = IF attr.log_size > 0 /\ Verified(v) THEN "text" ELSE log
     /\ attr' = IF v # "E2BIG" \/ w.prog.big THEN attr
                ELSE IF f # attr.func.size THEN [attr EXCEPT !.func.size = f]
                ELSE [attr EXCEPT !.line.size = Known(attr.line, k)]
     /\ pc' = IF v = "ok" \/ try = "log" THEN "free" ELSE "hint"
  /\ UNCHANGED <<w, cont, arg, try, heap, ret, caps, budget>>

\* The records with the words the kernel does not know set to zero.
alloc_zero_tailing_info(recs, actual, expected) ==
  [r \in 1 .. Len(recs) |-> [i \in 1 .. actual |-> IF i <= expected THEN recs[r][i] ELSE 0]]

\* The field of attr whose records are cut next: one the kernel shortened and
\* that was not cut before.
Shortened == { f \in {"func", "line"} : f \notin heap /\ attr[f].size < arg[f].size }
Cut == IF errno # "E2BIG" THEN {} ELSE IF "func" \in Shortened THEN {"func"} ELSE Shortened

\* After a failure: cut the records the kernel complained of and try again ...
CutInfo ==
  /\ pc = "hint"
  /\ \E f \in Cut :
       \/ /\ heap' = heap \cup {f}
          /\ attr' = [attr EXCEPT ![f] = [recs |-> alloc_zero_tailing_info(arg[f].recs, arg[f].size, attr[f].size),
                                          size |-> arg[f].size]]
          /\ try' = "info" /\ pc' = "syscall"
          /\ UNCHANGED <<errno, budget>>
       \/ /\ Fails("nomem")
          /\ errno' = "ENOMEM" /\ pc' = "free"
          /\ UNCHANGED <<heap, attr, try>>
  /\ UNCHANGED <<w, cont, arg, open, fd, log, ret, caps, seen>>

WithLog_NotCleared ==
  /\ pc = "hint"
  /\ Cut = {}
  /\ IF arg.log_level > 0 \/ ~arg.buf
     THEN pc' = "free" /\ UNCHANGED <<attr, try>>
     ELSE /\ attr' = [attr EXCEPT !.log_size = arg.size]
          /\ try' = "log" /\ pc' = "syscall"
  /\ UNCHANGED <<w, cont, arg, heap, open, fd, errno, log, ret, caps, seen, budget>>

\* ... or, when there is nothing to cut, once more with the log.
WithLog ==
  /\ pc = "hint"
  /\ Cut = {}
  /\ IF arg.log_level > 0 \/ ~arg.buf
     THEN pc' = "free" /\ UNCHANGED <<attr, try, log>>
     ELSE /\ attr' = [attr EXCEPT !.log_size = arg.size]
          /\ log' = "empty"
          /\ try' = "log" /\ pc' = "syscall"
  /\ UNCHANGED <<w, cont, arg, heap, open, fd, errno, ret, caps, seen, budget>>

\* done: both copies are freed on every path.
FreeInfo ==
  /\ pc = "free"
  /\ heap' = heap \ {"func", "line"} /\ pc' = cont
  /\ UNCHANGED <<w, cont, arg, attr, try, open, fd, errno, log, ret, caps, seen, budget>>

xattr == <<arg, cont, attr, try, seen>>

----------------------------------------------------------------------------
(* load_program.                                                           *)

\* retry_load: a log buffer of the current size; without one the call goes on.
AllocLog ==
  /\ pc = "load_program"
  /\ \/ /\ heap' = heap \cup {"log"} /\ log' = "unset"
        /\ Xattr([arg EXCEPT !.buf = TRUE], "loaded")
        /\ UNCHANGED <<errno, budget>>
     \/ /\ Fails("nomem") /\ errno' = "ENOMEM"
        /\ Xattr([arg EXCEPT !.buf = FALSE], "loaded")
        /\ UNCHANGED <<heap, log>>
  /\ UNCHANGED <<w, attr, try, open, fd, ret, caps, seen>>

\* log_buf[0] != '\0': memory nobody wrote to may hold anything.
LogText == CASE ~arg.buf -> {FALSE} [] log = "unset" -> BOOLEAN [] OTHER -> {log = "text"}

\* log_buf_size <<= 1
GrowLog == [arg EXCEPT !.size = 2 * @]

\* The result of the attempt: the program, a longer log, or an error that
\* depends on the log, on the program's size and on whether the program would
\* load as a kprobe.
Loaded ==
  /\ pc = "loaded"
  /\ \/ /\ fd = "ok"
        /\ heap' = heap \ {"log"} /\ Finish("ok")
        /\ UNCHANGED <<arg, cont>>
     \/ /\ fd # "ok" /\ errno = "ENOSPC"
        /\ heap' = heap \ {"log"} /\ arg' = GrowLog /\ pc' = "load_program"
        /\ UNCHANGED <<ret, cont>>
     \/ /\ fd # "ok" /\ errno # "ENOSPC"
        /\ \E text \in LogText :
             \/ text /\ Finish("VERIFY") /\ UNCHANGED <<arg, cont>>
             \/ ~text /\ w.prog.big /\ Finish("PROG2BIG") /\ UNCHANGED <<arg, cont>>
             \/ ~text /\ ~w.prog.big /\ arg.type = "kprobe" /\ Finish(errno) /\ UNCHANGED <<arg, cont>>
             \/ /\ ~text /\ ~w.prog.big /\ arg.type # "kprobe"
                /\ ret' = errno
                /\ Xattr([arg EXCEPT !.type = "kprobe", !.buf = FALSE, !.size = 0], "kprobe")
        /\ heap' = IF pc' = "done" THEN heap \ {"log"} ELSE heap
  /\ UNCHANGED <<w, attr, try, open, fd, errno, log, caps, seen, budget>>

\* Wrong program type?
TriedKprobe ==
  /\ pc = "kprobe"
  /\ Finish(IF fd = "ok" THEN "PROGTYPE" ELSE ret)
  /\ open' = open \ {"prog"}
  /\ heap' = heap \ {"log"}
  /\ UNCHANGED <<w, xattr, fd, errno, log, caps, budget>>

----------------------------------------------------------------------------
(* bpf_object__probe_caps: four probes in turn.  A probe that fails leaves *)
(* its capability unset and the next one runs.                             *)

\* The throw-away program is closed; the capability is set if it loaded.
Close == open' = open \ {"prog"}
Unchanged == UNCHANGED <<w, xattr, heap, fd, errno, log, ret, budget>>

ProbeName ==
  /\ pc = "probe_caps"
  /\ Xattr(ProbeArg("filter", FALSE, FALSE, 0), "probe_named")
  /\ UNCHANGED <<w, attr, try, heap, open, fd, errno, log, ret, caps, seen, budget>>

\* make sure basic loading works, then try with the name
ProbeNamed ==
  /\ pc = "probe_named"
  /\ Close
  /\ IF fd = "ok" THEN Xattr(ProbeArg("filter", TRUE, FALSE, 0), "probe_name_done")
     ELSE pc' = "probe_map" /\ UNCHANGED <<arg, cont>>
  /\ UNCHANGED <<w, attr, try, heap, fd, errno, log, ret, caps, seen, budget>>

bpf_object__probe_name ==
  /\ pc = "probe_name_done"
  /\ Close /\ pc' = "probe_map"
  /\ caps' = IF fd = "ok" THEN caps \cup {"name"} ELSE caps
  /\ Unchanged

\* The map whose value the program reads.
ProbeMap ==
  /\ pc = "probe_map"
  /\ \/ /\ w.kernel.permitted
        /\ open' = open \cup {"map"}
        /\ Xattr(ProbeArg("filter", FALSE, TRUE, 0), "probe_data")
        /\ UNCHANGED <<errno, budget>>
     \/ /\ ~w.kernel.permitted \/ Fails("nomem")
        /\ budget' = IF w.kernel.permitted THEN [budget EXCEPT !.nomem = @ - 1] ELSE budget
        /\ errno' = IF w.kernel.permitted THEN "ENOMEM" ELSE "EPERM"
        /\ pc' = "probe_btf_func"
        /\ UNCHANGED <<open, arg, cont>>
  /\ UNCHANGED <<w, attr, try, heap, fd, log, ret, caps, seen>>

bpf_object__probe_global_data ==
  /\ pc = "probe_data"
  /\ open' = open \ {"prog", "map"}
  /\ caps' = IF fd = "ok" THEN caps \cup {"global_data"} ELSE caps
  /\ pc' = "probe_btf_func"
  /\ Unchanged

\* libbpf__load_raw_btf: the header, types and strings in one block, loaded
\* and freed; the descriptor is closed by the caller.
LoadRawBtf(kind, got, not) ==
  \/ w.kernel.permitted /\ kind \in w.kernel.knows /\ got /\ UNCHANGED budget
  \/ (~w.kernel.permitted \/ kind \notin w.kernel.knows) /\ not /\ UNCHANGED budget
  \/ Fails("nomem") /\ not

bpf_object__probe_btf_func ==
  /\ pc = "probe_btf_func"
  /\ LoadRawBtf("btf_func", caps' = caps \cup {"btf_func"}, UNCHANGED caps)
  /\ pc' = "probe_btf_datasec"
  /\ UNCHANGED <<w, xattr, heap, open, fd, errno, log, ret>>

bpf_object__probe_btf_datasec ==
  /\ pc = "probe_btf_datasec"
  /\ LoadRawBtf("btf_datasec", caps' = caps \cup {"btf_datasec"}, UNCHANGED caps)
  /\ Finish("ok")
  /\ UNCHANGED <<w, xattr, heap, open, fd, errno, log>>

----------------------------------------------------------------------------
(* libbpf_probes.c.                                                        *)

\* bpf_probe_prog_type: errno is cleared, the program loaded without a log.
ProbeType ==
  /\ pc = "probe_prog_type"
  /\ errno' = "0"
  /\ Xattr(ProbeArg(w.prog.type, FALSE, FALSE, 0), "probed_type")
  /\ UNCHANGED <<w, attr, try, heap, open, fd, log, ret, caps, seen, budget>>

bpf_probe_prog_type ==
  /\ pc = "probed_type"
  /\ Close
  /\ Finish(IF errno \notin {"EINVAL", "EOPNOTSUPP"} THEN "TRUE" ELSE "FALSE")
  /\ UNCHANGED <<w, xattr, heap, fd, errno, log, caps, budget>>

\* bpf_probe_helper: one call of the helper, with a buffer for the log, which
\* is on the stack and zeroed.
ProbeHelper ==
  /\ pc = "probe_helper"
  /\ log' = "empty"
  /\ Xattr(ProbeArg(w.prog.type, FALSE, FALSE, LogBufSize), "probed_helper")
  /\ UNCHANGED <<w, attr, try, heap, open, fd, errno, ret, caps, seen, budget>>

\* grep for "invalid func" and "unknown func"; the program calls the helper
\* with no arguments, so the log of a known helper complains of something else.
Refused == log = "text" /\ "helper" \notin w.kernel.knows

\* For a device the vendor's file is opened next.
ProbedHelper ==
  /\ pc = "probed_helper"
  /\ open' = IF w.dev.vendor = "none" THEN open \ {"prog"} ELSE (open \ {"prog"}) \cup {"vendor"}
  /\ IF w.dev.vendor = "none" THEN Finish(IF Refused THEN "FALSE" ELSE "TRUE")
     ELSE pc' = "vendor" /\ UNCHANGED ret
  /\ UNCHANGED <<w, xattr, heap, fd, errno, log, caps, budget>>

\* get_vendor_id, and for Netronome two more texts to look for, those of a
\* firmware without the helper.  A vendor that cannot be read is no vendor.
bpf_probe_helper ==
  /\ pc = "vendor"
  /\ open' = open \ {"vendor"}
  /\ \E readable \in BOOLEAN :
       /\ \/ readable /\ UNCHANGED budget
          \/ ~readable /\ Fails("nomem")
       /\ Finish(IF Refused \/ (readable /\ w.dev.vendor = "netronome" /\ log = "text" /\ ~w.dev.fw)
                 THEN "FALSE" ELSE "TRUE")
  /\ UNCHANGED <<w, xattr, heap, fd, errno, log, caps>>

\* bpf_probe_map_type: a map of sockets' storage needs BTF first, a map of maps
\* a map to hold (and is not probed on a device).
ProbeMapType ==
  /\ pc = "probe_map_type"
  /\ LET needs == CASE w.prog.type = "sk_storage" -> "btf" [] w.prog.type = "of_maps" -> "inner" [] OTHER -> "none"
     IN
     \/ /\ needs # "none" /\ (w.kernel.permitted => Fails("nomem"))
        /\ budget' = IF w.kernel.permitted THEN [budget EXCEPT !.nomem = @ - 1] ELSE budget
        /\ Finish("FALSE") /\ UNCHANGED open
     \/ /\ needs # "none" => w.kernel.permitted
        /\ open' = IF needs = "none" THEN open ELSE open \cup {needs}
        /\ pc' = "create_map" /\ UNCHANGED <<ret, budget>>
  /\ UNCHANGED <<w, xattr, heap, fd, errno, log, caps>>

\* Whether the map could be created; everything opened for it is closed.
bpf_probe_map_type ==
  /\ pc = "create_map"
  /\ open' = open \ {"inner", "btf"}
  /\ Finish(IF w.kernel.permitted /\ w.prog.type \in w.kernel.types THEN "TRUE" ELSE "FALSE")
  /\ UNCHANGED <<w, xattr, heap, fd, errno, log, caps, budget>>

----------------------------------------------------------------------------
Next ==
  \/ bpf_load_program_xattr \/ AnswerAgain \/ sys_bpf_prog_load \/ CutInfo \/ WithLog \/ FreeInfo
  \/ AllocLog \/ Loaded \/ TriedKprobe
  \/ ProbeName \/ ProbeNamed \/ bpf_object__probe_name \/ ProbeMap \/ bpf_object__probe_global_data
  \/ bpf_object__probe_btf_func \/ bpf_object__probe_btf_datasec
  \/ ProbeType \/ bpf_probe_prog_type \/ ProbeHelper \/ ProbedHelper \/ bpf_probe_helper
  \/ ProbeMapType \/ bpf_probe_map_type

Spec == Init /\ [][Next]_vars

Done == pc = "done"
Smooth == budget.nomem = MaxNoMem

----------------------------------------------------------------------------
\* A call that has returned holds no memory and no descriptor, except the
\* program load_program hands to its caller (load_program, the probes and
\* every goto of bpf_load_program_xattr).
LoadHoldsNothing ==
  Done => heap = {} /\ open = IF ret = "ok" /\ w.call = "load_program" THEN {"prog"} ELSE {}

\* The debug records the kernel accepts with a program are the program's own
\* in every word the kernel knows, whichever of them had to be cut and in
\* whatever order the kernel complained (bpf_load_program_xattr).
InfoKept ==
  Done /\ w.call = "load_program" /\ ret = "ok" =>
    \A i \in 1 .. 2 :
      LET given == <<w.prog.func, w.prog.line>>[i] IN
      /\ Len(seen[i].recs) = Len(given.recs)
      /\ \A r \in 1 .. Len(given.recs), j \in 1 .. given.size :
           j <= w.kernel.words => seen[i].recs[r][j] = given.recs[r][j]

\* What load_program returns is true of the program, unless an allocation
\* failed or the caller asked for the log (then log_buf is read before
\* anything was written to it): it loads every program the kernel accepts
\* once its records are cut, blames the verifier only for a program the
\* verifier rejected, and the type only for one that would load as a kprobe.
ReasonTrue ==
  LET k == w.kernel
      ok(type) == k.permitted /\ ~w.prog.big /\ type \in k.types \cap w.prog.valid
  IN Done /\ w.call = "load_program" /\ Smooth /\ w.prog.log_level = 0 =>
       /\ (ret = "ok") = ok(w.prog.type)
       /\ ret = "VERIFY" => w.prog.type \notin w.prog.valid
       /\ ret = "PROGTYPE" => ok("kprobe")

\* A probe answers what the kernel can do: a capability is set only if the
\* kernel has it, and, when no allocation failed and the caller may load
\* programs, exactly then; the same for types, map types and helpers.  What
\* the firmware of a device lacks is known of Netronome's only
\* (bpf_object__probe_caps, libbpf_probes.c).
ProbesRight ==
  LET k == w.kernel IN
  Done =>
    /\ w.call = "probe_caps" =>
         /\ caps \subseteq k.knows
         /\ k.permitted /\ "filter" \in k.types /\ Smooth => caps = k.knows \ {"helper"}
    /\ k.permitted /\ Smooth =>
         /\ w.call \in {"probe_prog_type", "probe_map_type"} => (ret = "TRUE") = (w.prog.type \in k.types)
         /\ w.call = "probe_helper" /\ w.prog.type \in k.types =>
              (ret = "TRUE") = ("helper" \in k.knows /\ (w.dev.vendor = "netronome" => w.dev.fw))
=============================================================================
