------------------------------- MODULE Config --------------------------------
(***************************************************************************)
(* The command line of the tools (common_params.c) and the MAC addresses   *)
(* of packet03's (xdp_prog_user.c).  A command line is the sequence of     *)
(* options getopt_long finds, each with its argument; "3" is               *)
(* --offload-mode, "1" --filename and "2" --progsec.                       *)
(***************************************************************************)
EXTENDS Cases, Integers, SequencesExt, FiniteSetsExt

\* devices are the names if_nametoindex knows, with their index.
UnknownDev(opt, devices) == opt.arg.long \/ opt.arg.name \notin DOMAIN devices

\* XDP_FLAGS_MODES are cleared, then at most one of them is set.
SetMode_NotCleared(cfg, modes) == [cfg EXCEPT !.modes = @ \cup modes]
SetMode(cfg, modes) == [cfg EXCEPT !.modes = modes]

\* xsk_bind_flags keeps the other of the two flags and gets this one.
SetBind(cfg, flag) == [cfg EXCEPT !.bind = (@ \cap ({"COPY", "ZEROCOPY"} \ {flag})) \cup {flag}]

\* One turn of the loop; exit is "usage" once the process has ended.
TakeOption(cfg, opt, devices) ==
  CASE opt.val \in {"d", "r"} ->
         IF UnknownDev(opt, devices) THEN [cfg EXCEPT !.exit = "usage"]
         ELSE IF opt.val = "d" THEN [cfg EXCEPT !.ifindex = devices[opt.arg.name]]
         ELSE [cfg EXCEPT !.redirect_ifindex = devices[opt.arg.name]]
    [] opt.val = "A" -> SetMode(cfg, {})
    [] opt.val = "S" -> SetBind(SetMode(cfg, {"SKB"}), "COPY")
    [] opt.val = "N" -> SetMode(cfg, {"DRV"})
    [] opt.val = "3" -> SetMode(cfg, {"HW"})
    [] opt.val = "F" -> [cfg EXCEPT !.noexist = FALSE]
    [] opt.val = "M" -> [cfg EXCEPT !.reuse_maps = TRUE]
    [] opt.val = "U" -> [cfg EXCEPT !.do_unload = TRUE]
    [] opt.val = "p" -> [cfg EXCEPT !.xsk_poll_mode = TRUE]
    [] opt.val = "q" -> [cfg EXCEPT !.verbose = FALSE]
    [] opt.val \in {"1", "2", "L", "R", "Q"} -> [cfg EXCEPT !.text[opt.val] = opt.arg.name]
    [] opt.val = "c" -> SetBind(cfg, "COPY")
    [] opt.val = "z" -> SetBind(cfg, "ZEROCOPY")
    [] opt.val \in {"h", "?"} -> [cfg EXCEPT !.exit = "usage"]

parse_cmdline_args(argv, cfg, devices) ==
  FoldLeft(LAMBDA c, opt : IF c.exit # "no" THEN c ELSE TakeOption(c, opt, devices), cfg, argv)

-----------------------------------------------------------------------------
(* A MAC address is text: a digit is its value, ":" is Colon.              *)

Colon == 16
IsDigit(c) == c < Colon

\* strtoul from a place on: as many digits as there are, 0 when there is none.
strtoul(str, at) ==
  FoldLeft(LAMBDA v, c : IF v.end \/ ~IsDigit(c) THEN [v EXCEPT !.end = TRUE] ELSE [v EXCEPT !.z = (16 * @) + c],
           [z |-> 0, end |-> FALSE], SubSeq(str, at, Len(str))).z

parse_u8(str, at) == LET z == strtoul(str, at) IN IF z > 255 THEN -1 ELSE z

\* Each byte has its fixed place in the text.
MacAt(i) == (3 * i) - 2

\* The bytes, or <<>> for the error.
parse_mac(str) ==
  LET mac == [i \in 1 .. 6 |-> parse_u8(str, MacAt(i))]
  IN IF \E i \in 1 .. 6 : mac[i] < 0 THEN <<>> ELSE mac

------------------------------------------------------------------------------
(***************************************************************************)
(* How xsk.c lays its rings over the memory the kernel maps: the sizes of   *)
(* the rings, where the kernel says each one's fields are, and the part of  *)
(* the mapping that is used.  Kernels up to 5.3 answer in a shorter format. *)
(***************************************************************************)

DefaultUmem == [fill_size |-> 2048, comp_size |-> 2048, frame_size |-> 4096, frame_headroom |-> 0, flags |-> 0]
DefaultSocket == [rx_size |-> 2048, tx_size |-> 2048, libbpf_flags |-> {}, xdp_flags |-> {}, bind_flags |-> {}]

\* A user's configuration is a sequence of none or one.
xsk_set_umem_config(usr_cfg) == IF usr_cfg = <<>> THEN DefaultUmem ELSE usr_cfg[1]

\* A flag that libbpf does not know refuses the whole configuration.
xsk_set_xdp_socket_config(usr_cfg) ==
  IF usr_cfg = <<>> THEN [err |-> FALSE, cfg |-> DefaultSocket]
  ELSE [err |-> ~(usr_cfg[1].libbpf_flags \subseteq {"INHIBIT_PROG_LOAD"}), cfg |-> usr_cfg[1]]

\* The fields of rx, tx, fr and cr, in this order in both formats.
RingNames == <<"rx", "tx", "fr", "cr">>
FieldsV1 == 3
FieldsNow == 4

\* Each offset at its new place; the flags are the word behind the consumer.
xsk_mmap_offsets_v1(off) ==
  [w \in 1 .. 16 |-> LET r == (w - 1) \div FieldsNow
                         f == 1 + ((w - 1) % FieldsNow)
                     IN IF f = 4 THEN off[(FieldsV1 * r) + 2] + 4 ELSE off[(FieldsV1 * r) + f]]

\* words is how many of the words the kernel filled in.
xsk_get_mmap_offsets(off, words) ==
  CASE words = 16 -> [err |-> FALSE, off |-> off]
    [] words = 12 -> [err |-> FALSE, off |-> xsk_mmap_offsets_v1(off)]
    [] OTHER -> [err |-> TRUE, off |-> off]

FieldsOf(off, r) ==
  [producer |-> off[(FieldsNow * (r - 1)) + 1], consumer |-> off[(FieldsNow * (r - 1)) + 2],
   desc |-> off[(FieldsNow * (r - 1)) + 3], flags |-> off[(FieldsNow * (r - 1)) + 4]]

\* An entry of the fill and completion rings is an address, of rx and tx a
\* struct xdp_desc.
EntrySize(r) == IF RingNames[r] \in {"rx", "tx"} THEN 16 ELSE 8

MapLength(f, size, entry) == f.desc + (size * entry)

\* A ring over its mapping.
MapRing(off, r, size) ==
  LET f == FieldsOf(off, r)
  IN [len |-> MapLength(f, size, EntrySize(r)), mask |-> size - 1, size |-> size,
      producer |-> f.producer, consumer |-> f.consumer, flags |-> f.flags, ring |-> f.desc, entry |-> EntrySize(r)]

\* The rings of a umem and a socket on it.
MapRings(off, words, umem_cfg, socket_cfg) ==
  LET got == xsk_get_mmap_offsets(off, words)
      u == xsk_set_umem_config(umem_cfg)
      s == xsk_set_xdp_socket_config(socket_cfg)
      size == <<s.cfg.rx_size, s.cfg.tx_size, u.fill_size, u.comp_size>>
  IN IF got.err \/ s.err THEN [err |-> TRUE, rings |-> <<>>]
     ELSE [err |-> FALSE, rings |-> [r \in 1 .. 4 |-> MapRing(got.off, r, size[r])]]

------------------------------------------------------------------------------
(***************************************************************************)
(* Command lines of up to MaxOptions options, texts of MAC addresses, and the    *)
(* ring layouts of kernels old and new.                                    *)
(***************************************************************************)

Devices == [name \in {"eth0", "eth1"} |-> IF name = "eth0" THEN 3 ELSE 4]
OptArg(name, long) == [name |-> name, long |-> long]
Option(val) == [val |-> val, arg |-> OptArg("", FALSE)]
Options ==
  {Option(v) : v \in {"A", "S", "N", "3", "F", "U", "c", "z", "?"}}
    \cup {[val |-> v, arg |-> OptArg(n, FALSE)] : v \in {"d", "r"}, n \in {"eth0", "eth1", "lost"}}
    \cup {[val |-> "d", arg |-> OptArg("eth0", TRUE)], [val |-> "2", arg |-> OptArg("xdp_pass", FALSE)]}
MaxOptions == 3

StartCfg(modes) ==
  [modes |-> modes, noexist |-> TRUE, bind |-> {}, ifindex |-> -1, redirect_ifindex |-> -1, do_unload |-> FALSE,
   reuse_maps |-> FALSE, xsk_poll_mode |-> FALSE, verbose |-> TRUE, text |-> [o \in {"1", "2", "L", "R", "Q"} |-> ""],
   exit |-> "no"]
ArgsInputs == [algo : {"args"}, modes : {{}, {"DRV"}}, argv : SeqOf(Options, MaxOptions)]
ArgsNext == Compute("args", LAMBDA c : parse_cmdline_args(c.argv, StartCfg(c.modes), Devices))

\* Bytes written with two digits, with one, or with three.
ByteText(b, digits) == IF digits = 1 THEN <<b % 16>> ELSE IF digits = 2 THEN <<b \div 16, b % 16>> ELSE <<b \div 16, b % 16, 1>>
MacText(c) == FoldLeft(LAMBDA s, i : s \o (IF i = 1 THEN <<>> ELSE <<Colon>>) \o ByteText(c.mac[i], IF i = c.odd THEN c.digits ELSE 2),
                       <<>>, [i \in 1 .. 6 |-> i])
MacInputs == [algo : {"mac"}, mac : [1 .. 6 -> {0, 26, 255}], odd : 0 .. 6, digits : {1, 3}]
MacNext == Compute("mac", LAMBDA c : parse_mac(MacText(c)))

\* The kernel gives producer and consumer a cache line each, then flags on a
\* kernel that has them, then the entries.
KernelOffsets(c) ==
  IF c.words = 16
  THEN [w \in 1 .. 16 |-> LET r == (w - 1) \div 4 IN
          CASE (w - 1) % 4 = 0 -> c.line * r [] (w - 1) % 4 = 1 -> c.line * (r + 1)
            [] (w - 1) % 4 = 2 -> c.line * (r + 3) [] OTHER -> (c.line * (r + 1)) + c.line \div 2]
  ELSE [w \in 1 .. 16 |-> LET r == (w - 1) \div 3 IN
          IF w > 12 THEN 0
          ELSE CASE (w - 1) % 3 = 0 -> c.line * r [] (w - 1) % 3 = 1 -> c.line * (r + 1) [] OTHER -> c.line * (r + 3)]
RingInputs ==
  [algo : {"rings"}, line : {64, 128}, words : {12, 13, 16}, fill : {1, 4, 64}, rx : {1, 4, 64}, defaults : BOOLEAN,
   libbpf_flags : SUBSET {"INHIBIT_PROG_LOAD", "NEW"}]
UmemCfg(c) == IF c.defaults THEN <<>> ELSE <<[DefaultUmem EXCEPT !.fill_size = c.fill, !.comp_size = c.rx]>>
SocketCfg(c) == <<[DefaultSocket EXCEPT !.rx_size = c.rx, !.tx_size = c.fill, !.libbpf_flags = c.libbpf_flags]>>
RingNext == Compute("rings", LAMBDA c : MapRings(KernelOffsets(c), c.words, UmemCfg(c), SocketCfg(c)))

ConfigNext == ArgsNext \/ MacNext \/ RingNext

-----------------------------------------------------------------------------
(* Properties *)

BadOption(o) == o.val = "?" \/ (o.val \in {"d", "r"} /\ (o.arg.long \/ o.arg.name \notin DOMAIN Devices))
LastOf(argv, vals, default, value(_)) ==
  LET at == {i \in DOMAIN argv : argv[i].val \in vals} IN IF at = {} THEN default ELSE value(argv[Max(at)])
ModesOf(o) == CASE o.val = "A" -> {} [] o.val = "S" -> {"SKB"} [] o.val = "N" -> {"DRV"} [] o.val = "3" -> {"HW"}

\* parse_cmdline_args ends the process on an unknown device or option,
\* wherever it stands; else the last of the mode options decides the mode and
\* it is the only one, the last device counts, and -F allows replacing a
\* program whatever stands before or after it.
OptionsTaken ==
  Is("args") =>
    LET argv == in.argv
        given(v) == \E i \in DOMAIN argv : argv[i].val = v
    IN IF \E i \in DOMAIN argv : BadOption(argv[i]) THEN out.exit = "usage"
       ELSE /\ out.exit = "no"
            /\ out.modes = LastOf(argv, {"A", "S", "N", "3"}, in.modes, ModesOf)
            /\ out.ifindex = LastOf(argv, {"d"}, -1, LAMBDA o : Devices[o.arg.name])
            /\ out.redirect_ifindex = LastOf(argv, {"r"}, -1, LAMBDA o : Devices[o.arg.name])
            /\ out.noexist = ~given("F") /\ out.do_unload = given("U")
            /\ out.text["2"] = LastOf(argv, {"2"}, "", LAMBDA o : o.arg.name)

\* parse_mac reads every address of two digits a byte as its bytes, and an
\* address it accepts with another number of digits in a byte gives that
\* byte and those before it still right unless it has more than two digits.
MacParsed ==
  Is("mac") =>
    /\ in.odd = 0 => out = in.mac
    /\ (in.odd # 0 /\ out # <<>>) => \A i \in 1 .. in.odd - 1 : out[i] = in.mac[i]
    /\ (in.odd # 0 /\ in.digits = 3 /\ in.mac[in.odd] # 0) => out = <<>>

\* Whatever the kernel's format, every field and every entry of a ring lies
\* in its mapping and none overlaps another; an answer of another length and
\* an unknown flag are refused.
RingInMapping ==
  Is("rings") =>
    IF in.words = 13 \/ "NEW" \in in.libbpf_flags THEN out.err
    ELSE /\ ~out.err
         /\ \A r \in 1 .. 4 :
              LET ring == out.rings[r]
                  words == <<ring.producer, ring.consumer, ring.flags>>
              IN /\ \A i, j \in 1 .. 3 : i < j => words[i] + 4 <= words[j] \/ words[j] + 4 <= words[i]
                 /\ \A i \in 1 .. 3 : words[i] + 4 <= ring.ring
                 /\ ring.ring + ((ring.mask + 1) * ring.entry) <= ring.len
                 /\ ring.producer = in.line * (r - 1) /\ ring.ring = in.line * (r + 2)
==============================================================================
