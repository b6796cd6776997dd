----------------------------- MODULE XdpPrograms -----------------------------
(***************************************************************************)
(* What the XDP programs and the user-space switch read and write in a     *)
(* packet: common/parsing_helpers.h, common/rewrite_helpers.h and the      *)
(* checksum helpers.                                                       *)
(*                                                                         *)
(* A frame is the sequence of its 16-bit words in network byte order; its  *)
(* length is data_end - data, and offsets and sizes count words.  Fields   *)
(* are read on a little-endian host, so a 16-bit field is read byte-       *)
(* swapped (Htons).  A parser returns the type of what follows, -1 when    *)
(* the header does not fit, and the new position of the cursor.            *)
(***************************************************************************)
EXTENDS Integers, Sequences, FiniteSets, Functions

VLAN_MAX_DEPTH == 2

Word(f, i) == f[i + 1]
Put(f, i, w) == [f EXCEPT ![i + 1] = w]
Hi(w) == w \div 256
Lo(w) == w % 256
Htons(w) == Lo(w) * 256 + Hi(w)

ETH_P_IP == 2048
ETH_P_IPV6 == 34525
ETH_P_8021Q == 33024
ETH_P_8021AD == 34984

IPPROTO_ICMP == 1
IPPROTO_TCP == 6
IPPROTO_UDP == 17
IPPROTO_ICMPV6 == 58

ICMP_ECHO == 8
ICMP_ECHOREPLY == 0
ICMPV6_ECHO_REQUEST == 128
ICMPV6_ECHO_REPLY == 129

ETH == 7
VLAN == 2
IP == 10
IP6 == 20
ICMP == 4
UDP == 4
TCP == 10

Fits(f, pos, size) == pos + size <= Len(f)
Fail(pos) == [type |-> -1, pos |-> pos]

-----------------------------------------------------------------------------
proto_is_vlan(h_proto) == h_proto \in {Htons(ETH_P_8021Q), Htons(ETH_P_8021AD)}

\* Mutant: the tag is read before its end is compared with data_end.
parse_ethhdr_vlan_Unchecked(f) ==
  LET tags[i \in 0 .. VLAN_MAX_DEPTH] ==
        IF i = 0
        THEN [type |-> Htons(Word(f, 6)), pos |-> ETH, ids |-> <<>>]
        ELSE LET s == tags[i - 1] IN
             IF proto_is_vlan(s.type)
             THEN [type |-> IF Fits(f, s.pos, VLAN) THEN Htons(Word(f, s.pos + 1)) ELSE 0,
                   pos |-> s.pos + VLAN,
                   ids |-> s.ids]
             ELSE s
  IN  IF Fits(f, 0, ETH) THEN tags[VLAN_MAX_DEPTH] ELSE Fail(0)

\* At most VLAN_MAX_DEPTH tags are skipped; a tag that does not fit ends the
\* loop, and its ethertype is returned.
parse_ethhdr_vlan(f) ==
  LET tags[i \in 0 .. VLAN_MAX_DEPTH] ==
        IF i = 0
        THEN [type |-> Htons(Word(f, 6)), pos |-> ETH, ids |-> <<>>]
        ELSE LET s == tags[i - 1] IN
             IF proto_is_vlan(s.type) /\ Fits(f, s.pos, VLAN)
             THEN [type |-> Htons(Word(f, s.pos + 1)),
                   pos |-> s.pos + VLAN,
                   ids |-> Append(s.ids, Word(f, s.pos) % 4096)]
             ELSE s
  IN  IF Fits(f, 0, ETH) THEN tags[VLAN_MAX_DEPTH] ELSE Fail(0)

parse_ethhdr(f) == parse_ethhdr_vlan(f)

\* A header of fixed size, its type at a given place.
ParseFixed(f, pos, size, type) ==
  IF Fits(f, pos, size) THEN [type |-> type, pos |-> pos + size] ELSE Fail(pos)

parse_ip6hdr(f, pos) == ParseFixed(f, pos, IP6, Hi(Word(f, pos + 3)))

parse_icmp6hdr(f, pos) == ParseFixed(f, pos, ICMP, Hi(Word(f, pos)))

parse_icmphdr(f, pos) == ParseFixed(f, pos, ICMP, Hi(Word(f, pos)))

parse_icmphdr_common(f, pos) == ParseFixed(f, pos, 2, Hi(Word(f, pos)))

\* A header whose own length field must cover the fixed part and fit.
ParseVariable(f, pos, fixed, size, type) ==
  IF Fits(f, pos, fixed) /\ size >= fixed /\ Fits(f, pos, size)
  THEN [type |-> type, pos |-> pos + size] ELSE Fail(pos)

Ihl(f, pos) == 2 * (Hi(Word(f, pos)) % 16)
Doff(f, pos) == 2 * (Hi(Word(f, pos + 6)) \div 16)

parse_iphdr(f, pos) == ParseVariable(f, pos, IP, Ihl(f, pos), Lo(Word(f, pos + 4)))

parse_tcphdr(f, pos) == ParseVariable(f, pos, TCP, Doff(f, pos), 2 * Doff(f, pos))

\* The length of the payload; the cursor has moved even when it is negative.
parse_udphdr(f, pos) ==
  IF ~Fits(f, pos, UDP) THEN Fail(pos)
  ELSE IF Word(f, pos + 2) < 8 THEN Fail(pos + UDP)
  ELSE [type |-> Word(f, pos + 2) - 8, pos |-> pos + UDP]

-----------------------------------------------------------------------------
(* rewrite_helpers.h *)

\* bpf_xdp_adjust_head keeps at least an Ethernet header.
CanShrink(f) == Len(f) - VLAN >= ETH

EthernetWith(f, h_proto) == SubSeq(f, 1, 6) \o <<h_proto>>

vlan_tag_pop(f) ==
  IF /\ proto_is_vlan(Htons(Word(f, 6)))
     /\ Fits(f, ETH, VLAN) /\ CanShrink(f)
  THEN [f |-> EthernetWith(f, Word(f, ETH + 1)) \o SubSeq(f, ETH + VLAN + 1, Len(f)),
        ret |-> Word(f, ETH)]
  ELSE [f |-> f, ret |-> -1]

\* room: the headroom in front of the packet holds another tag.
vlan_tag_push(f, vlid, room) ==
  IF room
  THEN [f |-> EthernetWith(f, ETH_P_8021Q) \o <<vlid, Word(f, 6)>> \o SubSeq(f, ETH + 1, Len(f)),
        ret |-> 0]
  ELSE [f |-> f, ret |-> -1]

\* The words a .. a+n-1 and b .. b+n-1 exchanged.
SwapWords(f, a, b, n) ==
  [j \in 1 .. Len(f) |->
     IF j - 1 \in a .. a + n - 1 THEN f[j - a + b]
     ELSE IF j - 1 \in b .. b + n - 1 THEN f[j - b + a] ELSE f[j]]

swap_src_dst_mac(f) == SwapWords(f, 0, 3, 3)

swap_src_dst_ipv6(f, pos) == SwapWords(f, pos + 4, pos + 12, 8)

swap_src_dst_ipv4(f, pos) == SwapWords(f, pos + 6, pos + 8, 2)

-----------------------------------------------------------------------------
(* Checksums, in 16-bit arithmetic *)

Not16(w) == 65535 - w

\* Mutant: the carry is dropped.
csum16_add_NoCarry(csum, addend) == (csum + addend) % 65536

\* res += addend; return res + (res < addend)
csum16_add(csum, addend) ==
  LET res == (csum + addend) % 65536
  IN  (res + (IF res < addend THEN 1 ELSE 0)) % 65536

csum16_sub(csum, addend) == csum16_add(csum, Not16(addend))

csum_replace2(sum, old, new) == Not16(csum16_add(csum16_sub(Not16(sum), old), new))

\* bpf_csum_diff over the two words of icmphdr_common: the seed, the complement
\* of the old words and the new words; the checksum field is 0 in both.
bpf_csum_diff(old, new, seed) == seed + Not16(old) + Not16(0) + new + 0

csum_fold_helper(csum) ==
  LET sum == (csum \div 65536) + (csum % 65536)
  IN  Not16((sum + (sum \div 65536)) % 65536)

icmp_checksum_diff(seed, new, old) == csum_fold_helper(bpf_csum_diff(old, new, seed))

\* Mutant: the carry is looked for one too late.
TtlCheck_OffByOne(w) ==
  LET check == Htons(w) + Htons(256)
  IN  Htons((check + (IF check > 65536 THEN 1 ELSE 0)) % 65536)

\* The header checksum after the TTL, the high byte of its word, went down.
TtlCheck(w) ==
  LET check == Htons(w) + Htons(256)
  IN  Htons((check + (IF check >= 65535 THEN 1 ELSE 0)) % 65536)

ip_decrease_ttl(f, pos) ==
  Put(Put(f, pos + 5, TtlCheck(Word(f, pos + 5))), pos + 4, Word(f, pos + 4) - 256)

------------------------------------------------------------------------------
(***************************************************************************)
(* The XDP programs of the repository, run one after the other on a frame: *)
(* packet01-parsing, packet02-rewriting, packet03-redirecting, basic02 to  *)
(* basic04, switchtsn/af_xdp_kern_david.c and the two programs of the Go   *)
(* examples, and process_packet of the user-space switch, which rewrites   *)
(* the frame it received in place.                                         *)
(*                                                                         *)
(* A program is an operator from the frame to the frame it leaves behind   *)
(* and the action it returns.  `env' holds the maps the programs read: the *)
(* source addresses in redirect_params, whether tx_port and the queue's    *)
(* entry of xsks_map are set, the queue's value in qidconf_map, its packet *)
(* count.  The result of bpf_fib_lookup and the headroom are inputs.       *)
(***************************************************************************)

CONSTANTS
  Frames,    \* the frames that may arrive
  Envs,      \* contents of the maps
  MaxRuns    \* programs run on one frame

Actions == {"ABORTED", "DROP", "PASS", "TX", "REDIRECT"}

FibResults == {"SUCCESS", "BLACKHOLE", "UNREACHABLE", "PROHIBIT", "NOT_FWDED"}

VARIABLES
  frame,     \* the words between data and data_end
  action,    \* what the last program returned
  env,       \* contents of the maps
  stats,     \* xdp_stats_map: packets and bytes for each action
  hist       \* the programs run, each with the frame it was given

vars == <<frame, action, env, stats, hist>>

Leaves(f, a) == [f |-> f, action |-> a]

-----------------------------------------------------------------------------
(* packet01-parsing/xdp_prog_kern.c, with parsers of its own *)

packet01_parse_iphdr(f, pos) == ParseFixed(f, pos, IP, Lo(Word(f, pos + 4)))

\* ETH_P_IP in network byte order is 8 on a little-endian host, so an ICMPv6
\* header of type 8 sends the program on into the IPv4 branch.
packet01_parser_func(f) ==
  LET eth == parse_ethhdr(f)
      ip6 == parse_ip6hdr(f, eth.pos)
      icmp6 == parse_icmp6hdr(f, ip6.pos)
      v6 == eth.type = Htons(ETH_P_IPV6)
      nh == IF v6 THEN icmp6 ELSE [type |-> eth.type, pos |-> eth.pos]
      ip == packet01_parse_iphdr(f, nh.pos)
      icmp == parse_icmphdr(f, ip.pos)
  IN  IF v6 /\ (ip6.type # IPPROTO_ICMPV6 \/ icmp6.type < 0) THEN Leaves(f, "PASS")
      ELSE IF v6 /\ Word(f, ip6.pos + 3) % 2 = 0 THEN Leaves(f, "DROP")
      ELSE IF /\ nh.type = Htons(ETH_P_IP)
              /\ ip.type = IPPROTO_ICMP /\ icmp.type >= 0
              /\ Word(f, ip.pos + 3) % 2 # 0 THEN Leaves(f, "DROP")
      ELSE Leaves(f, "PASS")

-----------------------------------------------------------------------------
(* packet02-rewriting/xdp_prog_kern.c *)

\* vlh + 1 < data_end: a frame that ends with the tag keeps it, and -1 is
\* returned only when the head cannot be moved.
packet02_vlan_tag_pop(f) ==
  IF proto_is_vlan(Htons(Word(f, 6))) /\ ETH + VLAN < Len(f)
  THEN vlan_tag_pop(f) ELSE [f |-> f, ret |-> -1]

packet02_vlan_tag_push(f, vlid, room) == vlan_tag_push(f, vlid, room)

xdp_port_rewrite_func(f) ==
  LET eth == parse_ethhdr(f)
      ip == IF eth.type = Htons(ETH_P_IPV6) THEN parse_ip6hdr(f, eth.pos)
            ELSE parse_iphdr(f, eth.pos)
      dest == ip.pos + 1
  IN  CASE eth.type < 0 -> Leaves(f, "ABORTED")
        [] eth.type \in {Htons(ETH_P_IP), Htons(ETH_P_IPV6)} /\ ip.type = IPPROTO_UDP ->
             IF parse_udphdr(f, ip.pos).type < 0 THEN Leaves(f, "ABORTED")
             ELSE Leaves(Put(f, dest, (Word(f, dest) + 65535) % 65536), "PASS")
        [] eth.type \in {Htons(ETH_P_IP), Htons(ETH_P_IPV6)} /\ ip.type = IPPROTO_TCP ->
             IF parse_tcphdr(f, ip.pos).type < 0 THEN Leaves(f, "ABORTED")
             ELSE Leaves(Put(f, dest, (Word(f, dest) + 1) % 65536), "PASS")
        [] OTHER -> Leaves(f, "PASS")

xdp_vlan_swap_func(f, room) ==
  IF parse_ethhdr(f).type < 0 THEN Leaves(f, "PASS")
  ELSE IF proto_is_vlan(Htons(Word(f, 6)))
  THEN Leaves(packet02_vlan_tag_pop(f).f, "PASS")
  ELSE Leaves(packet02_vlan_tag_push(f, 1, room).f, "PASS")

packet02_parser_func(f) ==
  LET eth == parse_ethhdr(f)
      v6 == eth.type = Htons(ETH_P_IPV6)
      ip == IF v6 THEN parse_ip6hdr(f, eth.pos) ELSE parse_iphdr(f, eth.pos)
      icmp == IF v6 THEN parse_icmp6hdr(f, ip.pos) ELSE parse_icmphdr(f, ip.pos)
      drop == /\ v6 \/ eth.type = Htons(ETH_P_IP)
              /\ ip.type = (IF v6 THEN IPPROTO_ICMPV6 ELSE IPPROTO_ICMP)
              /\ icmp.type = (IF v6 THEN ICMPV6_ECHO_REQUEST ELSE ICMP_ECHO)
              /\ Word(f, ip.pos + 3) % 2 = 0
  IN  Leaves(f, IF drop THEN "DROP" ELSE "PASS")

-----------------------------------------------------------------------------
(* packet03-redirecting/xdp_prog_kern.c *)

\* Source and destination swapped, the type turned into a reply, the checksum
\* patched by the difference.
EchoReply(f, at, v6, reply) ==
  LET icmp == IF v6 THEN at + IP6 ELSE at + Ihl(f, at)
      swapped == swap_src_dst_mac(IF v6 THEN swap_src_dst_ipv6(f, at)
                                  ELSE swap_src_dst_ipv4(f, at))
      old == Word(f, icmp)
      new == reply * 256 + Lo(old)
      cksum == Htons(icmp_checksum_diff(Not16(Htons(Word(f, icmp + 1))), Htons(new), Htons(old)))
  IN  Put(Put(swapped, icmp, new), icmp + 1, cksum)

xdp_icmp_echo_func(f) ==
  LET eth == parse_ethhdr(f)
      v6 == eth.type = Htons(ETH_P_IPV6)
      ip == IF v6 THEN parse_ip6hdr(f, eth.pos) ELSE parse_iphdr(f, eth.pos)
      icmp == parse_icmphdr_common(f, ip.pos)
      echo == /\ v6 \/ eth.type = Htons(ETH_P_IP)
              /\ ip.type = (IF v6 THEN IPPROTO_ICMPV6 ELSE IPPROTO_ICMP)
              /\ icmp.type = (IF v6 THEN ICMPV6_ECHO_REQUEST ELSE ICMP_ECHO)
  IN  IF echo
      THEN Leaves(EchoReply(f, eth.pos, v6, IF v6 THEN ICMPV6_ECHO_REPLY ELSE ICMP_ECHOREPLY),
                  "TX")
      ELSE Leaves(f, "PASS")

\* The hard-coded destination address.
Dst == <<3, 3, 3>>
SetDest(f, mac) == mac \o SubSeq(f, 4, Len(f))

xdp_redirect_func(f) ==
  IF parse_ethhdr(f).type = -1 THEN Leaves(f, "PASS")
  ELSE Leaves(SetDest(f, Dst), "REDIRECT")

\* bpf_redirect_map answers XDP_ABORTED, its flags, when the entry is empty.
RedirectMap(set) == IF set THEN "REDIRECT" ELSE "ABORTED"

xdp_redirect_map_func(f, e) ==
  IF parse_ethhdr(f).type = -1 \/ SubSeq(f, 4, 6) \notin e.redirect_params
  THEN Leaves(f, "PASS")
  ELSE Leaves(SetDest(f, Dst), RedirectMap(e.tx_port))

HopWord(f) == IF Word(f, 6) = ETH_P_IP THEN ETH + 4 ELSE ETH + 3
Hops(f) == IF Word(f, 6) = ETH_P_IP THEN Hi(Word(f, ETH + 4)) ELSE Lo(Word(f, ETH + 3))

\* bpf_fib_lookup answers rc and, on success, the two addresses to write.
xdp_router_func(f, rc) ==
  LET v4 == Word(f, 6) = ETH_P_IP
      v6 == Word(f, 6) = ETH_P_IPV6
      hop == IF v4 THEN ip_decrease_ttl(f, ETH) ELSE Put(f, ETH + 3, Word(f, ETH + 3) - 1)
  IN  IF ~Fits(f, 0, ETH) THEN Leaves(f, "DROP")
      ELSE IF ~v4 /\ ~v6 THEN Leaves(f, "PASS")
      ELSE IF ~Fits(f, ETH, IF v4 THEN IP ELSE IP6) THEN Leaves(f, "DROP")
      ELSE IF Hops(f) <= 1 THEN Leaves(f, "PASS")
      ELSE CASE rc = "SUCCESS" ->
                  Leaves(<<4, 4, 4, 5, 5, 5>> \o SubSeq(hop, 7, Len(f)), "REDIRECT")
             [] rc \in {"BLACKHOLE", "UNREACHABLE", "PROHIBIT"} -> Leaves(f, "DROP")
             [] OTHER -> Leaves(f, "PASS")

-----------------------------------------------------------------------------
(* Programs that feed AF_XDP sockets, and the switch behind them *)

\* switchtsn/af_xdp_kern_david.c: every other packet of a queue leaves through
\* another interface, the rest goes to the queue's socket if there is one.
switch_xdp_sock_prog(f, e) ==
  IF e.count % 2 = 1 \/ e.xsk THEN Leaves(f, "REDIRECT") ELSE Leaves(f, "PASS")

\* examples/switchTSN-david/ebpf.c: an array map has every index, so the value
\* is not looked at.
go_xdp_redirect(f, e) == Leaves(f, RedirectMap(e.xsk))

\* examples/dumpframes/ebpf/single_protocol_filter.c, for PROTO = ICMP.
go_xdp_sock_prog(f, e) ==
  LET v4 == Word(f, 6) = ETH_P_IP
      v6 == Word(f, 6) = ETH_P_IPV6
      proto == IF v4 THEN Lo(Word(f, ETH + 4)) ELSE Hi(Word(f, ETH + 3))
      match == /\ Fits(f, 0, ETH) /\ (v4 \/ v6)
               /\ Fits(f, ETH, IF v4 THEN IP ELSE IP6)
               /\ proto = IPPROTO_ICMP
  IN  IF match /\ e.qid THEN Leaves(f, RedirectMap(e.xsk)) ELSE Leaves(f, "PASS")

\* switchtsn/af_xdp_david_new.c: an ICMPv6 echo request is answered, any other
\* frame is refused.
process_packet(f) ==
  IF /\ Len(f) >= ETH + IP6 + ICMP
     /\ Word(f, 6) = ETH_P_IPV6
     /\ Hi(Word(f, ETH + 3)) = IPPROTO_ICMPV6
     /\ Hi(Word(f, ETH + IP6)) = ICMPV6_ECHO_REQUEST
  THEN LET icmp == ETH + IP6
           swapped == swap_src_dst_ipv6(swap_src_dst_mac(f), ETH)
           type == Put(swapped, icmp, ICMPV6_ECHO_REPLY * 256 + Lo(Word(f, icmp)))
       IN  Leaves(Put(type, icmp + 1,
                      Htons(csum_replace2(Htons(Word(f, icmp + 1)),
                                          Htons(ICMPV6_ECHO_REQUEST * 256),
                                          Htons(ICMPV6_ECHO_REPLY * 256)))), "TX")
  ELSE Leaves(f, "DROP")

-----------------------------------------------------------------------------
Init ==
  /\ frame \in Frames
  /\ env \in Envs
  /\ action = "none"
  /\ stats = [a \in Actions |-> [rx_packets |-> 0, rx_bytes |-> 0]]
  /\ hist = <<>>

\* The record of the action is updated with the length the frame has now.
xdp_stats_record_action(a, f) ==
  stats' = [stats EXCEPT ![a] = [rx_packets |-> @.rx_packets + 1,
                                 rx_bytes |-> @.rx_bytes + 2 * Len(f)]]

Run(prog, r) ==
  /\ Len(hist) < MaxRuns
  /\ frame' = r.f
  /\ action' = r.action
  /\ hist' = Append(hist, [prog |-> prog, frame |-> frame])

Recorded(prog, r) ==
  Run(prog, r) /\ xdp_stats_record_action(r.action, r.f) /\ env' = env

Unrecorded(prog, r) == Run(prog, r) /\ UNCHANGED <<stats, env>>

Packet01 == Recorded("packet01", packet01_parser_func(frame))
PortRewrite == Recorded("port_rewrite", xdp_port_rewrite_func(frame))
VlanSwap == \E room \in BOOLEAN : Unrecorded("vlan_swap", xdp_vlan_swap_func(frame, room))
Packet02 == Recorded("packet02", packet02_parser_func(frame))
IcmpEcho == Recorded("icmp_echo", xdp_icmp_echo_func(frame))
Redirect == Recorded("redirect", xdp_redirect_func(frame))
RedirectMapped == Recorded("redirect_map", xdp_redirect_map_func(frame, env))
Router == \E rc \in FibResults : Recorded("router", xdp_router_func(frame, rc))

\* basic02 and packet03: xdp_pass, xdp_drop and xdp_abort return their action;
\* basic03 and basic04 record it first.
Fixed == \E a \in {"PASS", "DROP", "ABORTED"} :
  Unrecorded("fixed", Leaves(frame, a)) \/ Recorded("fixed_stats", Leaves(frame, a))

\* The queue's packet count is kept in xdp_stats_map.
SwitchSock ==
  /\ Run("switch_sock", switch_xdp_sock_prog(frame, env))
  /\ env' = [env EXCEPT !.count = (@ + 1) % 2]
  /\ stats' = stats

GoRedirect == Unrecorded("go_redirect", go_xdp_redirect(frame, env))
GoFilter == Unrecorded("go_filter", go_xdp_sock_prog(frame, env))
ProcessPacket == Unrecorded("process_packet", process_packet(frame))

Next ==
  \/ Packet01 \/ PortRewrite \/ VlanSwap \/ Packet02
  \/ IcmpEcho \/ Redirect \/ RedirectMapped \/ Router
  \/ Fixed \/ SwitchSock \/ GoRedirect \/ GoFilter \/ ProcessPacket

Spec == Init /\ [][Next]_vars

-----------------------------------------------------------------------------
(* What a frame is, by its words alone *)

\* f carries n tags and then the ethertype.
Carries(f, n, ethertype) ==
  /\ ETH + n * VLAN <= Len(f)
  /\ \A i \in 0 .. n - 1 : Word(f, 6 + i * VLAN) \in {ETH_P_8021Q, ETH_P_8021AD}
  /\ Word(f, 6 + n * VLAN) = ethertype

\* An ICMP message behind at most VLAN_MAX_DEPTH tags, with a sequence number
\* of the given parity; type -1 is any type.
Icmp4At(f, p, type, parity, ihl) ==
  /\ p + ihl + ICMP <= Len(f)
  /\ Lo(Word(f, p + 4)) = IPPROTO_ICMP
  /\ type \in {-1, Hi(Word(f, p + ihl))}
  /\ Word(f, p + ihl + 3) % 2 = parity
Icmp6At(f, p, type, parity) ==
  /\ p + IP6 + ICMP <= Len(f)
  /\ Hi(Word(f, p + 3)) = IPPROTO_ICMPV6
  /\ type \in {-1, Hi(Word(f, p + IP6))}
  /\ Word(f, p + IP6 + 3) % 2 = parity

EvenEcho(f) ==
  \E n \in 0 .. VLAN_MAX_DEPTH :
    LET p == ETH + n * VLAN IN
    \/ Carries(f, n, ETH_P_IP) /\ p + IP <= Len(f) /\ Ihl(f, p) >= IP
         /\ Icmp4At(f, p, ICMP_ECHO, 0, Ihl(f, p))
    \/ Carries(f, n, ETH_P_IPV6) /\ Icmp6At(f, p, ICMPV6_ECHO_REQUEST, 0)

SumOf(f, a, b) == FoldFunctionOnSet(+, 0, f, a + 1 .. b)
Valid(sum) == sum % 65535 = 0

\* Where the IP header is, its ethertype, and whether it fits.
Network(f) ==
  LET eth == parse_ethhdr(f) IN
  [at |-> eth.pos,
   v4 |-> eth.type = Htons(ETH_P_IP) /\ parse_iphdr(f, eth.pos).type >= 0,
   v6 |-> eth.type = Htons(ETH_P_IPV6) /\ parse_ip6hdr(f, eth.pos).type >= 0]

\* The checksums of the IPv4 header and of an ICMP message.
ChecksumsValid(f) ==
  LET n == Network(f)
      v4data == n.at + Ihl(f, n.at)
      v6data == n.at + IP6
  IN  /\ n.v4 => Valid(SumOf(f, n.at, v4data))
      /\ n.v4 /\ Lo(Word(f, n.at + 4)) = IPPROTO_ICMP => Valid(SumOf(f, v4data, Len(f)))
      /\ n.v6 /\ Hi(Word(f, n.at + 3)) = IPPROTO_ICMPV6 =>
           Valid(IPPROTO_ICMPV6 + Word(f, n.at + 2) + SumOf(f, n.at + 4, Len(f)))

\* The UDP or TCP segment of a frame: where it is (0 if there is none), and what
\* its checksum is taken over, the pseudo header included.
Segment(f) ==
  LET n == Network(f) IN
  CASE n.v4 /\ Lo(Word(f, n.at + 4)) \in {IPPROTO_UDP, IPPROTO_TCP} -> n.at + Ihl(f, n.at)
    [] n.v6 /\ Hi(Word(f, n.at + 3)) \in {IPPROTO_UDP, IPPROTO_TCP} -> n.at + IP6
    [] OTHER -> 0
SegmentSum(f) ==
  LET n == Network(f)
      addresses == IF n.v4 THEN SumOf(f, n.at + 6, n.at + 10) ELSE SumOf(f, n.at + 4, n.at + IP6)
      proto == IF n.v4 THEN Lo(Word(f, n.at + 4)) ELSE Hi(Word(f, n.at + 3))
  IN  addresses + proto + 2 * (Len(f) - Segment(f)) + SumOf(f, Segment(f), Len(f))

\* A program changes what the segment's checksum is taken over by the change of
\* its destination port, which is xdp_port_rewrite_func's.
SegmentKept ==
  Segment(frame) # 0 /\ Segment(frame') # 0 /\ Len(frame) - Segment(frame) > 1 =>
    LET port(f) == Word(f, Segment(f) + 1)
    IN  /\ Valid(SegmentSum(frame') - SegmentSum(frame) - (port(frame') - port(frame)))
        /\ port(frame') # port(frame) => hist'[Len(hist')].prog = "port_rewrite"

-----------------------------------------------------------------------------
\* However a frame is cut or tagged, no parser moves its cursor past data_end:
\* what a program reads after a successful parse lies in the frame.
CursorInFrame ==
  LET eth == parse_ethhdr(frame)
      ip == parse_iphdr(frame, eth.pos)
      ip6 == parse_ip6hdr(frame, eth.pos)
      l4(p) == {parse_icmphdr(frame, p), parse_icmp6hdr(frame, p),
                parse_icmphdr_common(frame, p), parse_udphdr(frame, p),
                parse_tcphdr(frame, p)}
  IN  eth.type >= 0 =>
        \A h \in {eth, ip, ip6} \cup l4(ip.pos) \cup l4(ip6.pos) : h.pos <= Len(frame)

\* The checksums of IPv4 headers and of ICMP messages stay valid: neither the
\* echo responders, which patch the ICMP checksum, nor ip_decrease_ttl, at the
\* boundary where the carry wraps, nor the programs that only move headers break
\* them.  UDP and TCP checksums stay as right as they were, except under
\* xdp_port_rewrite_func: it changes the destination port and leaves the
\* checksum, which is then wrong by that change.
ChecksumsKept == [][(ChecksumsValid(frame) => ChecksumsValid(frame')) /\ SegmentKept]_vars

\* The two echo responders, in the kernel with bpf_csum_diff and in the switch
\* with csum_replace2, build the same answer to an untagged ICMPv6 request.
RespondersAgree ==
  LET u == process_packet(frame)
      k == xdp_icmp_echo_func(frame)
      ck == ETH + IP6 + 1
  IN  u.action = "TX" =>
        /\ k.action = "TX"
        /\ \A i \in 0 .. Len(frame) - 1 : i # ck => Word(u.f, i) = Word(k.f, i)
        /\ Valid(Word(u.f, ck) - Word(k.f, ck))

\* An answer is never answered: two responders cannot play ping-pong.
EchoOnce ==
  \A i \in 1 .. Len(hist) - 1 :
    /\ {hist[i].prog, hist[i + 1].prog} \subseteq {"icmp_echo", "process_packet"}
    /\ hist[i].frame # hist[i + 1].frame
    => frame = hist[i + 1].frame /\ action # "TX"

\* A tag pushed by xdp_vlan_swap is popped by the next run, and the frame is
\* what it was.  (Not one that is a bare Ethernet header: the pop wants a byte
\* behind the tag.)
SwapUndone ==
  /\ Len(hist) = 2
  /\ hist[1].prog = "vlan_swap" /\ hist[2].prog = "vlan_swap"
  /\ Len(hist[1].frame) > ETH /\ Len(hist[2].frame) > Len(hist[1].frame)
  => frame = hist[1].frame

Last == hist[Len(hist)]

\* The router sends a packet on only with one hop less and at least one left,
\* and changes nothing but the addresses, the hop count and its checksum.
RouterForwards ==
  hist # <<>> /\ Last.prog = "router" /\ action = "REDIRECT" =>
    /\ Hops(frame) = Hops(Last.frame) - 1 /\ Hops(frame) >= 1
    /\ \A i \in 6 .. Len(frame) - 1 :
         i \notin {HopWord(frame), ETH + 5} => Word(frame, i) = Word(Last.frame, i)

\* The packet02 parser drops exactly the echo requests with an even sequence
\* number, behind up to two tags, with or without IPv4 options.
DropsEvenEchoes ==
  (packet02_parser_func(frame).action = "DROP") <=> EvenEcho(frame)

\* What the packet01 parser drops it has parsed: an ICMPv6 message with an even
\* sequence number or an ICMP one with an odd number.  It reads IPv4 options as
\* the ICMP header, and an ICMPv6 message of type 8 as an IPv4 packet.
DropsWhatItParsed ==
  packet01_parser_func(frame).action = "DROP" =>
    \E n \in 0 .. VLAN_MAX_DEPTH :
      LET p == ETH + n * VLAN IN
      \/ Carries(frame, n, ETH_P_IPV6) /\ Icmp6At(frame, p, -1, 0)
      \/ Carries(frame, n, ETH_P_IP) /\ Icmp4At(frame, p, -1, 1, IP)
      \/ Carries(frame, n, ETH_P_IPV6) /\ Icmp6At(frame, p, 8, 1)

Recording == {"packet01", "port_rewrite", "packet02", "icmp_echo", "redirect",
              "redirect_map", "router", "fixed_stats"}
After(i) == IF i = Len(hist) THEN frame ELSE hist[i + 1].frame
Recorders == {i \in 1 .. Len(hist) : hist[i].prog \in Recording}

\* The counters of all actions together account for every run of a recording
\* program and for the length of the frame it left, and the last action is
\* among the counted.
StatsExact ==
  LET total(field) == FoldFunction(+, 0, [a \in Actions |-> stats[a][field]])
  IN  /\ total("rx_packets") = Cardinality(Recorders)
      /\ total("rx_bytes") =
           FoldFunction(+, 0, [i \in Recorders |-> 2 * Len(After(i))])
      /\ hist # <<>> /\ Last.prog \in Recording => stats[action].rx_packets > 0

\* What the programs answer, drop, forward and count.
ProgramsRight ==
  /\ RespondersAgree /\ EchoOnce /\ SwapUndone /\ RouterForwards
  /\ DropsEvenEchoes /\ DropsWhatItParsed /\ StatsExact

-----------------------------------------------------------------------------
(* The frames and environments of the model.  An IP header gets the checksum *)
(* asked for, its identification making up the sum; so does an ICMP message  *)
(* with its identifier.                                                      *)

Sum(s) == SumOf(s, 0, Len(s))
\* The word that makes the sum of s a multiple of 65535.
MakesUp(s) == (65535 - (Sum(s) % 65535)) % 65535

Ethernet(tags, type) ==
  <<1, 1, 1, 2, 2, 2>> \o
  (CASE tags = 0 -> <<type>>
     [] tags = 1 -> <<ETH_P_8021Q, 1, type>>
     [] tags = 2 -> <<ETH_P_8021AD, 4097, ETH_P_8021Q, 2, type>>
     [] tags = 3 -> <<ETH_P_8021AD, 3, ETH_P_8021Q, 2, ETH_P_8021Q, 1, type>>)

IpHeader(ihl, ttl, proto, check) ==
  LET rest == <<(64 + ihl) * 256, 60, ttl * 256 + proto, check, 10, 1, 10, 2>>
                \o [i \in 1 .. 2 * ihl - 10 |-> 257]
      id == MakesUp(rest)
  IN  <<rest[1], 60, id, 0>> \o SubSeq(rest, 3, Len(rest))

Ip6Header(hops, next, len) ==
  <<24576, 0, len, next * 256 + hops, 1, 2, 3, 4, 5, 6, 7, 8, 9, 10, 11, 12, 13, 14, 15, 16>>

Icmp(type, check, seq, data, pseudo) ==
  LET id == MakesUp(<<type * 256, check, seq>> \o data \o pseudo)
  IN  <<type * 256, check, id, seq>> \o data

Udp(dest, len) == <<1, dest, len, 0>>
Tcp(dest, doff) == <<1, dest, 0, 0, 0, 0, doff * 4096, 0, 0, 0>>

\* What looks like an IPv4 packet with an odd echo in it.
Inner == IpHeader(5, 3, IPPROTO_ICMP, 7) \o Icmp(0, 0, 1, <<>>, <<>>)

Icmp4Frames ==
  {Ethernet(tags, ETH_P_IP) \o IpHeader(ihl, ttl, IPPROTO_ICMP, check)
     \o Icmp(type, 65535 - check, seq, <<7>>, <<>>) :
     tags \in 0 .. 3, ihl \in {5, 6}, ttl \in {1, 2}, check \in {0, 65279, 65280, 65535},
     type \in {ICMP_ECHO, ICMP_ECHOREPLY}, seq \in {4, 5}}

Icmp6Frames ==
  {LET data == IF type = 8 THEN Inner ELSE <<>>
       h == Ip6Header(hops, IPPROTO_ICMPV6, 8 + 2 * Len(data))
   IN  Ethernet(tags, ETH_P_IPV6) \o h
         \o Icmp(type, check, seq, data, SubSeq(h, 5, 20) \o <<h[3], IPPROTO_ICMPV6>>) :
     tags \in {0, 2, 3}, hops \in {1, 2}, check \in {0, 32767, 65279, 65535},
     type \in {ICMPV6_ECHO_REQUEST, 8}, seq \in {4, 5}}

OtherFrames ==
  {Ethernet(tags, ETH_P_IP) \o IpHeader(5, 2, x[1], 5) \o x[2] :
     tags \in {0, 1}, x \in {<<IPPROTO_UDP, Udp(0, 8)>>, <<IPPROTO_UDP, Udp(53, 8)>>, <<IPPROTO_UDP, Udp(0, 7)>>,
                             <<IPPROTO_TCP, Tcp(65535, 5)>>, <<IPPROTO_TCP, Tcp(80, 5)>>,
                             <<IPPROTO_TCP, Tcp(65535, 4)>>, <<IPPROTO_TCP, Tcp(65535, 6)>>}}
  \cup {Ethernet(0, ETH_P_IPV6) \o Ip6Header(2, IPPROTO_UDP, 8) \o Udp(53, 8),
        Ethernet(0, ETH_P_IP) \o IpHeader(5, 2, IPPROTO_ICMP, 5),
        Ethernet(0, 2054) \o <<1, 2, 3>>}

\* Frames cut at every length.
Whole == {Ethernet(1, ETH_P_IP) \o IpHeader(6, 2, IPPROTO_ICMP, 5) \o Icmp(ICMP_ECHO, 9, 4, <<>>, <<>>),
          Ethernet(0, ETH_P_IPV6) \o Ip6Header(2, IPPROTO_ICMPV6, 8)
            \o Icmp(ICMPV6_ECHO_REQUEST, 9, 4, <<>>, <<>>),
          Ethernet(0, ETH_P_IP) \o IpHeader(5, 2, IPPROTO_TCP, 5) \o Tcp(65535, 5)}
CutFrames == UNION {{SubSeq(f, 1, n) : n \in 0 .. Len(f) - 1} : f \in Whole}

MCFrames == Icmp4Frames \cup Icmp6Frames \cup OtherFrames \cup CutFrames

MCEnvs ==
  {[redirect_params |-> r, tx_port |-> b, xsk |-> b, qid |-> q, count |-> 0] :
     r \in {{<<2, 2, 2>>}}, b \in BOOLEAN, q \in {TRUE}}

=============================================================================
