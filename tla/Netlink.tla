------------------------------- MODULE Netlink -------------------------------
(***************************************************************************)
(* The netlink client of libbpf, netlink.c and nlattr.c.  A stream of      *)
(* attributes is a sequence of words of four bytes: a header, with type    *)
(* and length in bytes, then the payload.  What recv answers is a sequence *)
(* of datagrams, each of them messages, or one that says it failed; a      *)
(* message with long set ends past the buffer of 4096 bytes.               *)
(***************************************************************************)
EXTENDS Cases, Integers, SequencesExt, FiniteSets

HDRLEN == 4
AlignedWords(len) == (len + 3) \div 4

nla_ok(stream, at, remaining) ==
  /\ remaining >= HDRLEN
  /\ stream[at].len >= HDRLEN
  /\ stream[at].len <= remaining

\* Where the next attribute starts.
nla_next(stream, at) == at + AlignedWords(stream[at].len)

nla_attr_minlen(type) == CASE type = "MSG" -> 1 [] type = "OFFS" -> 4
\* extack_policy: MSG is a string, OFFS a number of four bytes.
validate_nla(stream, at) ==
  LET len == stream[at].len - HDRLEN
      type == stream[at].type
  IN /\ len >= nla_attr_minlen(type)
     /\ type = "MSG" => stream[at + ((len - 1) \div 4) + 1].ends

\* The place of each type, 0 where there is none, up to the first attribute
\* that is not valid under the policy, if there is one; a later one replaces an
\* earlier one and a type that is not expected is skipped.
ParseUnder(stream, types, policy) ==
  LET pass(p) ==
        IF p.at = 0 \/ ~nla_ok(stream, p.at, 4 * (Len(stream) - p.at + 1)) THEN [p EXCEPT !.at = 0]
        ELSE IF stream[p.at].type \in types /\ policy /\ ~validate_nla(stream, p.at) THEN [p EXCEPT !.at = 0, !.err = TRUE]
        ELSE [err |-> FALSE,
              at |-> LET next == nla_next(stream, p.at) IN IF next > Len(stream) THEN 0 ELSE next,
              tb |-> IF stream[p.at].type \in types THEN [p.tb EXCEPT ![stream[p.at].type] = p.at] ELSE p.tb]
  IN FoldLeft(LAMBDA p, w : pass(p),
              [err |-> FALSE, at |-> IF stream = <<>> THEN 0 ELSE 1, tb |-> [t \in types |-> 0]], stream)

\* Without a policy every attribute is valid.
libbpf_nla_parse(stream, types) == ParseUnder(stream, types, FALSE).tb

\* The words inside the attribute at a place, libbpf_nla_parse_nested.
Nested(stream, at) == SubSeq(stream, at + 1, at + AlignedWords(stream[at].len) - 1)

\* The payload of the attribute at a place.
Getattr(stream, at) == stream[at + 1]

-----------------------------------------------------------------------------
(* What XDP programs a link has.  The kernel's message about a link holds   *)
(* an attribute "XDP", if there is one, with the mode and program ids.      *)

XdpAttrs == {"ATTACHED", "PROG_ID", "SKB_PROG_ID", "DRV_PROG_ID", "HW_PROG_ID"}
NoInfo == [mode |-> "none", prog |-> 0, skb |-> 0, drv |-> 0, hw |-> 0]

get_xdp_info(acc, m, ifindex) ==
  LET tb == libbpf_nla_parse(m.attrs, {"XDP"})
  IN IF m.ifindex # ifindex \/ tb["XDP"] = 0 THEN acc
     ELSE LET stream == Nested(m.attrs, tb["XDP"])
              xtb == libbpf_nla_parse(stream, XdpAttrs)
              id(type, old) == IF xtb[type] = 0 THEN old ELSE Getattr(stream, xtb[type])
          IN IF xtb["ATTACHED"] = 0 THEN acc
             ELSE LET mode == Getattr(stream, xtb["ATTACHED"])
                  IN IF mode = "none" THEN [acc EXCEPT !.info.mode = mode]
                     ELSE [acc EXCEPT !.info = [mode |-> mode,
                                                prog |-> id("PROG_ID", @.prog), skb |-> id("SKB_PROG_ID", @.skb),
                                                drv |-> id("DRV_PROG_ID", @.drv), hw |-> id("HW_PROG_ID", @.hw)]]

-----------------------------------------------------------------------------
(* Dumps of traffic control.  The callback of the caller is given each      *)
(* message with its attributes and may stop the dump.                       *)

TcaAttrs == {"KIND", "OPTIONS"}

\* __dump_class_nlmsg, __dump_qdisc_nlmsg and __dump_filter_nlmsg.
DumpTc(acc, m, stop) ==
  LET seen == Append(acc.seen, [msg |-> m.tcm, tb |-> libbpf_nla_parse(m.attrs, TcaAttrs)])
  IN [seen |-> seen, ret |-> IF Len(seen) = stop THEN "callback" ELSE "ok"]

-----------------------------------------------------------------------------
(* Receiving.  r is [ret, acc, multi]: ret is "go" until the loop is left,  *)
(* acc is what the callback fn has collected, with its own ret.             *)

\* The address bind gave the socket.
nl_pid == 99

\* _fn for the dump of one link or of traffic control; there is none for an
\* answer that is only acknowledged.
Callback(fn, acc, m) ==
  CASE fn.dump = "link" -> get_xdp_info(acc, m, fn.ifindex)
    [] fn.dump = "tc" -> DumpTc(acc, m, fn.stop)
    [] fn.dump = "none" -> acc

RecvMessage(r, m, seq, fn) ==
  LET multi == r.multi \/ m.multi
  IN IF r.ret # "go" THEN r
     ELSE IF m.pid # nl_pid THEN [r EXCEPT !.ret = "wrngpid"]
     ELSE IF m.seq # seq THEN [r EXCEPT !.ret = "invseq"]
     ELSE IF m.type = "ERROR"
          THEN [r EXCEPT !.multi = multi, !.ret = IF m.error THEN "error" ELSE "go"]
     ELSE IF m.type = "DONE" THEN [r EXCEPT !.ret = "ok"]
     ELSE LET acc == Callback(fn, r.acc, m)
          IN [acc |-> acc, multi |-> multi, ret |-> IF acc.ret = "ok" THEN "go" ELSE acc.ret]

Fails(d) == d # <<>> /\ d[1].type = "FAIL"

\* What NLMSG_OK finds in the buffer: recv has cut the datagram at its end.
InBuffer(d) == LET cut == {i \in DOMAIN d : d[i].long} IN SubSeq(d, 1, IF cut = {} THEN Len(d) ELSE Min(cut) - 1)

\* One call of recv, taken only while more parts are expected.
RecvDatagram(r, d, seq, fn) ==
  IF r.ret # "go" \/ ~r.multi THEN r
  ELSE IF Fails(d) THEN [r EXCEPT !.ret = "recv"]
  ELSE IF d = <<>> THEN [r EXCEPT !.ret = "ok"]
  ELSE FoldLeft(LAMBDA q, m : RecvMessage(q, m, seq, fn), [r EXCEPT !.multi = FALSE], InBuffer(d))

\* A call that still expects a datagram after the last one never returns.
bpf_netlink_recv(datagrams, seq, fn, acc) ==
  LET r == FoldLeft(LAMBDA q, d : RecvDatagram(q, d, seq, fn), [ret |-> "go", acc |-> acc, multi |-> TRUE], datagrams)
  IN [acc |-> r.acc, ret |-> IF r.ret # "go" THEN r.ret ELSE IF r.multi THEN "blocked" ELSE "ok"]

-----------------------------------------------------------------------------
(* The queries, and the requests of the dumps.                             *)

\* The dump of libbpf_nl_get_link through __dump_link_nlmsg.
libbpf_nl_get_link(datagrams, seq, ifindex) ==
  bpf_netlink_recv(datagrams, seq, [dump |-> "link", ifindex |-> ifindex], [ret |-> "ok", info |-> NoInfo])

get_xdp_id(info, mode) ==
  IF info.mode # "multi" THEN info.prog
  ELSE CASE mode = "drv" -> info.drv [] mode = "hw" -> info.hw [] mode = "skb" -> info.skb [] OTHER -> 0

\* modes are the mode flags of the caller, of which there may be one.
bpf_get_link_xdp_id(datagrams, seq, ifindex, modes) ==
  IF \E a, b \in modes : a # b THEN [ret |-> "inval", id |-> 0]
  ELSE LET r == libbpf_nl_get_link(datagrams, seq, ifindex)
       IN IF r.ret # "ok" THEN [ret |-> r.ret, id |-> 0]
          ELSE [ret |-> "ok", id |-> get_xdp_id(r.acc.info, IF modes = {} THEN "" ELSE CHOOSE m \in modes : TRUE)]

TcRequest(type, ifindex, parent) == [type |-> type, family |-> "UNSPEC", ifindex |-> ifindex, parent |-> parent]
\* kernel says what the kernel answers to a request.
NlGetTc(req, sent, seq, stop, kernel) ==
  IF ~sent THEN [ret |-> "send", acc |-> [seen |-> <<>>, ret |-> "ok"]]
  ELSE bpf_netlink_recv(kernel[req], seq, [dump |-> "tc", stop |-> stop], [seen |-> <<>>, ret |-> "ok"])

libbpf_nl_get_class(ifindex, sent, seq, stop, kernel) ==
  NlGetTc(TcRequest("GETTCLASS", ifindex, 0), sent, seq, stop, kernel)
libbpf_nl_get_qdisc(ifindex, sent, seq, stop, kernel) ==
  NlGetTc(TcRequest("GETQDISC", ifindex, 0), sent, seq, stop, kernel)
libbpf_nl_get_filter(ifindex, handle, sent, seq, stop, kernel) ==
  NlGetTc(TcRequest("GETTFILTER", ifindex, handle), sent, seq, stop, kernel)

-----------------------------------------------------------------------------
(* The text of an error.  An acknowledgement has the error, the request it  *)
(* answers unless that is capped, and attributes; a text is a string that   *)
(* ends in its last byte.                                                   *)

ErrWords == 1          \* the error in front of the request
RequestWords == 4      \* a netlink header

\* Where the attributes begin in what follows the netlink header.
ExtAckAt(nlh) == ErrWords + RequestWords + (IF nlh.capped THEN 0 ELSE nlh.requestLen) + 1

\* The text that is shown: "" for none.  The attributes are taken to reach
\* the length of a netlink header past the message, into what the buffer has
\* there.
libbpf_nla_dump_errormsg(nlh) ==
  LET attrs == SubSeq(nlh.words, ExtAckAt(nlh), Len(nlh.words)) \o nlh.behind
      p == ParseUnder(attrs, {"MSG", "OFFS"}, TRUE)
  IN IF ~nlh.tlvs \/ p.err \/ p.tb["MSG"] = 0 THEN "" ELSE attrs[p.tb["MSG"] + 1].text

-----------------------------------------------------------------------------
(* Attaching: the request's attributes, and the answer to it.               *)

SetLinkRequest_NoFlagsLength(fd, flags) ==
  LET fdAttr == <<[type |-> "FD", len |-> HDRLEN + 4], fd>>
      flagsAttr == IF flags = 0 THEN <<>> ELSE <<[type |-> "FLAGS", len |-> HDRLEN + 4], flags>>
  IN <<[type |-> "XDP", len |-> HDRLEN + 4 * Len(fdAttr)]>> \o fdAttr \o flagsAttr
SetLinkRequest(fd, flags) ==
  LET fdAttr == <<[type |-> "FD", len |-> HDRLEN + 4], fd>>
      flagsAttr == IF flags = 0 THEN <<>> ELSE <<[type |-> "FLAGS", len |-> HDRLEN + 4], flags>>
  IN <<[type |-> "XDP", len |-> HDRLEN + 4 * Len(fdAttr \o flagsAttr)]>> \o fdAttr \o flagsAttr

\* The kernel's answer depends on what it reads in the request.
bpf_set_link_xdp_fd(fd, flags, seq, kernel) ==
  bpf_netlink_recv(kernel[SetLinkRequest(fd, flags)], seq, [dump |-> "none"], [ret |-> "ok"]).ret

------------------------------------------------------------------------------
(***************************************************************************)
(* What a kernel answers to Netlink: a dump of two links, in every order of *)
(* attributes and every split into datagrams, or an acknowledgement.       *)
(***************************************************************************)

NetSeq == 7
Me == 2
U32Attr(type, val) == <<[type |-> type, len |-> 8], val>>
U8Attr(type, val) == <<[type |-> type, len |-> 5], val>>

\* The hook of a link: the ids of the programs of each mode, 0 for none.
Hooks == [drv : {0, 3}, skb : {0, 4}, hw : {0, 5}]
Modes(h) == {m \in {"drv", "skb", "hw"} : h[m] # 0}
HookMode(h) == IF Modes(h) = {} THEN "none" ELSE IF Cardinality(Modes(h)) > 1 THEN "multi" ELSE CHOOSE m \in Modes(h) : TRUE

\* The kernel gives PROG_ID only when there is one program.
HookAttrs(h) ==
  <<U8Attr("ATTACHED", HookMode(h))>>
    \o (IF Cardinality(Modes(h)) = 1 THEN <<U32Attr("PROG_ID", h[CHOOSE m \in Modes(h) : TRUE])>> ELSE <<>>)
    \o (IF h.skb # 0 THEN <<U32Attr("SKB_PROG_ID", h.skb)>> ELSE <<>>)
    \o (IF h.drv # 0 THEN <<U32Attr("DRV_PROG_ID", h.drv)>> ELSE <<>>)
    \o (IF h.hw # 0 THEN <<U32Attr("HW_PROG_ID", h.hw)>> ELSE <<>>)

LinkAttrs(h, reversed) ==
  LET inside == FlattenSeq(IF reversed THEN Reverse(HookAttrs(h)) ELSE HookAttrs(h))
      xdp == <<[type |-> "XDP", len |-> HDRLEN + 4 * Len(inside)]>> \o inside
      other == U8Attr("OTHER", "x")
  IN IF reversed THEN xdp \o other ELSE other \o xdp

Message(type) == [type |-> type, pid |-> nl_pid, seq |-> NetSeq, multi |-> TRUE, error |-> FALSE, long |-> FALSE]
LinkMessage(ifindex, h, reversed) ==
  Message("LINK") @@ [ifindex |-> ifindex, attrs |-> LinkAttrs(h, reversed)]

\* A dump of three messages: cut says after which a datagram ends, fault what
\* comes instead of the second message, or that the last is missing.
Dump(c) ==
  LET one == LinkMessage(1, c.h1, c.reversed)
      two == CASE c.fault \in {"no", "nodone"} -> LinkMessage(Me, c.h2, c.reversed)
               [] c.fault = "error" -> [Message("ERROR") EXCEPT !.error = TRUE]
               [] c.fault = "seq" -> [LinkMessage(Me, c.h2, c.reversed) EXCEPT !.seq = NetSeq - 1]
               [] c.fault = "pid" -> [LinkMessage(Me, c.h2, c.reversed) EXCEPT !.pid = 0]
               [] c.fault = "long" -> [LinkMessage(Me, c.h2, c.reversed) EXCEPT !.long = TRUE]
               [] c.fault = "recv" -> Message("FAIL")
      done == IF c.fault = "nodone" THEN LinkMessage(3, c.h1, c.reversed) ELSE Message("DONE")
      all == IF c.first THEN <<two, one, done>> ELSE <<one, two, done>>
      ends == c.cut \cup {3} \cup (IF c.fault = "recv" THEN {1, 2} ELSE {})
      from(e) == CHOOSE k \in 1..3 : k <= e /\ (k = 1 \/ k - 1 \in ends) /\ \A j \in k..(e - 1) : j \notin ends
  IN [i \in 1..Cardinality(ends) |->
        LET e == CHOOSE x \in ends : Cardinality({y \in ends : y <= x}) = i IN SubSeq(all, from(e), e)]

NetDumpInputs ==
  {c \in [algo : {"netdump"}, h1 : Hooks, h2 : Hooks, reversed : BOOLEAN, cut : SUBSET {1, 2}, first : BOOLEAN,
          fault : {"no", "error", "seq", "pid", "long", "nodone", "recv"}, modes : {{}, {"drv"}, {"skb"}, {"drv", "skb"}}] :
     c.fault # "no" => c.h1 = [drv |-> 3, skb |-> 0, hw |-> 0]}
NetDumpNext == Compute("netdump", LAMBDA c : bpf_get_link_xdp_id(Dump(c), NetSeq, Me, c.modes))

\* The kernel acknowledges a request it can do; "quiet" drops the answer.
Acknowledge(req, c) ==
  LET xdp == libbpf_nla_parse(req, {"XDP"})["XDP"]
      tb == libbpf_nla_parse(Nested(req, xdp), {"FD", "FLAGS"})
      fd == IF tb["FD"] = 0 THEN 0 ELSE Getattr(Nested(req, xdp), tb["FD"])
      flags == IF tb["FLAGS"] = 0 THEN 0 ELSE Getattr(Nested(req, xdp), tb["FLAGS"])
  IN IF c.fault = "recv" THEN <<<<Message("FAIL")>>>>
     ELSE <<<<[Message("ERROR") EXCEPT !.multi = FALSE, !.error = <<fd, flags>> # <<c.fd, c.flags>> \/ c.fault = "busy"]>>>>
NetSetInputs == [algo : {"netset"}, fd : {3, 4}, flags : 0..2, fault : {"no", "busy", "recv"}]
SetRequests == {SetLinkRequest(fd, flags) : fd \in {3, 4}, flags \in 0..2}
NetSetNext == Compute("netset", LAMBDA c : bpf_set_link_xdp_fd(c.fd, c.flags, NetSeq, [req \in SetRequests |-> Acknowledge(req, c)]))

\* The kernel's classes, qdiscs and filters; it answers with those of the
\* device, and of the parent a filter is asked for, in an order of its own.
TcTable == <<[type |-> "GETTCLASS", ifindex |-> Me, parent |-> 1, id |-> 1], [type |-> "GETQDISC", ifindex |-> Me, parent |-> 0, id |-> 2],
             [type |-> "GETTFILTER", ifindex |-> Me, parent |-> 1, id |-> 3], [type |-> "GETTFILTER", ifindex |-> Me, parent |-> 2, id |-> 4],
             [type |-> "GETTFILTER", ifindex |-> 1, parent |-> 1, id |-> 5], [type |-> "GETTFILTER", ifindex |-> Me, parent |-> 1, id |-> 6]>>
TcMatches(req) == SelectSeq(TcTable, LAMBDA e : /\ e.type = req.type /\ e.ifindex = req.ifindex
                                                /\ req.type = "GETTFILTER" => e.parent = req.parent)
TcMessage(e, c) ==
  LET attrs == <<U32Attr("KIND", e.id), U8Attr("STATS", "x")>>
  IN Message("TC") @@ [tcm |-> e, attrs |-> FlattenSeq(IF c.reversed THEN Reverse(attrs) ELSE attrs)]
TcAnswer(req, c) ==
  LET found == TcMatches(req)
      msgs == [i \in DOMAIN found |-> TcMessage(found[i], c)]
  IN IF c.fault = "recv" THEN <<<<Message("FAIL")>>>>
     ELSE IF c.split THEN [i \in DOMAIN msgs |-> <<msgs[i]>>] \o <<<<Message("DONE")>>>> ELSE <<msgs \o <<Message("DONE")>>>>
TcInputs == [algo : {"tc"}, what : {"GETTCLASS", "GETQDISC", "GETTFILTER"}, ifindex : {1, Me}, handle : 1 .. 2, sent : BOOLEAN,
             stop : {0, 1, 2}, split : BOOLEAN, reversed : BOOLEAN, fault : {"no", "recv"}]
TcRequests ==
  {TcRequest(w, i, p) : w \in {"GETTCLASS", "GETQDISC", "GETTFILTER"}, i \in {1, Me}, p \in 0 .. 2}
TcNext ==
  Compute("tc", LAMBDA c :
    CASE c.what = "GETTCLASS" -> libbpf_nl_get_class(c.ifindex, c.sent, NetSeq, c.stop, [req \in TcRequests |-> TcAnswer(req, c)])
      [] c.what = "GETQDISC" -> libbpf_nl_get_qdisc(c.ifindex, c.sent, NetSeq, c.stop, [req \in TcRequests |-> TcAnswer(req, c)])
      [] OTHER -> libbpf_nl_get_filter(c.ifindex, c.handle, c.sent, NetSeq, c.stop, [req \in TcRequests |-> TcAnswer(req, c)]))

\* An extended acknowledgement.  A text fills msgWords words and ends in its
\* last byte if it is whole; what the buffer holds behind the message is
\* nothing, the header of another message, or a text of earlier.
TextWord(text, ends) == [text |-> text, ends |-> ends]
Word == [type |-> "other", len |-> 0]
MsgAttr(c) == IF c.msgWords = 0 THEN <<>>
              ELSE <<[type |-> "MSG", len |-> HDRLEN + (4 * c.msgWords) - c.short]>>
                     \o [i \in 1 .. c.msgWords |-> TextWord("kernel", i = c.msgWords /\ c.whole)]
OffsAttr(c) == IF c.offs THEN <<[type |-> "OFFS", len |-> 8], TextWord("offset", FALSE)>> ELSE <<>>
ErrorMessage(c) ==
  [tlvs |-> c.tlvs, capped |-> c.capped, requestLen |-> c.requestLen,
   words |-> [i \in 1 .. ErrWords + RequestWords + (IF c.capped THEN 0 ELSE c.requestLen) |-> Word]
               \o (IF c.offsFirst THEN OffsAttr(c) \o MsgAttr(c) ELSE MsgAttr(c) \o OffsAttr(c)),
   behind |-> CASE c.behind = "nothing" -> [i \in 1 .. RequestWords |-> Word]
                [] c.behind = "message" -> <<[type |-> "other", len |-> 36], Word, Word, Word>>
                [] c.behind = "text" -> <<[type |-> "MSG", len |-> 8], TextWord("earlier", TRUE), Word, Word>>]
ErrorTextInputs ==
  [algo : {"errortext"}, tlvs : BOOLEAN, capped : BOOLEAN, requestLen : {0, 3}, msgWords : 0 .. 2, short : {0, 3}, whole : BOOLEAN,
   offs : BOOLEAN, offsFirst : BOOLEAN, behind : {"nothing", "message", "text"}]
ErrorTextNext == Compute("errortext", LAMBDA c : libbpf_nla_dump_errormsg(ErrorMessage(c)))

NetNext == NetDumpNext \/ NetSetNext \/ TcNext \/ ErrorTextNext

-----------------------------------------------------------------------------
(* Properties *)

\* A query that succeeds answers the program of the link asked for, however
\* the kernel orders attributes and splits the dump: the one of the mode
\* asked for where there are several, else the only one; and a query without
\* a fault succeeds.  There is an exception: when the message of the link does
\* not fit the buffer it is passed over, and with it the rest of its datagram,
\* so that the query answers that there is no program, or waits for the end of
\* the dump that it has lost, as it does when the kernel never sends one.
LinkIdRight ==
  Is("netdump") =>
    LET h == in.h2
        mode == CHOOSE m \in in.modes : TRUE
        wanted == CASE Cardinality(Modes(h)) = 0 -> 0
                    [] Cardinality(Modes(h)) = 1 -> h[CHOOSE m \in Modes(h) : TRUE]
                    [] OTHER -> IF in.modes = {} THEN 0 ELSE h[mode]
    IN IF Cardinality(in.modes) > 1 THEN out.ret = "inval"
       ELSE out = CASE in.fault = "no" -> [ret |-> "ok", id |-> wanted]
                    [] in.fault = "error" -> [ret |-> "error", id |-> 0]
                    [] in.fault = "seq" -> [ret |-> "invseq", id |-> 0]
                    [] in.fault = "pid" -> [ret |-> "wrngpid", id |-> 0]
                    [] in.fault = "recv" -> [ret |-> "recv", id |-> 0]
                    [] in.fault = "nodone" -> [ret |-> "blocked", id |-> 0]
                    [] in.fault = "long" -> [ret |-> IF in.first \/ in.cut # {} THEN "ok" ELSE "blocked", id |-> 0]

\* Attaching reports success exactly when the kernel said it attached the
\* descriptor with the flags asked for, and waits for one answer only.
AttachReported ==
  Is("netset") => out = CASE in.fault = "no" -> "ok" [] in.fault = "busy" -> "error" [] in.fault = "recv" -> "recv"

\* A dump of classes, qdiscs or filters that succeeds has shown the caller
\* each one of the device, and of the parent asked for, once and with its
\* attributes; the caller's error ends it at the message it was raised for.
TcDumped ==
  Is("tc") =>
    LET all == TcMatches([type |-> in.what, ifindex |-> in.ifindex, parent |-> in.handle])
        stopped == in.stop # 0 /\ in.stop <= Len(all)
        shown == IF stopped THEN SubSeq(all, 1, in.stop) ELSE all
    IN IF ~in.sent THEN out.ret = "send"
       ELSE IF in.fault = "recv" THEN out.ret = "recv"
       ELSE /\ out.ret = (IF stopped THEN "callback" ELSE "ok")
            /\ [i \in DOMAIN out.acc.seen |-> out.acc.seen[i].msg] = shown
            /\ \A i \in DOMAIN out.acc.seen : out.acc.seen[i].tb["KIND"] # 0

\* The text shown for a refused request is the kernel's, found behind the
\* request unless that is capped, and none when the text is not whole; except
\* that memory behind the message, which the length includes, is read as
\* attributes too.
ErrorTextRight ==
  (Is("errortext") /\ in.behind # "text") =>
    out = IF in.tlvs /\ in.msgWords > 0 /\ in.whole THEN "kernel" ELSE ""
==============================================================================
