------------------------------ MODULE BpfLink ------------------------------
(***************************************************************************)
(* Attaching loaded programs to probes, tracepoints and perf events, and   *)
(* the links that stand for an attachment (bpf_program__attach_* and       *)
(* bpf_link__destroy, libbpf.c).  A call opens an event, allocates a link, *)
(* gives the event the program and enables it; each step can fail, and the *)
(* call then has to undo the ones before it.  The kernel runs a program at *)
(* an event from when both are set until the event is disabled or its last *)
(* descriptor closed, whatever happens to the object it was loaded from.   *)
(***************************************************************************)
EXTENDS Integers, Sequences

CONSTANTS
  LinkProgs,       \* the programs of the object
  Requests,        \* the attach calls: [kind, ret, pid]
  Sysfs,           \* what the files under /sys say of kprobe and uprobe events
  MaxEvents,       \* bound on the events the process opens
  MaxErrors        \* bound on the calls that fail for no reason of ours

ASSUME LinkAssumption ==
  /\ "none" \notin LinkProgs
  /\ \A r \in Requests : r.ret \in BOOLEAN /\ r.pid \in Int

NoReq == [kind |-> "none", ret |-> FALSE, pid |-> -1]

VARIABLES
  sys,             \* the files under /sys of this machine
  lpc,             \* the step of the attach call
  req, prog,       \* its arguments
  pfd,             \* the event it works on (0: none)
  lmem,            \* the block it allocated for the link is not yet the caller's
  event,           \* the kernel's events: [open, kind, ret, pid, cpu, prog, enabled, own]
  links,           \* the caller's links: [fd, kind, ret, pid, prog]
  loaded,          \* the programs whose descriptor the object holds
  errors

linkVars == <<sys, lpc, req, prog, pfd, lmem, event, links, loaded, errors>>

LinkInit ==
  /\ sys \in Sysfs
  /\ lpc = "idle" /\ req = NoReq /\ prog \in LinkProgs /\ pfd = 0 /\ lmem = FALSE
  /\ event = <<>> /\ links = {} /\ loaded \in SUBSET LinkProgs /\ errors = 0

Error == errors < MaxErrors /\ errors' = errors + 1
NoError == UNCHANGED errors
Event(kind, ret, pid, cpu, own) ==
  [open |-> TRUE, kind |-> kind, ret |-> ret, pid |-> pid, cpu |-> cpu, prog |-> "none", enabled |-> FALSE, own |-> own]

----------------------------------------------------------------------------
\* The caller opens a perf event of its own.
UserEvent ==
  /\ lpc = "idle" /\ Len(event) < MaxEvents
  /\ event' = Append(event, Event("perf_event", FALSE, -1, 0, TRUE))
  /\ UNCHANGED <<sys, lpc, req, prog, pfd, lmem, links, loaded, errors>>

\* The start of an attach call.
Start(r, p, step) ==
  /\ lpc = "idle"
  /\ req' = r /\ prog' = p /\ lpc' = step
  /\ UNCHANGED <<sys, lmem, event, links, loaded, errors>>
Opens(r, p, kind) == r.kind = kind /\ Len(event) < MaxEvents /\ pfd' = 0 /\ Start(r, p, "open")

bpf_program__attach_kprobe(r, p) == Opens(r, p, "kprobe")
bpf_program__attach_uprobe(r, p) == Opens(r, p, "uprobe")
bpf_program__attach_tracepoint(r, p) == Opens(r, p, "tracepoint")
\* With a descriptor of the caller's own.
bpf_program__attach_perf_event(r, p) ==
  /\ r.kind = "perf_event"
  /\ \E e \in DOMAIN event : event[e].own /\ event[e].open /\ pfd' = e
  /\ Start(r, p, "link")
AttachRaw(r, p) == r.kind = "raw" /\ Len(event) < MaxEvents /\ pfd' = 0 /\ Start(r, p, "link")

Returns == lpc' = "idle" /\ req' = NoReq /\ pfd' = 0

\* determine_{k,u}probe_{perf_type,retprobe_bit}: a file that is missing or
\* does not parse is an error, and so is a negative number.
parse_uint_from_file(kind, f) == sys[kind][f]

RetprobeBit(kind) == parse_uint_from_file(kind, "bit")

\* The processor: one in particular when no process is.
ProbeCpu(pid) == IF pid = -1 THEN 0 ELSE -1

\* perf_event_open_probe: the type and the return-probe bit come from /sys.
\* The kernel refuses an event of neither a process nor a processor.
perf_event_open_probe ==
  /\ lpc = "open" /\ req.kind \in {"kprobe", "uprobe"}
  /\ LET bit == RetprobeBit(req.kind)
         pid == IF req.pid < 0 THEN -1 ELSE req.pid
         cpu == ProbeCpu(req.pid)
         decoded == req.ret /\ bit = sys[req.kind].bit
     IN IF parse_uint_from_file(req.kind, "type") < 0 \/ (req.ret /\ bit < 0) \/ (pid = -1 /\ cpu = -1)
        THEN Returns /\ UNCHANGED event /\ NoError
        ELSE \/ /\ event' = Append(event, Event(req.kind, decoded, pid, cpu, FALSE))
                /\ pfd' = Len(event') /\ lpc' = "link" /\ UNCHANGED req /\ NoError
             \/ Error /\ Returns /\ UNCHANGED event
  /\ UNCHANGED <<sys, prog, lmem, links, loaded>>

\* perf_event_open_tracepoint: on every process, on processor 0.
perf_event_open_tracepoint ==
  /\ lpc = "open" /\ req.kind = "tracepoint"
  /\ \/ /\ event' = Append(event, Event("tracepoint", FALSE, -1, 0, FALSE))
        /\ pfd' = Len(event') /\ lpc' = "link" /\ UNCHANGED req /\ NoError
     \/ Error /\ Returns /\ UNCHANGED event
  /\ UNCHANGED <<sys, prog, lmem, links, loaded>>

\* The program must have a descriptor, and the link its memory.
AllocLink ==
  /\ lpc = "link"
  /\ \/ /\ prog \in loaded
        /\ lmem' = TRUE /\ lpc' = (IF req.kind = "raw" THEN "raw" ELSE "set_bpf") /\ NoError
     \/ prog \notin loaded /\ lpc' = "undo" /\ UNCHANGED lmem /\ NoError
     \/ prog \in loaded /\ Error /\ lpc' = "undo" /\ UNCHANGED lmem
  /\ UNCHANGED <<sys, req, prog, pfd, event, links, loaded>>

\* ioctl(PERF_EVENT_IOC_SET_BPF): an event has one program.
SetBpf ==
  /\ lpc = "set_bpf"
  /\ \/ /\ event[pfd].prog = "none"
        /\ event' = [event EXCEPT ![pfd].prog = prog]
        /\ lpc' = "enable" /\ UNCHANGED lmem /\ NoError
     \/ /\ IF event[pfd].prog = "none" THEN Error ELSE NoError
        /\ lmem' = FALSE /\ lpc' = "undo" /\ UNCHANGED event
  /\ UNCHANGED <<sys, req, prog, pfd, links, loaded>>

Link(fd) == [fd |-> fd, kind |-> req.kind, ret |-> req.ret, pid |-> req.pid, prog |-> prog]

Enable_Leaks ==
  /\ lpc = "enable"
  /\ \/ /\ event' = [event EXCEPT ![pfd].enabled = TRUE]
        /\ links' = links \cup {Link(pfd)} /\ lmem' = FALSE
        /\ Returns /\ NoError
     \/ /\ Error /\ lmem' = FALSE
        /\ Returns /\ UNCHANGED <<event, links>>
  /\ UNCHANGED <<sys, prog, loaded>>

\* ioctl(PERF_EVENT_IOC_ENABLE), and the link is the caller's.
Enable ==
  /\ lpc = "enable"
  /\ \/ /\ event' = [event EXCEPT ![pfd].enabled = TRUE]
        /\ links' = links \cup {Link(pfd)} /\ lmem' = FALSE
        /\ Returns /\ NoError
     \/ /\ Error /\ lmem' = FALSE
        /\ lpc' = "undo" /\ UNCHANGED <<event, links, req, pfd>>
  /\ UNCHANGED <<sys, prog, loaded>>

\* attach_kprobe, attach_uprobe and attach_tracepoint close the event they
\* opened when bpf_program__attach_perf_event failed; the caller's own stays.
CloseFailed ==
  /\ lpc = "undo"
  /\ event' = IF req.kind \in {"perf_event", "raw"} THEN event
              ELSE [event EXCEPT ![pfd].open = FALSE]
  /\ Returns
  /\ UNCHANGED <<sys, prog, lmem, links, loaded, errors>>

\* bpf_program__attach_raw_tracepoint: the descriptor is the attachment.
bpf_program__attach_raw_tracepoint ==
  /\ lpc = "raw"
  /\ lmem' = FALSE
  /\ \/ /\ event' = Append(event, [Event("raw", FALSE, -1, -1, FALSE) EXCEPT !.prog = prog, !.enabled = TRUE])
        /\ links' = links \cup {Link(Len(event'))}
        /\ NoError
     \/ Error /\ UNCHANGED <<event, links>>
  /\ Returns
  /\ UNCHANGED <<sys, prog, loaded>>

\* The event is disabled, closed whether that worked or not, and the link
\* freed; a raw tracepoint is only closed.
bpf_link__destroy(l) ==
  /\ lpc = "idle" /\ l \in links
  /\ links' = links \ {l}
  /\ \/ event' = [event EXCEPT ![l.fd].open = FALSE, ![l.fd].enabled = FALSE] /\ NoError
     \/ l.kind # "raw" /\ Error /\ event' = [event EXCEPT ![l.fd].open = FALSE]
  /\ UNCHANGED <<sys, lpc, req, prog, pfd, lmem, loaded>>

\* bpf_object__unload, and the caller closing an event it has not given away.
Unload ==
  /\ lpc = "idle" /\ loaded # {}
  /\ loaded' = {}
  /\ UNCHANGED <<sys, lpc, req, prog, pfd, lmem, event, links, errors>>
UserClose(e) ==
  /\ lpc = "idle" /\ event[e].own /\ event[e].open /\ \A l \in links : l.fd # e
  /\ event' = [event EXCEPT ![e].open = FALSE]
  /\ UNCHANGED <<sys, lpc, req, prog, pfd, lmem, links, loaded, errors>>

LinkNext ==
  \/ UserEvent \/ Unload
  \/ \E r \in Requests, p \in LinkProgs :
       \/ bpf_program__attach_kprobe(r, p) \/ bpf_program__attach_uprobe(r, p) \/ bpf_program__attach_tracepoint(r, p)
       \/ bpf_program__attach_perf_event(r, p) \/ AttachRaw(r, p)
  \/ perf_event_open_probe \/ perf_event_open_tracepoint \/ AllocLink \/ SetBpf \/ Enable \/ CloseFailed
  \/ bpf_program__attach_raw_tracepoint
  \/ \E l \in links : bpf_link__destroy(l)
  \/ \E e \in DOMAIN event : UserClose(e)

LinkSpec == LinkInit /\ [][LinkNext]_linkVars

----------------------------------------------------------------------------
\* Between calls, every event libbpf opened is either closed or reached by
\* exactly one link, and no memory of a link is lost: a call that fails at any
\* step leaves nothing behind (bpf_program__attach_*, bpf_link__destroy).
EventsOwned ==
  lpc = "idle" =>
    /\ ~lmem
    /\ \A e \in DOMAIN event :
         event[e].open /\ ~event[e].own => \E l \in links : \A k \in links : k.fd = e <=> k = l

\* A link in the caller's hands is an attachment: its event is open and
\* enabled with the program it was asked for, at the entry or the return and
\* for the process that was asked for, whatever else was attached, destroyed
\* or unloaded since.
LinkRuns ==
  \A l \in links :
    LET e == event[l.fd] IN
    /\ e.open /\ e.enabled /\ e.prog = l.prog /\ e.kind = l.kind
    /\ l.kind \in {"kprobe", "uprobe"} => e.ret = l.ret /\ e.pid = l.pid

\* Between calls, a program runs at an event only while the caller holds the
\* link for it: not after a call that failed, not after bpf_link__destroy,
\* even one that could not disable the event (an event of the caller's own
\* keeps its program when enabling it fails, but stays disabled).
RunsOnlyLinked ==
  lpc = "idle" => \A e \in DOMAIN event :
    event[e].open /\ event[e].enabled => \E l \in links : l.fd = e

\* A loaded program is attached exactly where and as long as the caller holds
\* a link for it: the three together (bpf_program__attach_*,
\* bpf_link__destroy).
LinksOwned == EventsOwned /\ LinkRuns /\ RunsOnlyLinked
=============================================================================
