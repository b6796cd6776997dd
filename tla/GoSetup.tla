------------------------------- MODULE GoSetup -------------------------------
(***************************************************************************)
(* How the Go programs set themselves up and end: programs and maps        *)
(* (go-approach/program.go), sockets (NewSocket and Close of xdp.go), the  *)
(* calls each example makes in which order and what it does when one       *)
(* fails.  log.Fatalf and os.Exit end the process at once; return and      *)
(* panic run the deferred calls first, the last one first.  The kernel     *)
(* frees what a process holds when it ends, but an XDP program stays on    *)
(* its interface.  After a program has ended another may be started.       *)
(***************************************************************************)
EXTENDS Integers, Sequences, FiniteSets

CONSTANTS
  Examples,     \* the programs to choose from
  MaxStarts     \* bound: programs started one after the other

VARIABLES
  example,    \* the program that runs
  start,      \* how many have been started
  at,         \* the step of its set-up; after the last one, its loop
  sub,        \* how far that step has come
  how,        \* how the program ended: "", "exit" or "return"
  defers,     \* deferred calls, the last one first
  kept,       \* a deferred Detach has failed
  held,       \* per interface, what the process holds for its socket
  hook,       \* per interface, the start whose program is attached, 0 for none
  queues,     \* qidconf_map entries set: start and interface
  xsks        \* xsks_map entries set

setupVars == <<example, start, at, sub, how, defers, kept, held, hook, queues, xsks>>

Ifaces == {"in", "out"}

-----------------------------------------------------------------------------
(* The programs: each step, its interface, what a failure does and what is  *)
(* deferred once it has succeeded.                                          *)

Step(op, i, fail, defer) == [op |-> op, i |-> i, fail |-> fail, defer |-> defer]

\* Attach a program, open a socket and register it with the program.
PortSetup(i, load) ==
  << Step(load, i, "exit", "none"), Step("Attach", i, "exit", "Detach"),
     Step("NewSocket", i, "exit", "none"), Step("Register", i, "return", "Unregister") >>

Links == << Step("LinkByName", "in", "exit", "none"), Step("LinkByName", "out", "exit", "none") >>

SwitchSetup == Links \o PortSetup("in", "LoadProgram") \o PortSetup("out", "LoadProgram")
BiSetup == SwitchSetup
BiOriginalSetup == SwitchSetup
ChanSetup == SwitchSetup
ChanOriginalSetup == SwitchSetup
SyncBadSetup == SwitchSetup

\* "The XDP socket used for transmitting data does not need an EBPF program."
L2fwdSetup == Links \o PortSetup("in", "NewProgram") \o << Step("NewSocket", "out", "exit", "none") >>

\* Mutant: the socket is not registered.
ReceiverSetup_NotRegistered ==
  << Step("LinkByName", "in", "return", "none"), Step("NewProgram", "in", "return", "Close"),
     Step("Attach", "in", "return", "Detach"), Step("NewSocket", "in", "return", "none") >>

ReceiverSetup ==
  << Step("LinkByName", "in", "return", "none"), Step("NewProgram", "in", "return", "Close"),
     Step("Attach", "in", "return", "Detach"), Step("NewSocket", "in", "return", "none"),
     Step("Register", "in", "return", "Unregister") >>
RebroadcastSetup == ReceiverSetup
DumpframesSetup == ReceiverSetup

\* The senders panic, with nothing deferred.
SenderSetup == << Step("LinkByName", "in", "return", "none"), Step("NewSocket", "in", "return", "none") >>
SendudpSetup == SenderSetup
SenddnsqueriesSetup == SenderSetup

\* A user of the library that opens a socket again after closing it.
ReopenSetup == << Step("NewSocket", "in", "return", "none"), Step("Close", "in", "return", "none"),
                  Step("NewSocket", "in", "return", "none") >>

Setup(e) ==
  CASE e = "switch" -> SwitchSetup          [] e = "switch_bi" -> BiSetup
    [] e = "switch_bi_original" -> BiOriginalSetup
    [] e = "switch_bi_chan" -> ChanSetup    [] e = "switch_bi_chan_original" -> ChanOriginalSetup
    [] e = "switch_sync_bad" -> SyncBadSetup
    [] e = "l2fwd" -> L2fwdSetup            [] e = "rebroadcast" -> RebroadcastSetup
    [] e = "dumpframes" -> DumpframesSetup  [] e = "sendudp" -> SendudpSetup
    [] e = "senddnsqueries" -> SenddnsqueriesSetup
    [] e = "reopen" -> ReopenSetup

\* An error of poll() in the loop.
LoopFailure(e) == IF e \in {"rebroadcast", "dumpframes", "sendudp", "senddnsqueries"}
                  THEN "return" ELSE "exit"

Running == how = "" /\ at <= Len(Setup(example))
InLoop == how = "" /\ at > Len(Setup(example))
cur == Setup(example)[at]
Doing(op) == Running /\ cur.op = op

Init ==
  /\ example \in Examples /\ start = 1
  /\ at = 1 /\ sub = 0
  /\ how = "" /\ defers = <<>> /\ kept = FALSE
  /\ held = [i \in Ifaces |-> {}]
  /\ hook = [i \in Ifaces |-> 0]
  /\ queues = {} /\ xsks = {}

\* The step has succeeded.
Done ==
  /\ at' = at + 1 /\ sub' = 0
  /\ defers' = IF cur.defer = "none" THEN defers
               ELSE <<[op |-> cur.defer, i |-> cur.i]>> \o defers
  /\ UNCHANGED <<example, start, how, kept>>

Further == sub' = sub + 1 /\ UNCHANGED <<example, start, at, how, defers, kept>>

\* The step has failed: the process ends, at once or after its deferred calls.
Fails ==
  /\ how' = cur.fail
  /\ UNCHANGED <<example, start, at, sub, defers, kept>>

-----------------------------------------------------------------------------
(* program.go *)

\* LinkByName, NewProgram and LoadProgram give the process what it alone sees.
LookUp ==
  /\ Running /\ cur.op \in {"LinkByName", "NewProgram", "LoadProgram"}
  /\ Done \/ Fails
  /\ UNCHANGED <<held, hook, queues, xsks>>

\* Attach: what is on the interface is removed ...
removeProgram ==
  /\ Doing("Attach") /\ sub = 0
  /\ \/ hook' = [hook EXCEPT ![cur.i] = 0] /\ Further
     \/ UNCHANGED hook /\ Fails
  /\ UNCHANGED <<held, queues, xsks>>

\* ... then the program attached.
attachProgram ==
  /\ Doing("Attach") /\ sub = 1
  /\ \/ hook' = [hook EXCEPT ![cur.i] = start] /\ Done
     \/ UNCHANGED hook /\ Fails
  /\ UNCHANGED <<held, queues, xsks>>

\* Register: the socket, then the queue that redirects to it.
Register ==
  /\ Doing("Register")
  /\ \/ sub = 0 /\ xsks' = xsks \cup {<<start, cur.i>>} /\ Further /\ UNCHANGED queues
     \/ sub = 1 /\ queues' = queues \cup {<<start, cur.i>>} /\ Done /\ UNCHANGED xsks
     \/ Fails /\ UNCHANGED <<queues, xsks>>
  /\ UNCHANGED <<held, hook>>

-----------------------------------------------------------------------------
(* xdp.go: NewSocket and Close *)

\* What NewSocket does in turn.  Mapping a ring also keeps the socket's file.
SocketSteps ==
  << "Socket", "umem", "UMEM_REG", "FILL_RING", "COMPLETION_RING", "RX_RING", "TX_RING",
     "MMAP_OFFSETS", "fillRing", "completionRing", "rxRing", "txRing", "Bind" >>
RingMaps == {"fillRing", "completionRing", "rxRing", "txRing"}
Resources == {"Socket", "umem", "Bind"} \cup RingMaps

\* The kernel releases a socket, and the queue it is bound to, with the last
\* descriptor or mapping of it.
Released(resources) ==
  IF resources \cap ({"Socket"} \cup RingMaps) = {} THEN resources \ {"Bind"} ELSE resources

\* Another socket of the process is still bound to the queue.
Busy == "Bind" \in held[cur.i]

\* A step that fails: Close, which closes the descriptor and unmaps the UMEM.
NewSocketFails ==
  /\ Doing("NewSocket")
  /\ held' = [held EXCEPT ![cur.i] = Released(@ \ {"Socket", "umem"})]
  /\ Fails
  /\ UNCHANGED <<hook, queues, xsks>>

NewSocket ==
  /\ Doing("NewSocket")
  /\ SocketSteps[sub + 1] = "Bind" => ~Busy
  /\ held' = [held EXCEPT ![cur.i] = @ \cup ({SocketSteps[sub + 1]} \cap Resources)]
  /\ IF sub + 1 = Len(SocketSteps) THEN Done ELSE Further
  /\ UNCHANGED <<hook, queues, xsks>>

\* Close forgets the rings without unmapping them.
Close ==
  /\ Doing("Close")
  /\ held' = [held EXCEPT ![cur.i] = Released(@ \ {"Socket", "umem"})]
  /\ Done
  /\ UNCHANGED <<hook, queues, xsks>>

-----------------------------------------------------------------------------
(* The end of a program *)

\* poll() fails, or a signal ends the process.
LoopEnds ==
  /\ InLoop
  /\ how' \in {LoopFailure(example), "exit"}
  /\ UNCHANGED <<example, start, at, sub, defers, kept, held, hook, queues, xsks>>

\* A deferred call.  Unregister ends with its first call: an entry of an array
\* map like qidconf_map cannot be deleted.  Errors are not looked at.
RunDeferred ==
  /\ how = "return" /\ defers # <<>>
  /\ defers' = Tail(defers)
  /\ \/ /\ Head(defers).op = "Detach"
        /\ hook' = [hook EXCEPT ![Head(defers).i] = 0]
        /\ UNCHANGED kept
     \/ /\ Head(defers).op = "Detach"
        /\ kept' = TRUE
        /\ UNCHANGED hook
     \/ /\ Head(defers).op \in {"Unregister", "Close"}
        /\ UNCHANGED <<kept, hook>>
  /\ UNCHANGED <<example, start, at, sub, how, held, queues, xsks>>

\* The process is gone and another program is started.
Ended == how = "exit" \/ (how = "return" /\ defers = <<>>)

Restart ==
  /\ Ended /\ start < MaxStarts
  /\ example' \in Examples /\ start' = start + 1
  /\ at' = 1 /\ sub' = 0
  /\ how' = "" /\ defers' = <<>> /\ kept' = FALSE
  /\ held' = [i \in Ifaces |-> {}]
  /\ xsks' = {e \in xsks : e[1] # start}
  /\ UNCHANGED <<hook, queues>>

Next == \/ LookUp \/ removeProgram \/ attachProgram \/ Register
        \/ NewSocket \/ NewSocketFails \/ Close
        \/ LoopEnds \/ RunDeferred \/ Restart

Spec == Init /\ [][Next]_setupVars

-----------------------------------------------------------------------------
TypeOK ==
  /\ example \in Examples /\ start \in 1 .. MaxStarts
  /\ how \in {"", "exit", "return"}
  /\ held \in [Ifaces -> SUBSET Resources]
  /\ hook \in [Ifaces -> 0 .. start]
  /\ queues \subseteq (1 .. start) \X Ifaces
  /\ xsks \subseteq (1 .. start) \X Ifaces

\* The interfaces a program expects packets from.
ReceivesFrom(e) == CASE e \in {"sendudp", "senddnsqueries", "reopen"} -> {}
                     [] e \in {"l2fwd", "rebroadcast", "dumpframes"} -> {"in"}
                     [] OTHER -> Ifaces

\* A program in its loop is connected: on every interface it receives from its
\* own program is attached, even if an earlier one was left there, and the queue
\* redirects to a socket that is open and bound.
Connected ==
  InLoop => \A i \in ReceivesFrom(example) :
              /\ hook[i] = start
              /\ <<start, i>> \in queues /\ <<start, i>> \in xsks
              /\ {"Socket", "Bind", "rxRing"} \subseteq held[i]

\* While a program runs that uses NewProgram, its XDP program, which redirects
\* the queues set in qidconf_map, never redirects one for which it has no socket:
\* Register and the order of the deferred calls.  (The ebpf.o of the switches
\* does not look at the value and redirects from Attach on.)
NeverRedirectsToNothing ==
  (example \in {"l2fwd", "rebroadcast", "dumpframes"} /\ ~Ended) =>
    \A i \in Ifaces : (hook[i] = start /\ <<start, i>> \in queues) => <<start, i>> \in xsks

\* A program that ended through its deferred calls leaves no program of its own
\* on an interface, unless removing it failed.
LeavesNoProgram ==
  (how = "return" /\ defers = <<>> /\ ~kept) => \A i \in Ifaces : hook[i] # start

\* A NewSocket that failed leaves neither a descriptor nor the UMEM behind.
FailedSocketClosed ==
  (how # "" /\ at <= Len(Setup(example)) /\ cur.op = "NewSocket")
    => held[cur.i] \cap {"Socket", "umem"} = {}
=============================================================================
