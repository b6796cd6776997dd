------------------------------- MODULE XskUser -------------------------------
(***************************************************************************)
(* main and thread_func of switchtsn/af_xdp_david_new.c: the packet loop   *)
(* of XskSwitch between its set-up and its clean-up.  Every call of the    *)
(* set-up may fail and ends the process; SIGINT may come at any time; the  *)
(* last call, xdp_link_detach, may fail, and nobody looks at its result.   *)
(***************************************************************************)
EXTENDS XskSwitch
LOCAL INSTANCE TLC

VARIABLES at,     \* the call the program has reached
          held    \* what outlives a call: "program", "umem", "socket"

userVars == <<vars, at, held>>

UserInit == Init /\ at = "thread" /\ held = {}

\* exit(): the kernel frees the socket and the UMEM; the program stays attached.
Fail == at' = "failed" /\ held' = held \cap {"program"}

Acquire(call, what, next) ==
  /\ at = call
  /\ \/ at' = next /\ held' = held \cup what
     \/ Fail
  /\ UNCHANGED vars

-----------------------------------------------------------------------------
(* Set-up *)

\* main starts thread_func and waits for it.
StartThread == Acquire("thread", {}, "start")

\* --unload: whatever program is attached is detached, and that is all.
Unload ==
  /\ at = "start" /\ at' \in {"done", "undetached"}
  /\ UNCHANGED <<vars, held>>

\* load_bpf_and_xdp_attach with --filename.
LoadProgram ==
  \/ Acquire("start", {"program"}, "find_map")
  \/ at = "start" /\ at' = "buffer" /\ UNCHANGED <<vars, held>>

\* The look-up of its xsks_map.
FindXsksMap == Acquire("find_map", {}, "buffer")

\* setrlimit and posix_memalign.
AllocateBuffer == Acquire("buffer", {}, "umem")

configure_xsk_umem == Acquire("umem", {"umem"}, "socket")

\* xsk_socket__create attaches libbpf's program when there is none; the socket
\* may also be given up once it exists.
xsk_configure_socket ==
  \/ Acquire("socket", {"socket", "program"}, "stats")
  \/ /\ at = "socket" /\ at' = "failed" /\ held' = {"program"}
     /\ UNCHANGED vars

\* The statistics thread.
StartStats == Acquire("stats", {}, "loop")

-----------------------------------------------------------------------------
(* The loop, and the kernel once there is a socket *)

rx_and_process ==
  /\ at = "loop"
  /\ AppNext \/ PollFails
  /\ UNCHANGED <<at, held>>

Kernel ==
  /\ at \in {"stats", "loop"}
  /\ KernelTakeFill \/ KernelDeliver \/ KernelTx
  /\ UNCHANGED <<at, held>>

\* The handler is installed before anything else.
exit_application ==
  /\ at \notin {"done", "undetached", "failed"} /\ ~global_exit
  /\ global_exit' = TRUE
  /\ UNCHANGED <<appVars, fq, nic, rx, tx, ktx, cq, wakeup, at, held>>

-----------------------------------------------------------------------------
(* Clean-up *)

LeaveLoop ==
  /\ at = "loop" /\ pc = "closed" /\ at' = "delete_socket"
  /\ UNCHANGED <<vars, held>>

Release(call, what, next) ==
  at = call /\ at' = next /\ held' = held \ {what} /\ UNCHANGED vars

\* Mutant: the UMEM first.
CleanUp_UmemFirst ==
  \/ Release("delete_socket", "umem", "delete_umem")
  \/ Release("delete_umem", "socket", "detach")
  \/ Release("detach", "program", "done")
  \/ at = "detach" /\ at' = "undetached" /\ UNCHANGED <<vars, held>>

CleanUp ==
  \/ Release("delete_socket", "socket", "delete_umem")
  \/ Release("delete_umem", "umem", "detach")
  \/ Release("detach", "program", "done")
  \/ at = "detach" /\ at' = "undetached" /\ UNCHANGED <<vars, held>>

UserNext ==
  \/ StartThread \/ Unload \/ LoadProgram \/ FindXsksMap \/ AllocateBuffer
  \/ configure_xsk_umem \/ xsk_configure_socket \/ StartStats
  \/ rx_and_process \/ Kernel \/ exit_application \/ LeaveLoop \/ CleanUp

UserSpec == UserInit /\ [][UserNext]_userVars

-----------------------------------------------------------------------------
\* The loop runs on a socket of a UMEM with a program that redirects to it; the
\* socket never outlives its UMEM; the clean-up runs after SIGINT only, also
\* when that came during the set-up, and leaves nothing.  After a failed set-up
\* or a failed xdp_link_detach nothing is left but the program, which then
\* stays on the interface without a socket to redirect to.
UserOrder ==
  /\ at = "loop" => {"program", "umem", "socket"} \subseteq held
  /\ "socket" \in held => "umem" \in held
  /\ at \in {"delete_socket", "delete_umem", "detach"} => global_exit
  /\ at = "done" => held = {}
  /\ at \in {"failed", "undetached"} => held \subseteq {"program"}

\* For TLC: frames are interchangeable.
Symmetry == Permutations(Frames)

=============================================================================
