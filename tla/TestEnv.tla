------------------------------- MODULE TestEnv -------------------------------
(***************************************************************************)
(* testenv/testenv.sh: environments made of a network namespace, a veth    *)
(* link into it and a state file.  Several invocations of the script may   *)
(* run at once; any command of one may fail, and a script may be killed.   *)
(* "set -o errexit" ends the script at a failing command, through the EXIT *)
(* trap; teardown inside "teardown && setup" runs without it.              *)
(***************************************************************************)
EXTENDS Naturals, FiniteSets

CONSTANTS
  Scripts,      \* shells the script is started from
  EnvNames,     \* names of environments; also those generated
  noEnv,        \* the empty string
  Features,     \* the option sets: --legacy-ip and --vlan
  MaxCommands,  \* bound: commands started altogether
  MaxFailures   \* bound: failing commands and kills altogether

VARIABLES
  sh,           \* each shell: command, place, NS and the script's variables
  statedir,     \* STATEDIR exists
  current,      \* its file "current"
  highest,      \* its file "highest_num", 0 if there is none
  statefile,    \* the state file of each environment, NoState if there is none
  netns,        \* network namespaces
  link,         \* the outer device of each environment, NoState if there is none
  dying,        \* devices the kernel removes because their peer's namespace went
  commands, failures,
  raced,        \* the counter was read twice before it was written, or removed under a setup
  clash,        \* two scripts have run at once on the same environment
  trouble       \* a script was killed, or failed to remove something

files == <<statedir, current, highest, statefile>>
net == <<netns, link, dying>>
counts == <<commands, failures, raced, trouble>>
envVars == <<sh, files, net, counts, clash>>

NoState == [prefix |-> 0, feat |-> {}, made |-> FALSE]
Idle == [cmd |-> "none", at |-> "idle", ns |-> noEnv, opts |-> {}, gen |-> FALSE,
         num |-> 0, prefix |-> 0, ok |-> TRUE]

Commands == {"setup", "teardown", "reset", "status", "xdp"}

Init ==
  /\ sh = [s \in Scripts |-> Idle]
  /\ statedir = FALSE /\ current = noEnv /\ highest = 0
  /\ statefile = [n \in EnvNames |-> NoState]
  /\ netns = {} /\ link = [n \in EnvNames |-> NoState] /\ dying = {}
  /\ commands = 0 /\ failures = 0 /\ raced = FALSE /\ clash = FALSE /\ trouble = FALSE

At(s, label) == sh[s].at = label
Goto(s, label) == sh' = [sh EXCEPT ![s].at = label]

\* The script ends with an error, through the EXIT trap.
Die(s) == sh' = [sh EXCEPT ![s].at = "cleanup", ![s].ok = FALSE]

Exit(s) == sh' = [sh EXCEPT ![s] = Idle]

\* A command fails for a reason outside the script.
Fails == failures < MaxFailures /\ failures' = failures + 1
NoFailure == failures' = failures

-----------------------------------------------------------------------------
(* Options, get_nsname and ensure_nsname *)

\* The options are parsed, the trap is set and check_prereq makes STATEDIR.
Start(s) ==
  /\ sh[s].at = "idle" /\ commands < MaxCommands
  /\ \E c \in Commands, n \in EnvNames \cup {noEnv}, o \in Features, g \in BOOLEAN :
       /\ c \notin {"setup", "reset"} => o = {}
       /\ g => c = "setup" /\ n = noEnv
       /\ sh' = [sh EXCEPT ![s] = [Idle EXCEPT !.cmd = c, !.at = "name", !.ns = n,
                                               !.opts = o, !.gen = g]]
  /\ statedir' = TRUE
  /\ commands' = commands + 1
  /\ UNCHANGED <<current, highest, statefile, net, failures, raced, trouble>>

\* --name, or the environment used last, or for setup a new name.
get_nsname(s, generate) ==
  LET used == IF sh[s].ns # noEnv THEN sh[s].ns ELSE current
  IN  IF sh[s].ns = noEnv /\ generate /\ (used = noEnv \/ sh[s].gen) THEN EnvNames ELSE {used}

\* setup: the name must not be taken.
NameForSetup(s) ==
  /\ (At(s, "name") /\ sh[s].cmd = "setup") \/ At(s, "again")
  /\ \E n \in get_nsname(s, TRUE) :
       IF statefile[n].made THEN Die(s)
       ELSE sh' = [sh EXCEPT ![s].ns = n, ![s].at = "get_num"]
  /\ UNCHANGED <<files, net, counts>>

\* The others need an environment, make it the current one and read its state.
ensure_nsname(s) ==
  /\ At(s, "name") /\ sh[s].cmd \in {"teardown", "reset", "xdp"}
  /\ \E n \in get_nsname(s, FALSE) :
       IF n = noEnv \/ (n # noEnv /\ ~statefile[n].made) THEN Die(s) /\ UNCHANGED current
       ELSE /\ current' = n
            /\ sh' = [sh EXCEPT ![s].ns = n, ![s].prefix = statefile[n].prefix,
                                ![s].at = IF sh[s].cmd = "xdp" THEN "cleanup" ELSE "del_link"]
  /\ UNCHANGED <<statedir, highest, statefile, net, counts>>

\* status only reads.
status(s) ==
  /\ At(s, "name") /\ sh[s].cmd = "status"
  /\ Goto(s, "cleanup")
  /\ UNCHANGED <<files, net, counts>>

-----------------------------------------------------------------------------
(* setup *)

\* get_num reads the file ...
ReadNum(s) ==
  /\ At(s, "get_num")
  /\ sh' = [sh EXCEPT ![s].num = highest + 1, ![s].at = "put_num"]
  /\ raced' = (raced \/ \E t \in Scripts : At(t, "put_num"))
  /\ UNCHANGED <<files, net, commands, failures, trouble>>

\* ... and writes it; a prefix read from a state file is kept.
get_num(s) ==
  /\ At(s, "put_num")
  /\ highest' = IF statedir THEN sh[s].num ELSE highest
  /\ sh' = [sh EXCEPT ![s].at = "add_netns",
                      ![s].prefix = IF @ = 0 THEN sh[s].num ELSE @]
  /\ UNCHANGED <<statedir, current, statefile, net, counts>>

\* From here a failure runs cleanup_setup.
AddNetns(s) ==
  /\ At(s, "add_netns")
  /\ \/ /\ sh[s].ns \notin netns /\ NoFailure
        /\ netns' = netns \cup {sh[s].ns} /\ Goto(s, "add_link")
     \/ /\ IF sh[s].ns \in netns THEN NoFailure ELSE Fails
        /\ netns' = netns /\ Goto(s, "undo_netns")
  /\ UNCHANGED <<files, link, dying, commands, raced, trouble>>

AddLink(s) ==
  LET n == sh[s].ns IN
  /\ At(s, "add_link")
  /\ \/ /\ ~link[n].made /\ n \in netns /\ NoFailure
        /\ link' = [link EXCEPT ![n] = [NoState EXCEPT !.made = TRUE]]
        /\ Goto(s, "configure")
     \/ /\ IF link[n].made \/ n \notin netns THEN NoFailure ELSE Fails
        /\ link' = link /\ Goto(s, "undo_netns")
  /\ UNCHANGED <<files, netns, dying, commands, raced, trouble>>

\* Both ends are brought up and given their addresses.
Configure(s) ==
  LET n == sh[s].ns IN
  /\ At(s, "configure")
  /\ \/ /\ link[n].made /\ n \in netns /\ NoFailure
        /\ link' = [link EXCEPT ![n].prefix = sh[s].prefix]
        /\ Goto(s, "ipv4")
     \/ /\ IF link[n].made /\ n \in netns THEN Fails ELSE NoFailure
        /\ link' = link /\ Goto(s, "undo_netns")
  /\ UNCHANGED <<files, netns, dying, commands, raced, trouble>>

\* --legacy-ip, then --vlan.
AddFeature(s, feature, next) ==
  LET n == sh[s].ns IN
  /\ \/ feature \notin sh[s].opts /\ link' = link /\ Goto(s, next) /\ NoFailure
     \/ /\ feature \in sh[s].opts /\ link[n].made /\ n \in netns /\ NoFailure
        /\ link' = [link EXCEPT ![n].feat = @ \cup {feature}] /\ Goto(s, next)
     \/ /\ feature \in sh[s].opts
        /\ IF link[n].made /\ n \in netns THEN Fails ELSE NoFailure
        /\ link' = link /\ Goto(s, "undo_netns")
  /\ UNCHANGED <<files, netns, dying, commands, raced, trouble>>
LegacyIp(s) == At(s, "ipv4") /\ AddFeature(s, "ipv4", "vlan")
Vlans(s) == At(s, "vlan") /\ AddFeature(s, "vlan", "new_state")

\* write_statefile empties the file, then appends the variables.
NewStatefile(s) ==
  /\ At(s, "new_state")
  /\ IF statedir
     THEN /\ statefile' = [statefile EXCEPT ![sh[s].ns] = [NoState EXCEPT !.made = TRUE]]
          /\ Goto(s, "write_state")
     ELSE statefile' = statefile /\ Goto(s, "undo_netns")
  /\ UNCHANGED <<statedir, current, highest, net, counts>>

write_statefile(s) ==
  /\ At(s, "write_state")
  /\ IF statedir
     THEN /\ statefile' = [statefile EXCEPT ![sh[s].ns] =
                             [prefix |-> sh[s].prefix, feat |-> sh[s].opts, made |-> TRUE]]
          /\ Goto(s, "ping")
     ELSE statefile' = statefile /\ Goto(s, "undo_netns")
  /\ UNCHANGED <<statedir, current, highest, net, counts>>

\* The environment is tried with run_ping, which makes it the current one.
run_ping(s) ==
  /\ At(s, "ping")
  /\ \/ ~statefile[sh[s].ns].made /\ Die(s) /\ current' = current /\ NoFailure
     \/ /\ statefile[sh[s].ns].made /\ current' = sh[s].ns
        /\ Fails /\ Die(s)
     \/ /\ statefile[sh[s].ns].made /\ current' = sh[s].ns
        /\ Goto(s, "cleanup") /\ NoFailure
  /\ UNCHANGED <<statedir, highest, statefile, net, commands, raced, trouble>>

-----------------------------------------------------------------------------
(* Removing an environment *)

WithoutNetns(n) ==
  /\ netns' = netns \ {n}
  /\ dying' = IF link[n].made /\ n \in netns THEN dying \cup {n} ELSE dying
WithoutLink(n) ==
  /\ link' = [link EXCEPT ![n] = NoState]
  /\ dying' = dying \ {n}

\* cleanup_setup, whose failing commands are passed over.
UndoNetns(s) ==
  /\ At(s, "undo_netns")
  /\ \/ WithoutNetns(sh[s].ns) /\ NoFailure /\ trouble' = trouble
     \/ Fails /\ trouble' = TRUE /\ UNCHANGED <<netns, dying>>
  /\ Goto(s, "undo_link")
  /\ UNCHANGED <<files, link, commands, raced>>

\* Mutant: the device is left to the kernel.
UndoLink_Leaves(s) ==
  /\ At(s, "undo_link")
  /\ Goto(s, "undo_state")
  /\ UNCHANGED <<files, net, counts>>

UndoLink(s) ==
  /\ At(s, "undo_link")
  /\ \/ WithoutLink(sh[s].ns) /\ NoFailure /\ trouble' = trouble
     \/ Fails /\ trouble' = TRUE /\ UNCHANGED <<link, dying>>
  /\ Goto(s, "undo_state")
  /\ UNCHANGED <<files, netns, commands, raced>>

UndoState(s) ==
  /\ At(s, "undo_state")
  /\ statefile' = [statefile EXCEPT ![sh[s].ns] = NoState]
  /\ Die(s)
  /\ UNCHANGED <<statedir, current, highest, net, counts>>

\* After a command of teardown has failed: reset goes on, teardown ends.
AfterError(s, next) == IF sh[s].cmd = "reset" THEN Goto(s, next) ELSE Die(s)

DelLink(s) ==
  LET n == sh[s].ns IN
  /\ At(s, "del_link")
  /\ \/ link[n].made /\ WithoutLink(n) /\ Goto(s, "del_netns") /\ NoFailure /\ trouble' = trouble
     \/ /\ IF link[n].made THEN Fails ELSE NoFailure
        /\ trouble' = TRUE /\ AfterError(s, "del_netns") /\ UNCHANGED <<link, dying>>
  /\ UNCHANGED <<files, netns, commands, raced>>

DelNetns(s) ==
  LET n == sh[s].ns IN
  /\ At(s, "del_netns")
  /\ \/ n \in netns /\ WithoutNetns(n) /\ Goto(s, "rm_state") /\ NoFailure /\ trouble' = trouble
     \/ /\ IF n \in netns THEN Fails ELSE NoFailure
        /\ trouble' = TRUE /\ AfterError(s, "rm_state") /\ UNCHANGED <<netns, dying>>
  /\ UNCHANGED <<files, link, commands, raced>>

RmState(s) ==
  /\ At(s, "rm_state")
  /\ statefile' = [statefile EXCEPT ![sh[s].ns] = NoState]
  /\ Goto(s, "rm_current")
  /\ UNCHANGED <<statedir, current, highest, net, counts>>

\* The environment is no longer selected; reset goes on with setup.
RmCurrent(s) ==
  /\ At(s, "rm_current")
  /\ current' = IF current = sh[s].ns THEN noEnv ELSE current
  /\ Goto(s, IF sh[s].cmd = "reset" THEN "again" ELSE "cleanup")
  /\ UNCHANGED <<statedir, highest, statefile, net, counts>>

-----------------------------------------------------------------------------
(* The EXIT trap *)

\* Without environments STATEDIR goes as well.
cleanup(s) ==
  /\ At(s, "cleanup")
  /\ IF statedir /\ \A n \in EnvNames : ~statefile[n].made THEN Goto(s, "rmdir") ELSE Exit(s)
  /\ UNCHANGED <<files, net, counts>>

Rmdir(s) ==
  /\ At(s, "rmdir")
  /\ highest' = 0 /\ current' = noEnv
  /\ statedir' = \E n \in EnvNames : statefile[n].made
  /\ Exit(s)
  /\ raced' = (raced \/ statedir' \/ \E t \in Scripts \ {s} : sh[t].cmd \in {"setup", "reset"})
  /\ UNCHANGED <<statefile, net, commands, failures, trouble>>

-----------------------------------------------------------------------------
\* SIGKILL.
Kill(s) ==
  /\ sh[s].at # "idle" /\ Fails
  /\ Exit(s)
  /\ trouble' = TRUE
  /\ UNCHANGED <<files, net, commands, raced>>

\* The kernel removes the device whose peer went with its namespace.
Reap ==
  /\ \E n \in dying : WithoutLink(n)
  /\ UNCHANGED <<sh, files, netns, counts>>

Script(s) ==
  \/ NameForSetup(s) \/ ensure_nsname(s) \/ status(s)
  \/ ReadNum(s) \/ get_num(s) \/ AddNetns(s) \/ AddLink(s) \/ Configure(s)
  \/ LegacyIp(s) \/ Vlans(s) \/ NewStatefile(s) \/ write_statefile(s) \/ run_ping(s)
  \/ UndoNetns(s) \/ UndoLink(s) \/ UndoState(s)
  \/ DelLink(s) \/ DelNetns(s) \/ RmState(s) \/ RmCurrent(s)
  \/ cleanup(s) \/ Rmdir(s)

Clash == \E s, t \in Scripts : /\ s # t /\ sh[s].ns = sh[t].ns /\ sh[s].ns # noEnv
                               /\ sh[s].at # "idle" /\ sh[t].at # "idle"

\* Bound: what follows a clash is not explored.
Next ==
  /\ ~clash
  /\ Reap \/ \E s \in Scripts : Start(s) \/ Script(s) \/ Kill(s)
  /\ clash' = (clash \/ Clash')

Spec == Init /\ [][Next]_envVars

-----------------------------------------------------------------------------
Quiet == \A s \in Scripts : sh[s].at = "idle"

\* The environment is all there, configured as its state file says.
Complete(n) ==
  n \in netns /\ link[n] = [statefile[n] EXCEPT !.made = TRUE] /\ n \notin dying

\* When no two scripts work on one environment at once and nothing failed to be
\* removed, there is a namespace and a device for exactly the environments that
\* have a state file: every setup that failed before it was complete was undone,
\* at whatever command, and the scripts for other environments did no harm.  A
\* setup whose run_ping fails reports an error and leaves the environment, which
\* is complete.
EnvsComplete ==
  (Quiet /\ ~clash /\ ~trouble) =>
    \A n \in EnvNames : IF statefile[n].made THEN Complete(n)
                        ELSE n \notin netns /\ ~link[n].made

\* A setup or reset that reported success has made a complete environment,
\* whatever a killed script or a failed teardown had left behind.
SuccessComplete ==
  ~clash => \A s \in Scripts :
    (sh[s].at = "cleanup" /\ sh[s].ok /\ sh[s].cmd \in {"setup", "reset"})
      => statefile[sh[s].ns].made /\ Complete(sh[s].ns)

\* Two environments get the same prefix in two ways only: a setup reads
\* highest_num before another has written the number it read (get_num has no
\* lock), or the EXIT trap of a script, having seen no state file, removes
\* highest_num under another's setup.  Everything else scripts do at once,
\* however many are killed, keeps the prefixes of the environments different:
\* the counter goes with the last of them, and reset keeps the prefix.
PrefixesDistinct ==
  ~raced => \A n, m \in EnvNames :
    (n # m /\ statefile[n].prefix # 0) => statefile[n].prefix # statefile[m].prefix

\* Scripts that work on different environments, at once or one after the other,
\* leave an environment selected only if it exists.
CurrentExists ==
  (Quiet /\ ~clash /\ ~trouble) => current = noEnv \/ statefile[current].made

=============================================================================
