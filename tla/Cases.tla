-------------------------------- MODULE Cases --------------------------------
(***************************************************************************)
(* A pure algorithm as a behaviour: an input is chosen, then its result is *)
(* computed, in one step or in the passes the code makes.  Each module of  *)
(* cases says which inputs it offers, how a result is computed and what    *)
(* must relate the two.                                                    *)
(***************************************************************************)
VARIABLES in,    \* the input, a record whose field algo names the algorithm
          out,   \* its result, or what the passes have made of it so far
          pc     \* the next pass, "done" after the last

vars == <<in, out, pc>>

Is(algo) == in.algo = algo /\ pc = "done"

\* An algorithm that needs one step.
Compute(algo, result(_)) ==
  /\ pc = "start"
  /\ in.algo = algo
  /\ out' = result(in)
  /\ pc' = "done"
  /\ UNCHANGED in

=============================================================================
