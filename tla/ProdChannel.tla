----------------------------- MODULE ProdChannel -----------------------------
(***************************************************************************)
(* What a producer ring promises its program: a bounded queue in which the *)
(* program reserves room, writes entries and submits them as one batch,    *)
(* and from which the kernel takes them in order.  free is the room the    *)
(* program knows of; it may be less than there is, never more.             *)
(***************************************************************************)
EXTENDS Integers, Sequences

CONSTANTS Capacity, Entry

VARIABLES queue,      \* submitted and not yet taken
          pending,    \* written and not yet submitted
          reserved,   \* room reserved for the batch
          free        \* room known beyond that

vars == <<queue, pending, reserved, free>>

Init == queue = <<>> /\ pending = <<>> /\ reserved = 0 /\ free = Capacity

\* The room known once nb entries are asked for.
Known(nb) == IF free >= nb THEN free ELSE Capacity - Len(queue)

Look(nb) == /\ reserved = 0
            /\ free' = Known(nb)
            /\ UNCHANGED <<queue, pending, reserved>>

Reserve(nb) == /\ reserved = 0
               /\ IF Known(nb) >= nb
                  THEN reserved' = nb /\ free' = Known(nb) - nb
                  ELSE reserved' = 0 /\ free' = Known(nb)
               /\ UNCHANGED <<queue, pending>>

Write(v) == /\ Len(pending) < reserved
            /\ pending' = Append(pending, v)
            /\ UNCHANGED <<queue, reserved, free>>

Submit == /\ reserved > 0 /\ Len(pending) = reserved
          /\ queue' = queue \o pending
          /\ pending' = <<>> /\ reserved' = 0
          /\ UNCHANGED free

Take == /\ queue # <<>>
        /\ queue' = Tail(queue)
        /\ UNCHANGED <<pending, reserved, free>>

Next == \/ \E nb \in 0 .. Capacity : Look(nb) \/ Reserve(nb)
        \/ \E v \in Entry : Write(v)
        \/ Submit
        \/ Take

Spec == Init /\ [][Next]_vars
=============================================================================
