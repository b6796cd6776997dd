----------------------------- MODULE ConsChannel -----------------------------
(***************************************************************************)
(* What a consumer ring promises its program: a bounded queue the kernel   *)
(* appends to, of which the program peeks a batch of the oldest entries,   *)
(* reads them in order and releases them together.  avail is what the      *)
(* program knows to follow the batch; more may already be there.           *)
(***************************************************************************)
EXTENDS Integers, Sequences

CONSTANTS Capacity, Entry, None

VARIABLES queue,    \* produced and not yet released
          peeked,   \* entries of the batch
          read,     \* entries of the batch already read
          avail,    \* entries known beyond the batch
          item      \* what the last read returned

vars == <<queue, peeked, read, avail, item>>

Init == queue = <<>> /\ peeked = 0 /\ read = 0 /\ avail = 0 /\ item = None

Peek(nb) == /\ peeked = 0
            /\ LET known == IF avail = 0 THEN Len(queue) ELSE avail
                   n == IF known > nb THEN nb ELSE known
               IN  peeked' = n /\ avail' = known - n
            /\ UNCHANGED <<queue, read, item>>

Read == /\ read < peeked
        /\ item' = queue[read + 1]
        /\ read' = read + 1
        /\ UNCHANGED <<queue, peeked, avail>>

Release == /\ peeked > 0 /\ read = peeked
           /\ queue' = SubSeq(queue, peeked + 1, Len(queue))
           /\ peeked' = 0 /\ read' = 0
           /\ UNCHANGED <<avail, item>>

Put(v) == /\ Len(queue) < Capacity
          /\ queue' = Append(queue, v)
          /\ UNCHANGED <<peeked, read, avail, item>>

Next == \/ \E nb \in 1 .. Capacity : Peek(nb)
        \/ Read
        \/ Release
        \/ \E v \in Entry : Put(v)

Spec == Init /\ [][Next]_vars
=============================================================================
