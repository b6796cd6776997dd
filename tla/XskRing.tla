------------------------------- MODULE XskRing -------------------------------
(***************************************************************************)
(* The rings of libbpf/src/xsk.h: struct xsk_ring_prod, the fill and tx    *)
(* rings, which the program fills and the kernel empties, and struct       *)
(* xsk_ring_cons, the rx and completion rings, the other way round.  A     *)
(* ring has the producer and consumer indices shared with the kernel, the  *)
(* program's cached copies of them, and the array of slots.                *)
(*                                                                         *)
(* The __u32 indices are never reduced to the ring's size: they run        *)
(* through 0 .. WORD - 1 and wrap, and an entry's slot is                  *)
(* index & (size - 1).  Size is a power of two in the code; the slots only *)
(* need it to divide the word.                                             *)
(***************************************************************************)
EXTENDS Integers, Sequences

CONSTANTS
  WORD,   \* 2^32 in the code
  Size,   \* slots of the ring
  Entry,  \* what a slot holds
  None    \* no entry read yet

ASSUME RingAssumption ==
  /\ WORD \in Nat /\ Size \in Nat \ {0}
  /\ 2 * Size <= WORD
  /\ WORD % Size = 0

VARIABLES producer, consumer,         \* shared with the kernel
          cached_prod, cached_cons,   \* the program's copies
          ring,                       \* the slots
          idx,                        \* the caller's index of the next entry
          item                        \* what the last read of it returned

Index == 0 .. WORD - 1

\* a + b and a - b in __u32 arithmetic.
Plus(a, b) == IF a + b < WORD THEN a + b ELSE a + b - WORD
Minus(a, b) == IF a >= b THEN a - b ELSE a - b + WORD

\* i & mask
Slot(i) == i % Size

\* The contents a ring of E may have.
Slots(E) == [0 .. Size - 1 -> E]

\* The entries in the slots r of a ring, n of them from index a on.
Entries(r, a, n) == [i \in 1 .. n |-> r[Slot(Plus(a, i - 1))]]

-----------------------------------------------------------------------------
(* struct xsk_ring_prod.  cached_cons runs Size ahead of the consumer.  The *)
(* program reserves, writes every reserved slot and submits, as all of its *)
(* callers do.                                                             *)

prodVars == <<producer, consumer, cached_prod, cached_cons, ring, idx>>

\* xsk_socket__create and xsk_umem__create map an empty ring of the kernel.
ProdInit ==
  /\ producer = 0 /\ consumer = 0
  /\ cached_prod = 0 /\ cached_cons = Size
  /\ ring \in Slots(Entry)
  /\ idx = 0

\* cached_cons after xsk_prod_nb_free(r, nb).
ProdRefreshed(nb) ==
  IF Minus(cached_cons, cached_prod) >= nb THEN cached_cons ELSE Plus(consumer, Size)

\* What that call returns.
xsk_prod_nb_free(nb) == Minus(ProdRefreshed(nb), cached_prod)

\* A call of xsk_prod_nb_free by itself.
NbFree(nb) ==
  /\ cached_prod = producer
  /\ cached_cons' = ProdRefreshed(nb)
  /\ UNCHANGED <<producer, consumer, cached_prod, ring, idx>>

xsk_ring_prod__reserve(nb) ==
  /\ cached_prod = producer
  /\ cached_cons' = ProdRefreshed(nb)
  /\ IF xsk_prod_nb_free(nb) < nb
     THEN UNCHANGED <<cached_prod, idx>>
     ELSE idx' = cached_prod /\ cached_prod' = Plus(cached_prod, nb)
  /\ UNCHANGED <<producer, consumer, ring>>

\* Mutant: ++idx.
Write_NextSlot(v) ==
  /\ idx # cached_prod
  /\ ring' = [ring EXCEPT ![Slot(Plus(idx, 1))] = v]
  /\ idx' = Plus(idx, 1)
  /\ UNCHANGED <<producer, consumer, cached_prod, cached_cons>>

\* *xsk_ring_prod__fill_addr(r, idx++) = v, or the fields of a tx descriptor.
Write(v) ==
  /\ idx # cached_prod
  /\ ring' = [ring EXCEPT ![Slot(idx)] = v]
  /\ idx' = Plus(idx, 1)
  /\ UNCHANGED <<producer, consumer, cached_prod, cached_cons>>

\* xsk_ring_prod__submit of everything reserved.
xsk_ring_prod__submit ==
  /\ idx = cached_prod /\ producer # cached_prod
  /\ producer' = Plus(producer, Minus(cached_prod, producer))
  /\ UNCHANGED <<consumer, cached_prod, cached_cons, ring, idx>>

\* The kernel takes the oldest entry.
KernelConsume ==
  /\ consumer # producer
  /\ consumer' = Plus(consumer, 1)
  /\ UNCHANGED <<producer, cached_prod, cached_cons, ring, idx>>

ProdNext == \/ \E nb \in 0 .. Size : NbFree(nb) \/ xsk_ring_prod__reserve(nb)
        \/ \E v \in Entry : Write(v)
        \/ xsk_ring_prod__submit
        \/ KernelConsume

ProdSpec == ProdInit /\ [][ProdNext]_prodVars

-----------------------------------------------------------------------------
\* What the ring holds, as XskSwitch sees it: the entries submitted, those
\* written for the next submit, the room reserved and the room known beyond it.
submitted == Entries(ring, consumer, Minus(producer, consumer))
written == Entries(ring, producer, Minus(idx, producer))
reserved == Minus(cached_prod, producer)
room == Minus(cached_cons, cached_prod)

Prod == INSTANCE ProdChannel WITH
  Capacity <- Size,
  queue    <- submitted,
  pending  <- written,
  reserved <- reserved,
  free     <- room

\* The ring implements the bounded channel: whatever the kernel consumes in
\* between, it reads every submitted entry once, in order, unspoilt by later
\* writes to the slots, also when the indices wrap.
RefinesProdChannel == Prod!Spec

\* The indices are __u32 values and every slot holds an entry.
ProdTypeOK ==
  /\ producer \in Index /\ consumer \in Index
  /\ cached_prod \in Index /\ cached_cons \in Index
  /\ idx \in Index
  /\ ring \in Slots(Entry)

\* The indices are in ring order: submitted, reserved and known-free entries
\* together fit in the ring, so a reservation never reaches a slot whose entry
\* the kernel has not consumed.
IndexOrder ==
  /\ Minus(producer, consumer) + Minus(cached_prod, producer)
       + Minus(cached_cons, cached_prod) <= Size
  /\ Minus(idx, producer) <= Minus(cached_prod, producer)

-----------------------------------------------------------------------------
(* struct xsk_ring_cons.  The program peeks a batch, reads its entries and *)
(* releases them, as all of its callers do.                                *)

consVars == <<producer, consumer, cached_prod, cached_cons, ring, idx, item>>

\* xsk_socket__create and xsk_umem__create map an empty ring of the kernel.
ConsInit ==
  /\ producer = 0 /\ consumer = 0
  /\ cached_prod = 0 /\ cached_cons = 0
  /\ ring \in Slots(Entry)
  /\ idx = 0
  /\ item = None

\* cached_prod after xsk_cons_nb_avail.
ConsRefreshed == IF Minus(cached_prod, cached_cons) = 0 THEN producer ELSE cached_prod

\* What xsk_cons_nb_avail(r, nb) returns.
xsk_cons_nb_avail(nb) ==
  LET entries == Minus(ConsRefreshed, cached_cons)
  IN  IF entries > nb THEN nb ELSE entries

xsk_ring_cons__peek(nb) ==
  /\ cached_cons = consumer
  /\ cached_prod' = ConsRefreshed
  /\ LET entries == xsk_cons_nb_avail(nb)
     IN  /\ idx' = IF entries > 0 THEN cached_cons ELSE idx
         /\ cached_cons' = Plus(cached_cons, entries)
  /\ UNCHANGED <<producer, consumer, ring, item>>

\* Mutant: ++idx.
Read_NextSlot ==
  /\ idx # cached_cons
  /\ item' = ring[Slot(Plus(idx, 1))]
  /\ idx' = Plus(idx, 1)
  /\ UNCHANGED <<producer, consumer, cached_prod, cached_cons, ring>>

\* xsk_ring_cons__rx_desc(r, idx++) or *xsk_ring_cons__comp_addr(r, idx++)
Read ==
  /\ idx # cached_cons
  /\ item' = ring[Slot(idx)]
  /\ idx' = Plus(idx, 1)
  /\ UNCHANGED <<producer, consumer, cached_prod, cached_cons, ring>>

\* xsk_ring_cons__release of the whole batch.
xsk_ring_cons__release ==
  /\ idx = cached_cons /\ consumer # cached_cons
  /\ consumer' = Plus(consumer, Minus(cached_cons, consumer))
  /\ UNCHANGED <<producer, cached_prod, cached_cons, ring, idx, item>>

\* The kernel fills a slot when the ring has one free.
KernelProduce(v) ==
  /\ Minus(producer, consumer) < Size
  /\ ring' = [ring EXCEPT ![Slot(producer)] = v]
  /\ producer' = Plus(producer, 1)
  /\ UNCHANGED <<consumer, cached_prod, cached_cons, idx, item>>

ConsNext == \/ \E nb \in 1 .. Size : xsk_ring_cons__peek(nb)
        \/ Read
        \/ xsk_ring_cons__release
        \/ \E v \in Entry : KernelProduce(v)

ConsSpec == ConsInit /\ [][ConsNext]_consVars

-----------------------------------------------------------------------------
\* What the ring holds, as XskSwitch sees it: the entries produced and not
\* released, how many of them the program peeked and read, and how many it
\* knows of beyond those.
produced == Entries(ring, consumer, Minus(producer, consumer))
peeked == Minus(cached_cons, consumer)
taken == Minus(idx, consumer)
known == Minus(cached_prod, cached_cons)

Cons == INSTANCE ConsChannel WITH
  Capacity <- Size,
  queue    <- produced,
  peeked   <- peeked,
  read     <- taken,
  avail    <- known

\* The ring implements the bounded channel: the program reads every entry the
\* kernel produced once, in order, and none the kernel overwrites before the
\* release, also when the indices wrap.
RefinesConsChannel == Cons!Spec
ConsChannelStep == [Cons!Next]_(Cons!vars)

\* The indices are __u32 values and every slot holds an entry.
ConsTypeOK ==
  /\ producer \in Index /\ consumer \in Index
  /\ cached_prod \in Index /\ cached_cons \in Index
  /\ idx \in Index
  /\ ring \in Slots(Entry)
  /\ item \in Entry \cup {None}

\* The indices are in ring order: what was peeked and what is known to follow
\* it has been produced, and all that was produced fits in the ring.
ConsIndexOrder ==
  /\ Minus(idx, consumer) <= Minus(cached_cons, consumer)
  /\ Minus(cached_cons, consumer) + Minus(cached_prod, cached_cons)
       <= Minus(producer, consumer)
  /\ Minus(producer, consumer) <= Size
=============================================================================
