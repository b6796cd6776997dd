-------------------------------- MODULE Hashmap --------------------------------
(***************************************************************************)
(* libbpf's hashmap.c: chained buckets, indexed by the upper bits of the   *)
(* hash, that double when the map is 75% full.  An allocation may fail.    *)
(***************************************************************************)
EXTENDS Integers, SequencesExt

CONSTANTS Keys,       \* keys, different under equal_fn
          Hash,       \* their shuffled hashes, a function to 0 .. 2^WordSize - 1
          WordSize,   \* bits of a hash
          MaxInserts  \* bound on the calls of hashmap__insert

HASHMAP_MIN_CAP_BITS == 2

VARIABLES buckets,    \* the chains, entries <<key, value>>; empty before the first insert
          cap_bits,
          sz,
          stamp,      \* the value inserted next: every value is inserted once
          ret         \* outcome of the last call

hashVars == <<buckets, cap_bits, sz, stamp, ret>>

HashInit == buckets = <<>> /\ cap_bits = 0 /\ sz = 0 /\ stamp = 1 /\ ret = <<"new", 0>>

cap == Len(buckets)

\* The index of a bucket, from 1.
hash_bits(h, bits) == (h \div 2^(WordSize - bits)) + 1

Bucket(k) == hash_bits(Hash[k], cap_bits)

hashmap_needs_to_grow == cap = 0 \/ ((sz + 1) * 4) \div 3 > cap

\* Every entry moves to the head of its new chain.
Rehashed(bits) ==
  LET move(bs, e) == [bs EXCEPT ![hash_bits(Hash[e[1]], bits)] = <<e>> \o @]
  IN FoldLeft(move, [b \in 1..2^bits |-> <<>>], FlattenSeq(buckets))

NewBits == IF cap_bits + 1 < HASHMAP_MIN_CAP_BITS THEN HASHMAP_MIN_CAP_BITS ELSE cap_bits + 1

\* Where in its chain the first entry of a key is; 0 when there is none.
hashmap_find_entry(k) ==
  IF buckets = <<>> THEN 0 ELSE SelectInSeq(buckets[Bucket(k)], LAMBDA e : e[1] = k)

EntryAt(k) == buckets[Bucket(k)][hashmap_find_entry(k)]

\* The new entry goes to the head of its chain, which the growth may have
\* moved; the growth stays when the entry cannot be allocated.
AddEntry_StaleIndex(k, strategy) ==
  LET bits == IF hashmap_needs_to_grow THEN NewBits ELSE cap_bits
      bs == IF hashmap_needs_to_grow THEN Rehashed(bits) ELSE buckets
      h == IF cap_bits = 0 THEN hash_bits(Hash[k], bits) ELSE Bucket(k)
  IN /\ cap_bits' = bits
     /\ \/ /\ buckets' = [bs EXCEPT ![h] = <<<<k, stamp>>>> \o @]
           /\ sz' = sz + 1
           /\ ret' = <<"ok", strategy>>
        \/ buckets' = bs /\ sz' = sz /\ ret' = <<"ENOMEM", 0>>

AddEntry(k, strategy) ==
  LET bits == IF hashmap_needs_to_grow THEN NewBits ELSE cap_bits
      bs == IF hashmap_needs_to_grow THEN Rehashed(bits) ELSE buckets
  IN /\ cap_bits' = bits
     /\ \/ /\ buckets' = [bs EXCEPT ![hash_bits(Hash[k], bits)] = <<<<k, stamp>>>> \o @]
           /\ sz' = sz + 1
           /\ ret' = <<"ok", strategy>>
        \/ buckets' = bs /\ sz' = sz /\ ret' = <<"ENOMEM", 0>>

hashmap_grow_Fails ==
  hashmap_needs_to_grow /\ ret' = <<"ENOMEM", 0>> /\ UNCHANGED <<buckets, cap_bits, sz>>

hashmap__insert(k, strategy) ==
  /\ stamp <= MaxInserts
  /\ stamp' = stamp + 1
  /\ IF strategy # "APPEND" /\ hashmap_find_entry(k) # 0
     THEN IF strategy \in {"SET", "UPDATE"}
          THEN /\ buckets' = [buckets EXCEPT ![Bucket(k)][hashmap_find_entry(k)] = <<k, stamp>>]
               /\ ret' = <<"replaced", EntryAt(k)[2]>>
               /\ UNCHANGED <<cap_bits, sz>>
          ELSE ret' = <<"EEXIST", EntryAt(k)[2]>> /\ UNCHANGED <<buckets, cap_bits, sz>>
     ELSE IF strategy = "UPDATE"
          THEN ret' = <<"ENOENT", 0>> /\ UNCHANGED <<buckets, cap_bits, sz>>
          ELSE hashmap_grow_Fails \/ AddEntry(k, strategy)

hashmap__find(k) ==
  /\ ret' = IF hashmap_find_entry(k) = 0 THEN <<"absent", 0>> ELSE <<"found", EntryAt(k)[2]>>
  /\ UNCHANGED <<buckets, cap_bits, sz, stamp>>

hashmap__delete(k) ==
  /\ IF hashmap_find_entry(k) = 0
     THEN ret' = <<"absent", 0>> /\ UNCHANGED <<buckets, sz>>
     ELSE /\ buckets' = [buckets EXCEPT ![Bucket(k)] = RemoveAt(@, hashmap_find_entry(k))]
          /\ sz' = sz - 1
          /\ ret' = <<"deleted", EntryAt(k)[2]>>
  /\ UNCHANGED <<cap_bits, stamp>>

HashNext ==
  \E k \in Keys :
    \/ \E strategy \in {"ADD", "SET", "UPDATE", "APPEND"} : hashmap__insert(k, strategy)
    \/ hashmap__find(k)
    \/ hashmap__delete(k)

HashSpec == HashInit /\ [][HashNext]_hashVars

-----------------------------------------------------------------------------
(* Properties *)

\* The values of a key's entries, in the order of its chain.
Chain(k) ==
  IF buckets = <<>> THEN <<>>
  ELSE LET own == SelectSeq(buckets[Bucket(k)], LAMBDA e : e[1] = k) IN [j \in DOMAIN own |-> own[j][2]]

\* The chains behave as Multimap says: every call has the outcome that it would
\* have on entries kept in order under their keys, whatever growth came before
\* it and whichever allocation failed.  hashmap__find returns the entry
\* inserted last when the map has not grown since its key got a second one; a
\* growth turns the order round, against the comment on HASHMAP_APPEND.
Contents == INSTANCE Multimap WITH
  chain <- [k \in Keys |-> Chain(k)], size <- sz, capacity <- cap, Values <- 1..MaxInserts
RefinesMultimap == Contents!Spec
ContentsStep == [Contents!Next]_(Contents!vars)

\* No more than 75% of the buckets' number are stored ("grow if empty or more
\* than 75% filled").
LoadBounded == 4 * sz <= 3 * cap
=============================================================================
