------------------------------- MODULE Multimap -------------------------------
(***************************************************************************)
(* What libbpf's hash map does for its callers: entries with values, in an *)
(* order under each key, and calls that either do their work or change     *)
(* nothing.  hashmap.h says of hashmap__find that "it will return last     *)
(* inserted key/value entry".  That is so only of the entries inserted     *)
(* since the map last grew: a growth reverses the order under every key.   *)
(***************************************************************************)
EXTENDS Integers, SequencesExt

CONSTANTS Keys, Values

VARIABLES chain,     \* for each key its values, in the order of hashmap__for_each_key_entry
          size,      \* what hashmap__size returns
          capacity,  \* what hashmap__capacity returns
          ret        \* the outcome of the last call

vars == <<chain, size, capacity, ret>>

Init == chain = [k \in Keys |-> <<>>] /\ size = 0 /\ capacity = 0 /\ ret = <<"new", 0>>

\* The entries after the step's growth, if it has one.
Grown == IF capacity' = capacity THEN chain ELSE [k \in Keys |-> Reverse(chain[k])]

\* hashmap__insert: of a new entry at the head of its key's, the only one unless
\* the strategy is HASHMAP_APPEND; or, with HASHMAP_SET and HASHMAP_UPDATE, of a
\* value in the place of the first one's.
Insert(k, v) ==
  /\ \/ ret' = <<"ok", "APPEND">>
     \/ chain[k] = <<>> /\ ret' \in {<<"ok", "ADD">>, <<"ok", "SET">>}
  /\ size' = size + 1 /\ capacity' >= capacity
  /\ chain' = [Grown EXCEPT ![k] = <<v>> \o @]

Replace(k, v) ==
  /\ chain[k] # <<>> /\ ret' = <<"replaced", Head(chain[k])>>
  /\ chain' = [chain EXCEPT ![k][1] = v] /\ UNCHANGED <<size, capacity>>

Refuse(k) ==
  /\ IF chain[k] # <<>> THEN ret' = <<"EEXIST", Head(chain[k])>>
                        ELSE ret' \in {<<"ENOENT", 0>>, <<"absent", 0>>}
  /\ UNCHANGED <<chain, size, capacity>>

\* The growth that came before an entry could not be allocated stays.
NoMemory == ret' = <<"ENOMEM", 0>> /\ capacity' >= capacity /\ chain' = Grown /\ size' = size

Find(k) ==
  /\ chain[k] # <<>> /\ ret' = <<"found", Head(chain[k])>>
  /\ UNCHANGED <<chain, size, capacity>>

Delete(k) ==
  /\ chain[k] # <<>> /\ ret' = <<"deleted", Head(chain[k])>>
  /\ size' = size - 1 /\ capacity' = capacity
  /\ chain' = [chain EXCEPT ![k] = Tail(@)]

Next ==
  \/ NoMemory
  \/ \E k \in Keys :
       \/ Refuse(k) \/ Find(k) \/ Delete(k)
       \/ \E v \in Values : Insert(k, v) \/ Replace(k, v)

Spec == Init /\ [][Next]_vars
=============================================================================
