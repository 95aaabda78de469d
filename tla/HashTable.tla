----------------------------- MODULE HashTable -----------------------------
(* The chained hash table of src/src/data.c. A chain is the sequence of the  *)
(* entries its next pointers link.                                           *)
EXTENDS Naturals, FiniteSets, SequencesExt

CONSTANTS Key, Value,
          Size,      \* buckets
          hash,      \* the hash of each key
          MaxChain   \* bound on the entries of a bucket

ASSUME HashAssumption == Size \in Nat \ {0} /\ hash \in [Key -> 0..Size - 1]

VARIABLE values

Empty == [b \in 0..Size - 1 |-> <<>>]

\* Position of the first entry of the key in a chain, 0 when there is none.
Find(chain, k) ==
    LET at == {i \in DOMAIN chain : chain[i].key = k}
    IN  IF at = {} THEN 0 ELSE CHOOSE i \in at : \A j \in at : i <= j

\* hashtable_get_by_hash: the entry of a key, if any.
Got(k) ==
    LET chain == values[hash[k]]
        i == Find(chain, k)
    IN  IF i = 0 THEN {} ELSE {chain[i].value}

SetByHash_InFront(h, k, v) ==
    [h EXCEPT ![hash[k]] = <<[key |-> k, value |-> v]>> \o @]

SetByHash_FirstBucket(h, k, v) == [h EXCEPT ![0] = Append(@, [key |-> k, value |-> v])]

\* hashtable_set_by_hash compares the key with every entry but the last one.
SetByHash(h, k, v) ==
    LET chain == h[hash[k]]
    IN  IF chain # <<>> /\ Find(Front(chain), k) # 0 THEN h
        ELSE [h EXCEPT ![hash[k]] = Append(@, [key |-> k, value |-> v])]

\* hashtable_get_by_hash with remove: the first entry of the key is unlinked.
RemoveByHash(h, k) ==
    LET i == Find(h[hash[k]], k)
    IN  IF i = 0 THEN h ELSE [h EXCEPT ![hash[k]] = RemoveAt(@, i)]

----------------------------------------------------------------------------
HInit == values = Empty

HSet(k, v) ==
    /\ Len(values[hash[k]]) < MaxChain
    /\ values' = SetByHash(values, k, v)

HRemove(k) == Got(k) # {} /\ values' = RemoveByHash(values, k)

HNext == \E k \in Key : HRemove(k) \/ \E v \in Value : HSet(k, v)

HSpec == HInit /\ [][HNext]_values

----------------------------------------------------------------------------
\* Every entry is in the bucket of its key, where a get looks for it.
HTypeOK ==
    \A b \in 0..Size - 1 : \A i \in DOMAIN values[b] :
        /\ values[b][i] \in [key : Key, value : Value]
        /\ hash[values[b][i].key] = b

\* data.h 288: "If value is present then it's not set": what a get returns for a
\* key that is present changes only when that key is removed.
KeptUntilRemoved ==
    [][\A k \in Key : Got(k) # {} /\ values' # RemoveByHash(values, k) => Got(k)' = Got(k)]_values
=============================================================================
