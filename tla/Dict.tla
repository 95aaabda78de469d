------------------------------- MODULE Dict -------------------------------
(* The dictionary of src/src/data.c: a list of keys with their values and a  *)
(* hash table from a key to its node in that list.                           *)
EXTENDS HashTable

CONSTANTS Item,   \* what the program stores
          Node    \* addresses of list nodes, the values of the hash table

ASSUME DictAssumption == Node = Value

VARIABLES l,      \* the nodes of the list in order, their key and item
          fault   \* a node that had been freed was used

vars == <<values, l, fault>>

Init == HInit /\ l = <<>> /\ fault = FALSE

InList == {l[i].node : i \in DOMAIN l}
Position(n) == CHOOSE i \in DOMAIN l : l[i].node = n

Add_Unchecked(k, x) == \E n \in Node \ InList :
    /\ l' = Append(l, [node |-> n, key |-> k, item |-> x])
    /\ values' = SetByHash(values, k, n)
    /\ UNCHANGED fault

\* dict_add_bin
Add(k, x) == \E n \in Node \ InList :
    /\ Got(k) = {}
    /\ l' = Append(l, [node |-> n, key |-> k, item |-> x])
    /\ values' = SetByHash(values, k, n)
    /\ UNCHANGED fault

\* dict_set_bin puts another key and item in a node; the entry of the old key
\* stays in the table and still leads to it.
SetAt(pos, k, x) ==
    /\ pos \in DOMAIN l /\ Got(k) = {}
    /\ Len(values[hash[k]]) < MaxChain
    /\ l' = [l EXCEPT ![pos] = [node |-> @.node, key |-> k, item |-> x]]
    /\ values' = SetByHash(values, k, l[pos].node)
    /\ UNCHANGED fault

\* dict_get_bin_raw with remove: the table says which node leaves the list.
RemoveKey(k) == \E n \in Got(k) :
    /\ values' = RemoveByHash(values, k)
    /\ IF n \in InList
         THEN l' = RemoveAt(l, Position(n)) /\ UNCHANGED fault
         ELSE fault' = TRUE /\ UNCHANGED l

\* dict_get_at_raw with remove: the list says which key leaves the table.
RemoveAtPos(pos) ==
    /\ pos \in DOMAIN l
    /\ values' = RemoveByHash(values, l[pos].key)
    /\ l' = RemoveAt(l, pos)
    /\ UNCHANGED fault

Next ==
    /\ ~fault
    /\ \/ \E k \in Key : RemoveKey(k) \/ \E x \in Item : Add(k, x)
       \/ \E pos \in DOMAIN l : \/ RemoveAtPos(pos)
                                \/ \E k \in Key, x \in Item : SetAt(pos, k, x)

Spec == Init /\ [][Next]_vars

----------------------------------------------------------------------------
TypeOK ==
    /\ HTypeOK
    /\ l \in BoundedSeq([node : Node, key : Key, item : Item], Cardinality(Node))
    /\ fault \in BOOLEAN

\* data.h: the hash table maps "keys back to 'list_t' 'node_t's". Every node of
\* the list can be reached by its key: what dict_set leaves behind in the table are
\* entries too many, never one too few.
DictKeysFound == \A i \in DOMAIN l : Got(l[i].key) = {l[i].node}
=============================================================================
