---------------------------- MODULE Sequencing ----------------------------
(* What the lists of data.h promise: each is a sequence, ordered and without *)
(* duplicates when it has a comparison function, popped at one end, and a    *)
(* merge appends one to the other.                                           *)
EXTENDS Naturals, SequencesExt

CONSTANTS List, Value, Ordered, Stack
VARIABLE seq

Init == seq = [l \in List |-> <<>>]

\* Left of the longest suffix of greater values, or at the end (list_push).
Place(l, v) ==
    IF l \notin Ordered THEN Append(seq[l], v)
    ELSE SelectSeq(seq[l], LAMBDA w : w < v) \o <<v>> \o SelectSeq(seq[l], LAMBDA w : w > v)

Push(l, v) ==
    /\ l \in Ordered => ~Contains(seq[l], v)
    /\ seq' = [seq EXCEPT ![l] = Place(l, v)]

Pop(l) ==
    /\ seq[l] # <<>>
    /\ seq' = [seq EXCEPT ![l] = IF l \in Stack THEN Front(@) ELSE Tail(@)]

TakeOut(l, k) == seq' = [seq EXCEPT ![l] = RemoveAt(@, k)]

Clear(l) == seq' = [seq EXCEPT ![l] = <<>>]

Next ==
    \/ \E l \in List :
        \/ \E v \in Value : Push(l, v)
        \/ Pop(l)
        \/ Clear(l)
        \/ \E k \in DOMAIN seq[l] : TakeOut(l, k)

Spec == Init /\ [][Next]_seq
=============================================================================
