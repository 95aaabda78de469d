------------------------------ MODULE FioSet ------------------------------
(* The hash map of src/facil.io/fio.h, in which facil.io keeps the headers   *)
(* of a request: the keys in the order of their insertion, and an open hash  *)
(* table of pointers into that array, searched in steps of eleven. A removal *)
(* leaves holes in both; they go when there are too many.                    *)
EXTENDS Integers, Sequences, SequencesExt, FiniteSetsExt

CONSTANTS Key,
          hash,      \* [Key -> Nat], none of them 0
          MaxBits,   \* bound on the logarithm of the table's size
          None       \* a hole, an invalid hash and a null pointer

VARIABLES
    set,      \* used_bits, ordered, map and has_collisions
    order,    \* history: the keys that were inserted and not removed since
    reused    \* history: a key has been put in a hole of the table

setVars == <<set, order, reused>>

InitSet ==
    /\ set = [bits |-> 0, ordered |-> <<>>, map |-> <<>>, collisions |-> FALSE]
    /\ order = <<>> /\ reused = FALSE

----------------------------------------------------------------------------
NotHole(k) == k # None
Compacted(s) == SelectSeq(s.ordered, NotHole)
Count(s) == Len(Compacted(s))
Capa(s) == IF s.bits = 0 THEN 0 ELSE 2^s.bits
IsFragmented(s) == Len(s.ordered) - Count(s) > Count(s) \div 2

\* FIO_SET_HASH2UINTPTR: the hash combined with itself, rotated by the bits in use.
Bit(h, i) == (h \div 2^i) % 2
Index(h, b) == SumSet({2^i : i \in {j \in 0..b - 1 : Bit(h, j) # Bit(h, j + b)}})

\* The positions of a table of 2^b that are looked at for a key, in their order.
walk == [k \in Key, b \in 1..MaxBits |->
           [i \in 1..1 + 2^b \div 4 |-> (Index(hash[k], b) + 11 * (i - 1)) % 2^b]]

\* The first that is free, has the key, or is a hole with its hash.
Stops(s, k, p) ==
    \/ s.map[p].hash = None
    \/ s.map[p].hash = hash[k] /\ (s.map[p].at = 0 \/ s.ordered[s.map[p].at] = k)

Steps(s, k) == SelectInSeq(walk[k, s.bits], LAMBDA p : Stops(s, k, p))
MapPos(s, k) == LET i == Steps(s, k) IN IF i = 0 THEN None ELSE walk[k, s.bits][i]

\* Another key with the same hash is met on the way.
Collides(s, k) ==
    LET w == walk[k, s.bits]  i == Steps(s, k) IN
    \E j \in DOMAIN w : (i = 0 \/ j < i) /\ s.map[w[j]].hash = hash[k]

Put(s, p, k, at) == [s EXCEPT !.map[p] = [hash |-> hash[k], at |-> at]]

----------------------------------------------------------------------------
\* rehash: the array without holes, and a table that all keys fit in; a larger one is
\* tried until they do.
Filled(s, b) ==
    LET keys == Compacted(s)
        empty == [bits |-> b, ordered |-> keys, collisions |-> FALSE,
                  map |-> [p \in 0..2^b - 1 |-> [hash |-> None, at |-> 0]]]
        upto[n \in 0..Len(keys)] ==
          IF n = 0 THEN empty
          ELSE LET t == upto[n - 1]  k == keys[n]  p == IF t.bits = 0 THEN None ELSE MapPos(t, k) IN
               IF p = None THEN [t EXCEPT !.bits = 0]
               ELSE [Put(t, p, k, n) EXCEPT !.collisions = @ \/ Collides(t, k)]
    IN  upto[Len(keys)]

Rehash(s) ==
    LET from[b \in 1..MaxBits] ==
          LET t == Filled(s, b) IN
          IF t.bits = b THEN t ELSE [from[b + 1] EXCEPT !.collisions = @ \/ t.collisions]
    IN  from[s.bits]

\* _find_map_pos_ rehashes first when a collision could hide behind a hole.
HidesKeys_Never(s) == FALSE
HidesKeys(s) == s.collisions /\ Len(s.ordered) # Count(s)

Usable(s) == IF s.bits # 0 /\ HidesKeys(s) THEN Rehash(s) ELSE s
Noted(s, k) == IF s.bits = 0 THEN s ELSE [s EXCEPT !.collisions = @ \/ Collides(s, k)]

\* What a search leaves, in a set of one.
Sought(s, k) == {Noted(t, k) : t \in {Usable(s)}}

Found(s, k) == s.bits # 0 /\ MapPos(s, k) # None /\ s.map[MapPos(s, k)].at # 0

\* Room for one more.
Prepared(s) ==
    IF IsFragmented(s) THEN Rehash(s)
    ELSE IF Len(s.ordered) >= Capa(s) THEN Rehash([s EXCEPT !.bits = @ + 1])
    ELSE s

----------------------------------------------------------------------------
Insert(k) ==
    /\ \E t \in {Prepared(set)} : \E s \in Sought(t, k) :
         LET p == MapPos(s, k)
             longer == [s EXCEPT !.ordered = Append(@, k)]
         IN  /\ set' = IF p = None THEN Rehash(longer)
                       ELSE IF Found(s, k) THEN s
                       ELSE Put(longer, p, k, Len(longer.ordered))
             /\ reused' = (reused \/ (p # None /\ ~Found(s, k) /\ s.map[p].hash # None))
    /\ order' = IF k \in Range(order) THEN order ELSE Append(order, k)

Find(k) == set' \in Sought(set, k) /\ UNCHANGED <<order, reused>>

\* The array without the holes at its end.
Trimmed(ordered) ==
    LET kept == {i \in DOMAIN ordered : ordered[i] # None}
    IN  IF kept = {} THEN <<>> ELSE SubSeq(ordered, 1, Max(kept))

Emptied_Always(s, p) == None
Emptied(s, p) == IF s.map[p].at = Len(s.ordered) THEN None ELSE s.map[p].hash

RemoveFrom(k) ==
    /\ \E s \in Sought(set, k) :
         LET p == MapPos(s, k) IN
         set' = IF ~Found(s, k) THEN s
                ELSE [s EXCEPT !.map[p] = [hash |-> Emptied(s, p), at |-> 0],
                               !.ordered = Trimmed([@ EXCEPT ![s.map[p].at] = None])]
    /\ order' = SelectSeq(order, LAMBDA x : x # k)
    /\ UNCHANGED reused

Compact ==
    /\ set' = Rehash([set EXCEPT !.bits = Min({b \in 2..MaxBits : Count(set) < 2^b})])
    /\ UNCHANGED <<order, reused>>

\* A set that has lost a key is left alone.
IsFound(k) == \E s \in Sought(set, k) : Found(s, k)
Lost == {k \in Range(order) : ~IsFound(k)}
NextSet == Lost = {} /\ (Compact \/ \E k \in Key : Insert(k) \/ Find(k) \/ RemoveFrom(k))
SpecSet == InitSet /\ [][NextSet]_setVars

----------------------------------------------------------------------------
SetTypeOK ==
    /\ set.bits \in 0..MaxBits
    /\ set.ordered \in Seq(Key \union {None})
    /\ \A p \in DOMAIN set.map : set.map[p].at \in 0..Len(set.ordered)

\* A key is found when it is there and only then, in whatever order keys with one
\* hash came and went, as long as no key was put in a hole of the table: the next
\* removal of such a key empties its place although others may be behind it.
KeysFound ==
    ~reused => \A k \in Key : IsFound(k) <=> k \in Range(order)

\* The keys are listed in the order of their first insertion, and the array never
\* outgrows the table.
OrderKept ==
    /\ Lost = {} => Compacted(set) = order
    /\ Len(set.ordered) <= Capa(set)
=============================================================================
