---------------------------- MODULE ServerProofs ----------------------------
(***************************************************************************)
(* What is proved of the parts a server process is made of besides the     *)
(* reactor and the API: the hash table and the dictionary (HashTable,      *)
(* Dict), strings (StringBuffer), the start (DbConnect), the root process  *)
(* and its workers (Workers), the end of a process (WindDown) and the      *)
(* requests of a connection (Http1).  Each holds for every value of the    *)
(* constants that the assumption of its part, above its proof, allows.     *)
(* The parts share no state: the dictionary is extended, the others are    *)
(* the instances of Library and Processes, with variables of their own.    *)
(* Each part has an inductive invariant of its own, named for it, above    *)
(* the theorems that follow from it.                                       *)
(***************************************************************************)
EXTENDS Library, Processes, FiniteSetTheorems, WellFoundedInduction, TLAPS

\* A set of numbers has a least one.
LEMMA LeastNumber == ASSUME NEW S, S \subseteq Nat, S # {} PROVE \E m \in S : \A k \in S : m <= k
<1>1. PICK m \in S : \A k \in S : <<k, m>> \notin OpToRel(<, Nat)
  BY NatLessThanWellFounded, WFMin
<1>2. \A k \in S : ~(k < m)
  BY <1>1 DEF OpToRel
<1>3. \A k \in S : m <= k
  BY <1>2
<1>4. QED
  BY <1>3

----------------------------------------------------------------------------
\* The hash table and the dictionary.

\* A sequence without its last element, and without the one at p.
LEMMA InFront ==
  ASSUME NEW S, NEW q \in Seq(S), Len(q) # 0
  PROVE  /\ Front(q) \in Seq(S) /\ Len(Front(q)) = Len(q) - 1
         /\ \A i \in 1..Len(q) - 1 : Front(q)[i] = q[i]
BY DEF Front

LEMMA Shortened ==
  ASSUME NEW S, NEW q \in Seq(S), NEW p \in 1..Len(q)
  PROVE  /\ RemoveAt(q, p) \in Seq(S) /\ Len(RemoveAt(q, p)) = Len(q) - 1
         /\ \A i \in 1..Len(q) - 1 : RemoveAt(q, p)[i] = IF i < p THEN q[i] ELSE q[i + 1]
<1>1. PICK a : a = SubSeq(q, 1, p - 1)
  OBVIOUS
<1>2. PICK b : b = SubSeq(q, p + 1, Len(q))
  OBVIOUS
<1>3. a \in Seq(S) /\ Len(a) = p - 1 /\ \A i \in 1..p - 1 : a[i] = q[i]
  BY <1>1
<1>4. b \in Seq(S) /\ Len(b) = Len(q) - p /\ \A i \in 1..Len(q) - p : b[i] = q[p + i]
  BY <1>2
<1>5. RemoveAt(q, p) = a \o b
  BY <1>1, <1>2 DEF RemoveAt
<1>6. RemoveAt(q, p) \in Seq(S) /\ Len(RemoveAt(q, p)) = Len(q) - 1
  BY <1>3, <1>4, <1>5
<1>7. ASSUME NEW i \in 1..Len(q) - 1 PROVE RemoveAt(q, p)[i] = IF i < p THEN q[i] ELSE q[i + 1]
  <2>1. CASE i < p
    BY <1>3, <1>4, <1>5, <2>1
  <2>2. CASE ~(i < p)
    <3>1. (a \o b)[i] = b[i - (p - 1)] /\ i - (p - 1) \in 1..Len(q) - p
      BY <1>3, <1>4, <2>2
    <3>2. p + (i - (p - 1)) = i + 1
      OBVIOUS
    <3>3. b[i - (p - 1)] = q[p + (i - (p - 1))]
      BY <1>4, <3>1
    <3>4. QED
      BY <1>5, <2>2, <3>1, <3>2, <3>3
  <2>3. QED
    BY <2>1, <2>2
<1>8. QED
  BY <1>6, <1>7

\* The chains of a table.
ChainEntries == [key : Key, value : Value]
Tables == [0..Size - 1 -> Seq(ChainEntries)]

\* What a chain holds for a key.
Look(chain, k) == IF Find(chain, k) = 0 THEN {} ELSE {chain[Find(chain, k)].value}

\* What Find answers: the first entry of the key, or 0.
LEMMA FoundIs ==
  ASSUME NEW chain \in Seq(ChainEntries), NEW k
  PROVE  /\ Find(chain, k) \in 0..Len(chain)
         /\ Find(chain, k) = 0 => \A i \in 1..Len(chain) : chain[i].key # k
         /\ Find(chain, k) # 0 => /\ chain[Find(chain, k)].key = k
                                  /\ \A i \in 1..Len(chain) : chain[i].key = k => Find(chain, k) <= i
<1> DEFINE at == {i \in DOMAIN chain : chain[i].key = k}
<1>1. at \subseteq Nat /\ Len(chain) \in Nat /\ DOMAIN chain = 1..Len(chain)
  OBVIOUS
<1>2. CASE at = {}
  <2>1. Find(chain, k) = 0
    BY <1>2 DEF Find
  <2>2. QED
    BY <1>1, <1>2, <2>1
<1>3. CASE at # {}
  <2>1. \E i \in at : \A j \in at : i <= j
    <3> HIDE DEF at
    <3>1. QED
      BY <1>1, <1>3, LeastNumber
  <2>2. Find(chain, k) = CHOOSE i \in at : \A j \in at : i <= j
    BY <1>3 DEF Find
  <2>3. Find(chain, k) \in at /\ \A j \in at : Find(chain, k) <= j
    BY <2>1, <2>2
  <2>4. QED
    BY <1>1, <2>3
<1>4. QED
  BY <1>2, <1>3

\* The first entry of a key is what is found.
LEMMA FoundFirst ==
  ASSUME NEW chain \in Seq(ChainEntries), NEW k, NEW p \in 1..Len(chain),
         chain[p].key = k, \A i \in 1..p - 1 : chain[i].key # k
  PROVE  Find(chain, k) = p
<1>1. PICK f : f = Find(chain, k)
  OBVIOUS
<1>2. f \in 0..Len(chain) /\ f # 0 /\ f <= p /\ chain[f].key = k
  BY <1>1, FoundIs
<1>3. ~(f \in 1..p - 1)
  BY <1>2
<1>4. QED
  BY <1>1, <1>2, <1>3

\* A key that is nowhere is not found.
LEMMA FoundNone ==
  ASSUME NEW chain \in Seq(ChainEntries), NEW k, \A i \in 1..Len(chain) : chain[i].key # k
  PROVE  Find(chain, k) = 0
BY FoundIs

\* An entry at the end counts only for a key that had none.
LEMMA LookAppended ==
  ASSUME NEW chain \in Seq(ChainEntries), NEW e \in ChainEntries, NEW k
  PROVE  Look(Append(chain, e), k) = IF Look(chain, k) # {} THEN Look(chain, k)
                                     ELSE IF e.key = k THEN {e.value} ELSE {}
<1>1. PICK c : c = Append(chain, e)
  OBVIOUS
<1>2. /\ c \in Seq(ChainEntries) /\ Len(c) = Len(chain) + 1 /\ Len(chain) \in Nat
      /\ c[Len(chain) + 1] = e /\ \A i \in 1..Len(chain) : c[i] = chain[i]
  BY <1>1
<1>3. PICK f : f = Find(chain, k)
  OBVIOUS
<1>4. /\ f \in 0..Len(chain)
      /\ f = 0 => \A i \in 1..Len(chain) : chain[i].key # k
      /\ f # 0 => chain[f].key = k /\ \A i \in 1..Len(chain) : chain[i].key = k => f <= i
  BY <1>3, FoundIs
<1>5. CASE f # 0
  <2>1. f \in 1..Len(c) /\ c[f].key = k /\ \A i \in 1..f - 1 : c[i].key # k
    BY <1>2, <1>4, <1>5
  <2>2. Find(c, k) = f
    BY <1>2, <2>1, FoundFirst
  <2>3. c[f] = chain[f]
    BY <1>2, <1>4, <1>5
  <2>4. QED
    BY <1>1, <1>2, <1>3, <1>5, <2>2, <2>3 DEF Look
<1>6. CASE f = 0 /\ e.key = k
  <2>1. Find(c, k) = Len(chain) + 1
    <3>1. \A i \in 1..(Len(chain) + 1) - 1 : c[i].key # k
      BY <1>2, <1>4, <1>6
    <3>2. Len(chain) + 1 \in 1..Len(c) /\ c[Len(chain) + 1].key = k
      BY <1>2, <1>6
    <3>3. QED
      BY <1>2, <3>1, <3>2, FoundFirst
  <2>2. QED
    BY <1>1, <1>2, <1>3, <1>6, <2>1 DEF Look
<1>7. CASE f = 0 /\ e.key # k
  <2>1. Find(c, k) = 0
    <3>1. \A i \in 1..Len(c) : c[i].key # k
      BY <1>2, <1>4, <1>7
    <3>2. QED
      BY <1>2, <3>1, FoundNone
  <2>2. QED
    BY <1>1, <1>3, <1>7, <2>1 DEF Look
<1>8. QED
  BY <1>5, <1>6, <1>7

\* To remove an entry changes nothing for another key.
LEMMA LookRemoved ==
  ASSUME NEW chain \in Seq(ChainEntries), NEW k, NEW p \in 1..Len(chain), chain[p].key # k
  PROVE  Look(RemoveAt(chain, p), k) = Look(chain, k)
<1>1. PICK c : c = RemoveAt(chain, p)
  OBVIOUS
<1>2. /\ c \in Seq(ChainEntries) /\ Len(c) = Len(chain) - 1 /\ Len(chain) \in Nat
      /\ \A i \in 1..Len(chain) - 1 : c[i] = IF i < p THEN chain[i] ELSE chain[i + 1]
  <2>1. /\ RemoveAt(chain, p) \in Seq(ChainEntries) /\ Len(RemoveAt(chain, p)) = Len(chain) - 1
        /\ \A i \in 1..Len(chain) - 1 : RemoveAt(chain, p)[i] = IF i < p THEN chain[i] ELSE chain[i + 1]
    BY Shortened
  <2>2. QED
    BY <1>1, <2>1
<1>3. PICK f : f = Find(chain, k)
  OBVIOUS
<1>4. /\ f \in 0..Len(chain)
      /\ f = 0 => \A i \in 1..Len(chain) : chain[i].key # k
      /\ f # 0 => chain[f].key = k /\ \A i \in 1..Len(chain) : chain[i].key = k => f <= i
  BY <1>3, FoundIs
<1>5. CASE f = 0
  <2>1. \A i \in 1..Len(c) : c[i].key # k
    BY <1>2, <1>4, <1>5
  <2>2. Find(c, k) = 0
    BY <1>2, <2>1, FoundNone
  <2>3. QED
    BY <1>1, <1>3, <1>5, <2>2 DEF Look
<1>6. CASE f # 0 /\ f < p
  <2>1. f \in 1..Len(c) /\ c[f] = chain[f]
    BY <1>2, <1>4, <1>6
  <2>2. \A i \in 1..f - 1 : c[i].key # k
    BY <1>2, <1>4, <1>6
  <2>3. Find(c, k) = f
    BY <1>2, <1>4, <1>6, <2>1, <2>2, FoundFirst
  <2>4. QED
    BY <1>1, <1>2, <1>3, <1>6, <2>1, <2>3 DEF Look
<1>7. CASE f > p
  <2>1. f - 1 \in 1..Len(c) /\ c[f - 1] = chain[f]
    <3>1. f - 1 \in 1..Len(chain) - 1 /\ ~(f - 1 < p) /\ (f - 1) + 1 = f
      BY <1>4, <1>7
    <3>2. QED
      BY <1>2, <3>1
  <2>2. \A i \in 1..(f - 1) - 1 : c[i].key # k
    <3> SUFFICES ASSUME NEW i \in 1..(f - 1) - 1 PROVE c[i].key # k
      OBVIOUS
    <3>1. i \in 1..Len(chain) - 1 /\ i \in 1..Len(chain) /\ i + 1 \in 1..Len(chain) /\ ~(f <= i) /\ ~(f <= i + 1)
      BY <1>4, <1>7
    <3>2. chain[i].key # k /\ chain[i + 1].key # k
      BY <1>4, <1>7, <3>1
    <3>3. QED
      BY <1>2, <3>1, <3>2
  <2>3. Find(c, k) = f - 1
    <3>1. PICK g : g = f - 1
      OBVIOUS
    <3>2. c \in Seq(ChainEntries) /\ g \in 1..Len(c) /\ c[g].key = k
      BY <1>2, <1>4, <1>7, <2>1, <3>1
    <3>3. \A i \in 1..g - 1 : c[i].key # k
      BY <2>2, <3>1, Zenon
    <3>4. Find(c, k) = g
      BY <3>2, <3>3, FoundFirst
    <3>5. QED
      BY <3>1, <3>4
  <2>4. f # 0 /\ f - 1 # 0
    BY <1>4, <1>7
  <2>5. QED
    BY <1>1, <1>3, <2>1, <2>3, <2>4 DEF Look
<1>8. f # p
  BY <1>4
<1>9. QED
  BY <1>4, <1>5, <1>6, <1>7, <1>8

----------------------------------------------------------------------------
\* Got for a table that is not the present one.
GotIn(h, k) == Look(h[hash[k]], k)

\* A get reads the present table.
LEMMA GotIs == ASSUME NEW k PROVE Got(k) = GotIn(values, k)
BY DEF Got, GotIn, Look

\* hashtable_set_by_hash keeps what a key has, gives it a value if it had none, and
\* leaves other keys alone, although it does not look at the last entry of a chain.
LEMMA SetIs ==
  ASSUME NEW h \in Tables, NEW k \in Key, NEW v \in Value
  PROVE  /\ SetByHash(h, k, v) \in Tables
         /\ GotIn(SetByHash(h, k, v), k) = IF GotIn(h, k) # {} THEN GotIn(h, k) ELSE {v}
         /\ \A u \in Key : u # k => GotIn(SetByHash(h, k, v), u) = GotIn(h, u)
<1> DEFINE e == [key |-> k, value |-> v]
<1>1. PICK b : b = hash[k]
  OBVIOUS
<1>2. b \in 0..Size - 1
  BY <1>1, HashAssumption
<1>3. PICK c : c = h[b]
  OBVIOUS
<1>4. c \in Seq(ChainEntries) /\ Len(c) \in Nat /\ e \in ChainEntries /\ e.key = k /\ e.value = v
  <2>1. c \in Seq(ChainEntries)
    BY <1>2, <1>3 DEF Tables
  <2>2. e \in ChainEntries
    BY DEF ChainEntries
  <2>3. QED
    BY <2>1, <2>2
<1>5. CASE c # <<>> /\ Find(Front(c), k) # 0
  <2>1. SetByHash(h, k, v) = h
    BY <1>1, <1>3, <1>5 DEF SetByHash
  <2>2. Find(c, k) # 0
    <3>1. Front(c) \in Seq(ChainEntries) /\ Len(Front(c)) = Len(c) - 1 /\ \A i \in 1..Len(c) - 1 : Front(c)[i] = c[i]
      <4>1. Len(c) # 0
        BY <1>4, <1>5
      <4>2. c \in Seq(ChainEntries)
        BY <1>4
      <4>3. QED
        BY <4>1, <4>2, InFront
    <3>2. PICK f : f = Find(Front(c), k)
      OBVIOUS
    <3>3. f \in 1..Len(c) - 1 /\ Front(c)[f].key = k
      BY <1>5, <3>1, <3>2, FoundIs
    <3>4. f \in 1..Len(c) /\ c[f].key = k
      BY <1>4, <3>1, <3>3
    <3>5. QED
      BY <1>4, <3>4, FoundIs
  <2>3. GotIn(h, k) # {}
    BY <1>1, <1>3, <2>2 DEF GotIn, Look
  <2>4. QED
    BY <2>1, <2>3
<1>6. CASE ~(c # <<>> /\ Find(Front(c), k) # 0)
  <2>1. SetByHash(h, k, v) = [h EXCEPT ![b] = Append(c, e)]
    BY <1>1, <1>3, <1>6 DEF SetByHash
  <2>2. PICK g : g = SetByHash(h, k, v)
    OBVIOUS
  <2>3. Append(c, e) \in Seq(ChainEntries)
    <3> HIDE DEF e
    <3>1. QED
      BY <1>4
  <2>4. g \in Tables /\ g[b] = Append(c, e) /\ \A a \in 0..Size - 1 : a # b => g[a] = h[a]
    <3> HIDE DEF e
    <3>1. QED
      BY <1>2, <2>1, <2>2, <2>3 DEF Tables
  <2>5. \A u : Look(Append(c, e), u) = IF Look(c, u) # {} THEN Look(c, u) ELSE IF e.key = u THEN {e.value} ELSE {}
    BY <1>4, LookAppended
  <2>6. GotIn(g, k) = IF GotIn(h, k) # {} THEN GotIn(h, k) ELSE {v}
    BY <1>1, <1>3, <1>4, <2>4, <2>5 DEF GotIn
  <2>7. ASSUME NEW u \in Key, u # k PROVE GotIn(g, u) = GotIn(h, u)
    <3>1. CASE hash[u] = b
      <4>1. GotIn(g, u) = Look(Append(c, e), u) /\ GotIn(h, u) = Look(c, u)
        BY <1>3, <2>4, <3>1 DEF GotIn
      <4>2. QED
        BY <1>4, <2>5, <2>7, <4>1
    <3>2. CASE hash[u] # b
      <4>1. hash[u] \in 0..Size - 1
        BY HashAssumption
      <4>2. QED
        BY <2>4, <3>2, <4>1 DEF GotIn
    <3>3. QED
      BY <3>1, <3>2
  <2>8. QED
    BY <2>2, <2>4, <2>6, <2>7
<1>7. QED
  BY <1>5, <1>6

\* hashtable_get_by_hash with remove leaves other keys alone.
LEMMA RemoveIs ==
  ASSUME NEW h \in Tables, NEW k \in Key
  PROVE  /\ RemoveByHash(h, k) \in Tables
         /\ \A u \in Key : u # k => GotIn(RemoveByHash(h, k), u) = GotIn(h, u)
<1>1. PICK b : b = hash[k]
  OBVIOUS
<1>2. b \in 0..Size - 1
  BY <1>1, HashAssumption
<1>3. PICK c : c = h[b]
  OBVIOUS
<1>4. c \in Seq(ChainEntries)
  BY <1>2, <1>3 DEF Tables
<1>5. PICK f : f = Find(c, k)
  OBVIOUS
<1>6. f \in 0..Len(c) /\ (f # 0 => c[f].key = k)
  BY <1>4, <1>5, FoundIs
<1>7. CASE f = 0
  BY <1>1, <1>3, <1>5, <1>7 DEF RemoveByHash
<1>8. CASE f # 0
  <2>1. RemoveByHash(h, k) = [h EXCEPT ![b] = RemoveAt(c, f)]
    BY <1>1, <1>3, <1>5, <1>8 DEF RemoveByHash
  <2>2. PICK g : g = RemoveByHash(h, k)
    OBVIOUS
  <2>3. RemoveAt(c, f) \in Seq(ChainEntries)
    BY <1>4, <1>6, <1>8, Shortened
  <2>4. g \in Tables /\ g[b] = RemoveAt(c, f) /\ \A a \in 0..Size - 1 : a # b => g[a] = h[a]
    BY <1>2, <2>1, <2>2, <2>3 DEF Tables
  <2>5. ASSUME NEW u \in Key, u # k PROVE GotIn(g, u) = GotIn(h, u)
    <3>1. CASE hash[u] = b
      <4>1. Look(RemoveAt(c, f), u) = Look(c, u)
        <5>1. f \in 1..Len(c) /\ c[f].key # u
          BY <1>4, <1>6, <1>8, <2>5
        <5>2. QED
          BY <1>4, <5>1, LookRemoved
      <4>2. QED
        BY <1>3, <2>4, <3>1, <4>1 DEF GotIn
    <3>2. CASE hash[u] # b
      <4>1. hash[u] \in 0..Size - 1
        BY HashAssumption
      <4>2. QED
        BY <2>4, <3>2, <4>1 DEF GotIn
    <3>3. QED
      BY <3>1, <3>2
  <2>6. QED
    BY <2>2, <2>4, <2>5
<1>9. QED
  BY <1>7, <1>8

----------------------------------------------------------------------------
\* Every entry of a table is in the bucket of its key.
InBuckets(h) == \A b \in 0..Size - 1 : \A i \in DOMAIN h[b] : hash[h[b][i].key] = b
\* The invariant of the table.
TableOK == values \in Tables /\ InBuckets(values)

\* A set and a removal keep entries in their buckets.
LEMMA SetInBuckets ==
  ASSUME NEW h \in Tables, InBuckets(h), NEW k \in Key, NEW v \in Value
  PROVE  InBuckets(SetByHash(h, k, v))
<1> DEFINE e == [key |-> k, value |-> v]
<1>1. hash[k] \in 0..Size - 1
  BY HashAssumption
<1>2. h[hash[k]] \in Seq(ChainEntries)
  BY <1>1 DEF Tables
<1>3. CASE SetByHash(h, k, v) = h
  BY <1>3
<1>4. CASE SetByHash(h, k, v) = [h EXCEPT ![hash[k]] = Append(h[hash[k]], e)]
  <2>1. PICK g : g = SetByHash(h, k, v)
    OBVIOUS
  <2>2. g[hash[k]] = Append(h[hash[k]], e) /\ \A a \in 0..Size - 1 : a # hash[k] => g[a] = h[a]
    <3> HIDE DEF e
    <3>1. QED
      BY <1>1, <1>4, <2>1 DEF Tables
  <2>3. ASSUME NEW b \in 0..Size - 1, NEW i \in DOMAIN g[b] PROVE hash[g[b][i].key] = b
    <3>1. CASE b = hash[k]
      <4>1. g[b] = Append(h[b], e) /\ h[b] \in Seq(ChainEntries) /\ e.key = k
        BY <1>2, <2>2, <3>1
      <4> HIDE DEF e
      <4>2. i \in 1..Len(h[b]) + 1
        BY <2>3, <4>1
      <4>3. CASE i = Len(h[b]) + 1
        <5>1. g[b][i] = e
          BY <4>1, <4>3
        <5>2. QED
          BY <3>1, <4>1, <5>1
      <4>4. CASE i \in 1..Len(h[b])
        <5>1. g[b][i] = h[b][i] /\ i \in DOMAIN h[b]
          BY <4>1, <4>4
        <5>2. QED
          BY <5>1 DEF InBuckets
      <4>5. QED
        BY <4>1, <4>2, <4>3, <4>4
    <3>2. CASE b # hash[k]
      BY <2>2, <2>3, <3>2 DEF InBuckets
    <3>3. QED
      BY <3>1, <3>2
  <2>4. QED
    BY <2>1, <2>3 DEF InBuckets
<1>5. QED
  BY <1>3, <1>4 DEF SetByHash

LEMMA RemoveInBuckets ==
  ASSUME NEW h \in Tables, InBuckets(h), NEW k \in Key
  PROVE  InBuckets(RemoveByHash(h, k))
<1>1. hash[k] \in 0..Size - 1
  BY HashAssumption
<1>2. PICK c : c = h[hash[k]]
  OBVIOUS
<1>3. c \in Seq(ChainEntries)
  BY <1>1, <1>2 DEF Tables
<1>4. PICK f : f = Find(c, k)
  OBVIOUS
<1>5. f \in 0..Len(c)
  BY <1>3, <1>4, FoundIs
<1>6. CASE f = 0
  BY <1>2, <1>4, <1>6 DEF RemoveByHash
<1>7. CASE f # 0
  <2>1. PICK g : g = RemoveByHash(h, k)
    OBVIOUS
  <2>2. g = [h EXCEPT ![hash[k]] = RemoveAt(c, f)]
    BY <1>2, <1>4, <1>7, <2>1 DEF RemoveByHash
  <2>3. g[hash[k]] = RemoveAt(c, f) /\ \A a \in 0..Size - 1 : a # hash[k] => g[a] = h[a]
    BY <1>1, <2>2 DEF Tables
  <2>4. /\ Len(RemoveAt(c, f)) = Len(c) - 1 /\ RemoveAt(c, f) \in Seq(ChainEntries)
        /\ \A i \in 1..Len(c) - 1 : RemoveAt(c, f)[i] = IF i < f THEN c[i] ELSE c[i + 1]
    <3>1. f \in 1..Len(c)
      BY <1>3, <1>5, <1>7
    <3>2. QED
      BY <1>3, <3>1, Shortened
  <2>5. ASSUME NEW b \in 0..Size - 1, NEW i \in DOMAIN g[b] PROVE hash[g[b][i].key] = b
    <3>1. CASE b = hash[k]
      <4>1. i \in 1..Len(c) - 1 /\ g[b][i] = RemoveAt(c, f)[i]
        BY <2>3, <2>4, <2>5, <3>1
      <4>2. g[b][i] = c[i] \/ g[b][i] = c[i + 1]
        BY <2>4, <4>1
      <4>3. i \in DOMAIN c /\ i + 1 \in DOMAIN c
        BY <1>3, <4>1
      <4>4. \A j \in DOMAIN c : hash[c[j].key] = b
        BY <1>2, <3>1 DEF InBuckets
      <4>5. QED
        BY <4>2, <4>3, <4>4
    <3>2. CASE b # hash[k]
      BY <2>3, <2>5, <3>2 DEF InBuckets
    <3>3. QED
      BY <3>1, <3>2
  <2>6. QED
    BY <2>1, <2>5 DEF InBuckets
<1>8. QED
  BY <1>6, <1>7

\* The table of hashtable_new.
LEMMA EmptyIs == Empty \in Tables /\ InBuckets(Empty)
BY HashAssumption DEF Empty, Tables, InBuckets

\* The invariant of the table is its type invariant, and is kept.
LEMMA TableOKIs == TableOK => HTypeOK
<1> SUFFICES ASSUME TableOK, NEW b \in 0..Size - 1, NEW i \in DOMAIN values[b]
             PROVE  values[b][i] \in ChainEntries /\ hash[values[b][i].key] = b
  BY DEF HTypeOK, ChainEntries
<1>1. values[b] \in Seq(ChainEntries)
  BY DEF TableOK, Tables
<1>2. QED
  BY <1>1 DEF TableOK, InBuckets

LEMMA TableHolds == HSpec => []TableOK
<1>1. HInit => TableOK
  BY EmptyIs DEF HInit, TableOK
<1>2. TableOK /\ [HNext]_values => TableOK'
  <2> SUFFICES ASSUME TableOK, [HNext]_values PROVE TableOK'
    OBVIOUS
  <2>1. ASSUME NEW k \in Key, HRemove(k) PROVE TableOK'
    BY <2>1, RemoveIs, RemoveInBuckets DEF HRemove, TableOK
  <2>2. ASSUME NEW k \in Key, NEW v \in Value, HSet(k, v) PROVE TableOK'
    BY <2>2, SetIs, SetInBuckets DEF HSet, TableOK
  <2>3. QED
    BY <2>1, <2>2 DEF HNext, TableOK
<1>3. QED
  BY <1>1, <1>2, PTL DEF HSpec

\* One step of the table, and what a get returns after it.
LEMMA KeptStep ==
  ASSUME TableOK, NEW j \in Key, NEW v \in Value,
         values' = SetByHash(values, j, v) \/ values' = RemoveByHash(values, j),
         NEW k \in Key, Got(k) # {}, values' # RemoveByHash(values, k)
  PROVE  Got(k)' = Got(k)
<1>1. Got(k) = GotIn(values, k) /\ Got(k)' = GotIn(values', k)
  BY DEF Got, GotIn, Look
<1>2. values \in Tables
  BY DEF TableOK
<1>3. CASE values' = SetByHash(values, j, v)
  BY <1>1, <1>2, <1>3, SetIs
<1>4. CASE values' = RemoveByHash(values, j)
  BY <1>1, <1>2, <1>4, RemoveIs
<1>5. QED
  BY <1>3, <1>4

\* Every entry stays in the bucket of its key, where a get looks for it: for tables of
\* any size, any hash function and chains of any length.
THEOREM HashTableTypeOK == HSpec => []HTypeOK
BY TableHolds, TableOKIs, PTL

\* "If value is present then it's not set" (data.h:288): what a get returns for a key
\* changes only when that key is removed, although the chain of a set is read up to
\* the entry before the last.
THEOREM HashTableKeptUntilRemoved == HSpec => KeptUntilRemoved
<1>1. TableOK /\ [HNext]_values =>
        [\A k \in Key : Got(k) # {} /\ values' # RemoveByHash(values, k) => Got(k)' = Got(k)]_values
  <2> SUFFICES ASSUME TableOK, HNext, NEW k \in Key, Got(k) # {}, values' # RemoveByHash(values, k)
               PROVE  Got(k)' = Got(k)
    OBVIOUS
  <2>1. Got(k) \subseteq Value
    <3>1. hash[k] \in 0..Size - 1 /\ values[hash[k]] \in Seq(ChainEntries)
      BY HashAssumption DEF TableOK, Tables
    <3>2. PICK c \in Seq(ChainEntries) : c = values[hash[k]]
      BY <3>1
    <3>3. PICK f : f = Find(c, k)
      OBVIOUS
    <3>4. f \in 0..Len(c)
      BY <3>3, FoundIs
    <3>5. f # 0 => c[f].value \in Value
      <4>1. f # 0 => c[f] \in ChainEntries
        BY <3>4
      <4>2. QED
        BY <4>1 DEF ChainEntries
    <3>6. QED
      BY <3>2, <3>3, <3>5 DEF Got
  <2>2. PICK w \in Value : TRUE
    BY <2>1
  <2>3. PICK j \in Key : HRemove(j) \/ \E v \in Value : HSet(j, v)
    BY DEF HNext
  <2>4. CASE HRemove(j)
    BY <2>2, <2>4, KeptStep DEF HRemove
  <2>5. ASSUME NEW v \in Value, HSet(j, v) PROVE Got(k)' = Got(k)
    BY <2>5, KeptStep DEF HSet
  <2>6. QED
    BY <2>3, <2>4, <2>5
<1>2. QED
  BY <1>1, TableHolds, PTL DEF HSpec, KeptUntilRemoved

----------------------------------------------------------------------------
\* The cells of the list, and the invariant of the dictionary: nodes and keys of the
\* list are all different, and the table leads from each key to its node.
Cells == [node : Node, key : Key, item : Item]
DictInv ==
  /\ TableOK
  /\ l \in Seq(Cells) /\ fault \in BOOLEAN
  /\ \A i, j \in 1..Len(l) : i # j => l[i].node # l[j].node /\ l[i].key # l[j].key
  /\ \A i \in 1..Len(l) : GotIn(values, l[i].key) = {l[i].node}

\* An empty dictionary.
LEMMA DictInit == ASSUME Init PROVE DictInv
<1>1. TableOK
  BY EmptyIs DEF Init, HInit, TableOK
<1>2. l \in Seq(Cells) /\ Len(l) = 0
  BY DEF Init
<1>3. fault \in BOOLEAN
  BY Zenon DEF Init
<1>4. QED
  BY <1>1, <1>2, <1>3 DEF DictInv

\* The fields of a cell of the list.
LEMMA CellIs ==
  ASSUME DictInv, NEW i \in 1..Len(l)
  PROVE  l[i] \in Cells /\ l[i].node \in Node /\ l[i].node \in Value /\ l[i].key \in Key
<1>1. l[i] \in Cells
  BY DEF DictInv
<1>2. QED
  BY <1>1, DictAssumption DEF Cells

\* dict_set, for a new key.
LEMMA AddStep == ASSUME DictInv, NEW k \in Key, NEW x \in Item, Add(k, x) PROVE DictInv'
<1>1. PICK n \in Node \ InList :
        /\ Got(k) = {}
        /\ l' = Append(l, [node |-> n, key |-> k, item |-> x])
        /\ values' = SetByHash(values, k, n)
        /\ UNCHANGED fault
  BY DEF Add
<1> DEFINE e == [node |-> n, key |-> k, item |-> x]
<1>2. l \in Seq(Cells) /\ values \in Tables /\ InBuckets(values) /\ n \in Value
  BY <1>1, DictAssumption DEF DictInv, TableOK
<1>3. e \in Cells /\ e.node = n /\ e.key = k
  BY DEF Cells
<1>4. TableOK'
  BY <1>1, <1>2, SetIs, SetInBuckets DEF TableOK
<1> HIDE DEF e
<1>5. /\ l' \in Seq(Cells) /\ Len(l') = Len(l) + 1 /\ Len(l) \in Nat /\ l'[Len(l) + 1] = e
      /\ \A i \in 1..Len(l) : l'[i] = l[i] /\ l[i] \in Cells
  BY <1>1, <1>2, <1>3 DEF e
<1>6. \A i \in 1..Len(l) : l[i].node # n /\ l[i].key # k /\ l[i].key \in Key
  <2>1. ASSUME NEW i \in 1..Len(l) PROVE l[i].node # n /\ l[i].key # k /\ l[i].key \in Key
    <3>1. l[i].node # n
      BY <1>1, <1>2 DEF InList
    <3>2. l[i].key # k
      BY <1>1, GotIs DEF DictInv
    <3>3. l[i].key \in Key
      BY <1>5 DEF Cells
    <3>4. QED
      BY <3>1, <3>2, <3>3
  <2>2. QED
    BY <2>1
<1>7. GotIn(values', k) = {n} /\ \A u \in Key : u # k => GotIn(values', u) = GotIn(values, u)
  BY <1>1, <1>2, GotIs, SetIs
<1>8. \A i, j \in 1..Len(l') : i # j => l'[i].node # l'[j].node /\ l'[i].key # l'[j].key
  <2>1. ASSUME NEW i \in 1..Len(l) + 1, NEW j \in 1..Len(l) + 1, i # j
        PROVE  l'[i].node # l'[j].node /\ l'[i].key # l'[j].key
    <3>1. CASE i \in 1..Len(l) /\ j \in 1..Len(l)
      BY <1>5, <2>1, <3>1 DEF DictInv
    <3>2. CASE i = Len(l) + 1
      <4>1. j \in 1..Len(l) /\ l'[j] = l[j] /\ l'[i] = e
        BY <1>5, <2>1, <3>2
      <4>2. QED
        BY <1>3, <1>6, <4>1
    <3>3. CASE j = Len(l) + 1
      <4>1. i \in 1..Len(l) /\ l'[i] = l[i] /\ l'[j] = e
        BY <1>5, <2>1, <3>3
      <4>2. QED
        BY <1>3, <1>6, <4>1
    <3>4. QED
      BY <1>5, <3>1, <3>2, <3>3
  <2>2. QED
    BY <1>5, <2>1
<1>9. \A i \in 1..Len(l') : GotIn(values', l'[i].key) = {l'[i].node}
  <2>1. ASSUME NEW i \in 1..Len(l) + 1 PROVE GotIn(values', l'[i].key) = {l'[i].node}
    <3>1. CASE i \in 1..Len(l)
      BY <1>5, <1>6, <1>7, <3>1 DEF DictInv
    <3>2. CASE i = Len(l) + 1
      BY <1>3, <1>5, <1>7, <3>2
    <3>3. QED
      BY <1>5, <3>1, <3>2
  <2>2. QED
    BY <1>5, <2>1
<1>10. fault' \in BOOLEAN
  BY <1>1, Zenon DEF DictInv
<1>11. QED
  BY <1>4, <1>5, <1>8, <1>9, <1>10, Zenon DEF DictInv

\* dict_set_at_raw: an entry too many stays in the table, under the old key.
LEMMA SetAtStep ==
  ASSUME DictInv, NEW p \in DOMAIN l, NEW k \in Key, NEW x \in Item, SetAt(p, k, x)
  PROVE  DictInv'
<1>1. /\ p \in 1..Len(l) /\ l \in Seq(Cells) /\ values \in Tables /\ InBuckets(values) /\ Got(k) = {}
      /\ l' = [l EXCEPT ![p] = [node |-> l[p].node, key |-> k, item |-> x]]
      /\ values' = SetByHash(values, k, l[p].node) /\ fault' = fault
  BY DEF DictInv, TableOK, SetAt
<1> DEFINE e == [node |-> l[p].node, key |-> k, item |-> x]
<1>2. l[p] \in Cells /\ l[p].node \in Node /\ l[p].node \in Value
  BY <1>1, CellIs
<1>3. e \in Cells /\ e.node = l[p].node /\ e.key = k
  BY <1>2 DEF Cells
<1> HIDE DEF e
<1>4. /\ l' \in Seq(Cells) /\ Len(l') = Len(l) /\ l'[p] = e
      /\ \A i \in 1..Len(l) : (i # p => l'[i] = l[i]) /\ l[i] \in Cells
  BY <1>1, <1>3 DEF e
<1>5. TableOK'
  BY <1>1, <1>2, SetIs, SetInBuckets DEF TableOK
<1>6. \A i \in 1..Len(l) : l[i].key # k /\ l[i].key \in Key
  <2>1. \A i \in 1..Len(l) : l[i].key # k
    BY <1>1, GotIs DEF DictInv
  <2>2. \A i \in 1..Len(l) : l[i].key \in Key
    BY <1>4 DEF Cells
  <2>3. QED
    BY <2>1, <2>2
<1>7. GotIn(values', k) = {l[p].node} /\ \A u \in Key : u # k => GotIn(values', u) = GotIn(values, u)
  BY <1>1, <1>2, GotIs, SetIs
<1>8. \A i, j \in 1..Len(l) : i # j => l[i].node # l[j].node /\ l[i].key # l[j].key
  BY DEF DictInv
<1>9. \A i, j \in 1..Len(l') : i # j => l'[i].node # l'[j].node /\ l'[i].key # l'[j].key
  BY <1>1, <1>3, <1>4, <1>6, <1>8
<1>10. \A i \in 1..Len(l') : GotIn(values', l'[i].key) = {l'[i].node}
  <2>1. ASSUME NEW i \in 1..Len(l) PROVE GotIn(values', l'[i].key) = {l'[i].node}
    <3>1. CASE i = p
      BY <1>3, <1>4, <1>7, <3>1
    <3>2. CASE i # p
      BY <1>4, <1>6, <1>7, <3>2 DEF DictInv
    <3>3. QED
      BY <3>1, <3>2
  <2>2. QED
    BY <1>4, <2>1
<1>11. fault' \in BOOLEAN
  BY <1>1, Zenon DEF DictInv
<1>12. QED
  BY <1>4, <1>5, <1>9, <1>10, <1>11, Zenon DEF DictInv

\* A cell leaves the list, and the entry of a key that no other cell has leaves the
\* table.
LEMMA LeaveStep ==
  ASSUME DictInv, NEW p \in 1..Len(l), NEW k \in Key, l' = RemoveAt(l, p), values' = RemoveByHash(values, k),
         \A i \in 1..Len(l) : i # p => l[i].key # k, fault' = fault
  PROVE  DictInv'
<1>1. l \in Seq(Cells) /\ values \in Tables /\ InBuckets(values) /\ Len(l) \in Nat
  BY DEF DictInv, TableOK
<1>2. /\ l' \in Seq(Cells) /\ Len(l') = Len(l) - 1
      /\ \A i \in 1..Len(l) - 1 : l'[i] = IF i < p THEN l[i] ELSE l[i + 1]
  BY <1>1, Shortened
<1>3. TableOK'
  BY <1>1, RemoveIs, RemoveInBuckets DEF TableOK
<1> DEFINE w(i) == IF i < p THEN i ELSE i + 1
<1>4. \A i \in 1..Len(l) - 1 : w(i) \in 1..Len(l) /\ w(i) # p /\ l'[i] = l[w(i)]
  BY <1>1, <1>2
<1>5. \A i, j \in 1..Len(l) - 1 : i # j => w(i) # w(j)
  BY <1>1
<1> HIDE DEF w
<1>6. \A i, j \in 1..Len(l) : i # j => l[i].node # l[j].node /\ l[i].key # l[j].key
  BY DEF DictInv
<1>0. \A i \in 1..Len(l') : w(i) \in 1..Len(l) /\ w(i) # p /\ l'[i] = l[w(i)]
  BY <1>2, <1>4
<1>7. \A i, j \in 1..Len(l') : i # j => l'[i].node # l'[j].node /\ l'[i].key # l'[j].key
  <2>1. \A i, j \in 1..Len(l') : i # j => w(i) # w(j)
    BY <1>2, <1>5
  <2>2. QED
    BY <1>0, <1>6, <2>1
<1>8. \A i \in 1..Len(l) : l[i].key \in Key
  BY CellIs
<1>9. \A u \in Key : u # k => GotIn(values', u) = GotIn(values, u)
  BY <1>1, RemoveIs
<1>10. \A i \in 1..Len(l) : i # p => GotIn(values', l[i].key) = {l[i].node}
  BY <1>8, <1>9 DEF DictInv
<1>11. \A i \in 1..Len(l') : GotIn(values', l'[i].key) = {l'[i].node}
  BY <1>0, <1>10
<1>12. fault' \in BOOLEAN
  BY Zenon DEF DictInv
<1>13. QED
  BY <1>2, <1>3, <1>7, <1>11, <1>12, Zenon DEF DictInv

\* dict_get with remove, also through an entry whose node is gone.
LEMMA RemoveKeyStep == ASSUME DictInv, NEW k \in Key, RemoveKey(k) PROVE DictInv'
<1>1. PICK n \in Got(k) :
        /\ values' = RemoveByHash(values, k)
        /\ IF n \in InList THEN l' = RemoveAt(l, Position(n)) /\ UNCHANGED fault
                           ELSE fault' = TRUE /\ UNCHANGED l
  BY DEF RemoveKey
<1>2. l \in Seq(Cells) /\ values \in Tables /\ InBuckets(values) /\ DOMAIN l = 1..Len(l)
  BY DEF DictInv, TableOK
<1>3. \A i \in 1..Len(l) : l[i].key = k => l[i].node = n
  <2>1. ASSUME NEW i \in 1..Len(l), l[i].key = k PROVE l[i].node = n
    <3>1. Got(k) = {l[i].node}
      BY <2>1, GotIs DEF DictInv
    <3>2. QED
      BY <1>1, <3>1
  <2>2. QED
    BY <2>1
<1>4. CASE n \in InList
  <2>1. \E i \in DOMAIN l : l[i].node = n
    BY <1>4 DEF InList
  <2>2. PICK p : p = Position(n)
    OBVIOUS
  <2>3. p \in 1..Len(l) /\ l[p].node = n
    BY <1>2, <2>1, <2>2 DEF Position
  <2>4. \A i \in 1..Len(l) : i # p => l[i].key # k
    <3>1. \A i \in 1..Len(l) : i # p => l[i].node # n
      BY <2>3 DEF DictInv
    <3>2. QED
      BY <1>3, <3>1
  <2>5. l' = RemoveAt(l, p) /\ fault' = fault /\ values' = RemoveByHash(values, k)
    BY <1>1, <1>4, <2>2
  <2>6. QED
    BY <2>3, <2>4, <2>5, LeaveStep
<1>5. CASE n \notin InList
  <2>1. \A i \in 1..Len(l) : l[i].key # k
    BY <1>2, <1>3, <1>5 DEF InList
  <2>2. l' = l /\ fault' = TRUE
    BY <1>1, <1>5
  <2>3. TableOK'
    BY <1>1, <1>2, RemoveIs, RemoveInBuckets DEF TableOK
  <2>4. \A i \in 1..Len(l) : l[i].key \in Key
    BY CellIs
  <2>5. \A u \in Key : u # k => GotIn(values', u) = GotIn(values, u)
    BY <1>1, <1>2, RemoveIs
  <2>6. \A i \in 1..Len(l) : GotIn(values', l[i].key) = {l[i].node}
    BY <2>1, <2>4, <2>5 DEF DictInv
  <2>7. \A i, j \in 1..Len(l) : i # j => l[i].node # l[j].node /\ l[i].key # l[j].key
    BY DEF DictInv
  <2>8. QED
    <3>1. l \in Seq(Cells)
      BY DEF DictInv
    <3>2. fault' \in BOOLEAN /\ l' \in Seq(Cells)
      BY <2>2, <3>1, Zenon
    <3>3. \A i, j \in 1..Len(l') : i # j => l'[i].node # l'[j].node /\ l'[i].key # l'[j].key
      BY <2>2, <2>7, Zenon
    <3>4. \A i \in 1..Len(l') : GotIn(values', l'[i].key) = {l'[i].node}
      BY <2>2, <2>6, Zenon
    <3>5. QED
      BY <2>3, <3>2, <3>3, <3>4, Zenon DEF DictInv
<1>6. QED
  BY <1>4, <1>5

\* Every step keeps the invariant.
LEMMA DictStep == ASSUME DictInv, [Next]_vars PROVE DictInv'
<1>1. ASSUME NEW p \in DOMAIN l, RemoveAtPos(p) PROVE DictInv'
  <2>1. l \in Seq(Cells) /\ p \in 1..Len(l)
    BY DEF DictInv
  <2>2. l[p].key \in Key
    BY <2>1, CellIs
  <2>3. \A i \in 1..Len(l) : i # p => l[i].key # l[p].key
    BY <2>1 DEF DictInv
  <2>4. l' = RemoveAt(l, p) /\ values' = RemoveByHash(values, l[p].key) /\ fault' = fault
    BY <1>1 DEF RemoveAtPos
  <2>5. QED
    BY <2>1, <2>2, <2>3, <2>4, LeaveStep
<1>2. CASE UNCHANGED vars
  <2>1. values' = values /\ l' = l /\ fault' = fault
    BY <1>2 DEF vars
  <2>2. TableOK'
    BY <2>1 DEF DictInv, TableOK
  <2>3. l' \in Seq(Cells) /\ fault' \in BOOLEAN
        /\ \A i, j \in 1..Len(l') : i # j => l'[i].node # l'[j].node /\ l'[i].key # l'[j].key
    BY <2>1 DEF DictInv
  <2>4. \A i \in 1..Len(l') : GotIn(values', l'[i].key) = {l'[i].node}
    BY <2>1 DEF DictInv
  <2>5. QED
    BY <2>2, <2>3, <2>4 DEF DictInv
<1>3. QED
  BY <1>1, <1>2, AddStep, SetAtStep, RemoveKeyStep DEF Next

\* So it always holds.
LEMMA DictHolds == Spec => []DictInv
<1>1. Init => DictInv
  BY DictInit
<1>2. DictInv /\ [Next]_vars => DictInv'
  BY DictStep
<1>3. QED
  BY <1>1, <1>2, PTL DEF Spec

\* The dictionary is well formed; the list is no longer than there are nodes.
THEOREM DictTypeOK == ASSUME IsFiniteSet(Node) PROVE Spec => []TypeOK
<1>1. IsFiniteSet(Node) /\ DictInv => TypeOK
  <2> SUFFICES ASSUME IsFiniteSet(Node), DictInv PROVE TypeOK
    OBVIOUS
  <2>1. HTypeOK
    BY TableOKIs DEF DictInv
  <2>2. l \in Seq(Cells) /\ Len(l) \in Nat
    BY DEF DictInv
  <2>3. Len(l) <= Cardinality(Node) /\ Cardinality(Node) \in Nat
    <3> DEFINE f == [i \in 1..Len(l) |-> l[i].node]
    <3>1. f \in [1..Len(l) -> Node]
      BY CellIs
    <3>2. \A a, b \in 1..Len(l) : f[a] = f[b] => a = b
      BY DEF DictInv
    <3>3. IsFiniteSet(1..Len(l)) /\ Cardinality(1..Len(l)) = Len(l)
      <4>1. PICK n \in Nat : n = Len(l)
        BY <2>2
      <4>2. IsFiniteSet(1..n) /\ Cardinality(1..n) = n
        BY FS_Interval
      <4>3. QED
        BY <4>1, <4>2, Zenon
    <3>4. Cardinality(Node) \in Nat
      BY FS_CardinalityType
    <3>5. ~(Cardinality(Node) < Cardinality(1..Len(l)))
      <4> HIDE DEF f
      <4>1. SUFFICES ASSUME Cardinality(Node) < Cardinality(1..Len(l)) PROVE FALSE
        OBVIOUS
      <4>2. \E x, y \in 1..Len(l) : x # y /\ f[x] = f[y]
        BY <3>1, <3>3, <4>1, FS_PigeonHole
      <4>3. QED
        BY <3>2, <4>2
    <3>6. QED
      BY <2>2, <3>3, <3>4, <3>5
  <2>4. l \in BoundedSeq(Cells, Cardinality(Node))
    <3>1. l \in [1..Len(l) -> Cells] /\ Len(l) \in 0..Cardinality(Node)
      BY <2>2, <2>3
    <3>2. QED
      BY <3>1 DEF BoundedSeq, SeqOf
  <2>5. fault \in BOOLEAN
    BY DEF DictInv
  <2>6. QED
    BY <2>1, <2>4, <2>5 DEF TypeOK, Cells
<1>2. QED
  BY <1>1, DictHolds, PTL

\* Every node of the list can be reached by its key, whatever keys were set, replaced
\* and removed before.
THEOREM DictKeysAllFound == Spec => []DictKeysFound
<1>1. DictInv => DictKeysFound
  BY GotIs DEF DictInv, DictKeysFound
<1>2. QED
  BY <1>1, DictHolds, PTL

\* The dictionary uses the table as it may be used: the entry of a key goes only with
\* its key.
THEOREM DictKeptUntilRemoved == Spec => KeptUntilRemoved
<1>1. DictInv /\ [Next]_vars =>
        [\A k \in Key : Got(k) # {} /\ values' # RemoveByHash(values, k) => Got(k)' = Got(k)]_values
  <2> SUFFICES ASSUME DictInv, Next, NEW k \in Key, Got(k) # {}, values' # RemoveByHash(values, k)
               PROVE  Got(k)' = Got(k)
    BY DEF vars
  <2>1. TableOK /\ l \in Seq(Cells)
    BY DEF DictInv
  <2>2. \A i \in DOMAIN l : l[i].node \in Value /\ l[i].key \in Key
    BY <2>1, CellIs
  <2>3. PICK j \in Key : \/ values' = RemoveByHash(values, j)
                         \/ \E v \in Value : values' = SetByHash(values, j, v)
    BY <2>2, DictAssumption DEF Next, RemoveKey, Add, RemoveAtPos, SetAt
  <2>4. QED
    <3>1. Got(k) = GotIn(values, k) /\ Got(k)' = GotIn(values', k)
      BY DEF Got, GotIn, Look
    <3>2. CASE values' = RemoveByHash(values, j)
      BY <2>1, <3>1, <3>2, RemoveIs DEF TableOK
    <3>3. CASE \E v \in Value : values' = SetByHash(values, j, v)
      BY <2>1, <3>1, <3>3, SetIs DEF TableOK
    <3>4. QED
      BY <2>3, <3>2, <3>3
<1>2. QED
  BY <1>1, DictHolds, PTL DEF Spec, KeptUntilRemoved

----------------------------------------------------------------------------
\* Strings.

\* Buffers are handed out in chunks of at least a byte, and a text of two fits: what the
\* source passes.
StringBounds == Chunk \in Nat /\ Chunk >= 1 /\ MaxLen \in Nat /\ MaxLen >= 2

\* A text of bounded length.
LEMMA BoundedIs ==
  ASSUME NEW S, NEW n \in Nat, NEW x
  PROVE  x \in Str!BoundedSeq(S, n) <=> x \in Seq(S) /\ Len(x) <= n
<1>1. x \in Str!BoundedSeq(S, n) <=> \E m \in 0..n : x \in [1..m -> S]
  BY DEF Str!BoundedSeq, Str!SeqOf
<1>2. ASSUME NEW m \in 0..n, x \in [1..m -> S] PROVE x \in Seq(S) /\ Len(x) <= n
  BY <1>2
<1>3. ASSUME x \in Seq(S), Len(x) <= n PROVE \E m \in 0..n : x \in [1..m -> S]
  <2>1. x \in [1..Len(x) -> S] /\ Len(x) \in 0..n
    BY <1>3
  <2>2. QED
    BY <2>1
<1>4. QED
  BY <1>1, <1>2, <1>3

\* What is printed or kept of a text is a beginning of it.
LEMMA BeginningIs ==
  ASSUME NEW src \in Seq(Char), NEW m \in 0..Len(src)
  PROVE  SubSeq(src, 1, m) \in Seq(Char) /\ Len(SubSeq(src, 1, m)) = m
OBVIOUS

\* The text that string_cat_raw_opt appends.
LEMMA LimitIs ==
  ASSUME NEW src \in Seq(Char), NEW n \in Nat
  PROVE  /\ Str!Limit(src, n) = IF n = 0 THEN src ELSE SubSeq(src, 1, Str!Least(n, Len(src)))
         /\ Str!Limit(src, n) \in Seq(Char) /\ Len(Str!Limit(src, n)) <= Len(src)
<1>1. Len(src) \in Nat /\ SubSeq(src, 1, Len(src)) = src
  OBVIOUS
<1>2. CASE n > 0 /\ n <= Len(src)
  <2>1. Str!Limit(src, n) = SubSeq(src, 1, n) /\ Str!Least(n, Len(src)) = n
    BY <1>2 DEF Str!Limit, Str!Least
  <2>2. QED
    BY <1>1, <1>2, <2>1, BeginningIs
<1>3. CASE ~(n > 0 /\ n <= Len(src))
  <2>1. Str!Limit(src, n) = src
    BY <1>3 DEF Str!Limit
  <2>2. n # 0 => Str!Least(n, Len(src)) = Len(src)
    <3>1. Len(src) \in Nat
      OBVIOUS
    <3>2. n # 0 => ~(n < Len(src)) /\ (n < Len(src) \/ n > Len(src) \/ n = Len(src))
      BY <1>3, <3>1
    <3>3. QED
      BY <3>2 DEF Str!Least
  <2>3. QED
    BY <1>1, <2>1, <2>2
<1>4. QED
  BY <1>2, <1>3

\* The text that string_write prints: vsnprintf cuts at its size.
LEMMA PrintedIs ==
  ASSUME NEW text \in Seq(Char), NEW size \in Nat \ {0}
  PROVE  Str!Printed(text, size) \in Seq(Char) /\ Len(Str!Printed(text, size)) <= Len(text)
<1>1. Str!Least(Len(text), size - 1) \in 0..Len(text)
  BY DEF Str!Least
<1>2. QED
  BY <1>1, BeginningIs DEF Str!Printed

\* A string that string_cpy_wrap gave a buffer of somebody else.
Borrowed == str.allocated = 0 /\ ~str.owns

\* Until memory is misused len is the length of the text, and the text is what was
\* asked for, unless it is borrowed.
StringInv ==
  /\ str \in [raw : Seq(Char), len : 0..MaxLen, allocated : 0..MaxLen + Chunk, owns : BOOLEAN]
  /\ asked \in Seq(Char) /\ Len(asked) <= MaxLen /\ Len(str.raw) <= MaxLen
  /\ overrun \in BOOLEAN
  /\ Str!Terminated
  /\ ~overrun => str.len = Len(str.raw)
  /\ ~overrun /\ ~Borrowed => str.raw = asked
  /\ ~overrun => str.len <= Len(asked) /\ str.raw = SubSeq(asked, 1, str.len)

\* A call that gives the string a text of its own, in a buffer that fits.
LEMMA SizedStep ==
  ASSUME StringBounds, NEW text \in Seq(Char), Len(text) <= MaxLen,
         NEW size \in 0..MaxLen + Chunk, NEW own \in BOOLEAN, size > 0 => Len(text) < size,
         str' = [raw |-> text, len |-> Len(text), allocated |-> size, owns |-> own],
         asked' = text, overrun' \in BOOLEAN
  PROVE  StringInv'
<1>1. /\ str'.raw = text /\ str'.len = Len(text) /\ str'.allocated = size /\ str'.owns = own
      /\ Len(text) \in 0..MaxLen
  BY DEF StringBounds
<1>2. str' \in [raw : Seq(Char), len : 0..MaxLen, allocated : 0..MaxLen + Chunk, owns : BOOLEAN]
  BY <1>1
<1>3. Str!Terminated'
  BY <1>1 DEF Str!Terminated
<1>4. text = SubSeq(text, 1, Len(text))
  OBVIOUS
<1>5. QED
  BY <1>1, <1>2, <1>3, <1>4 DEF StringInv

\* string_new.
LEMMA StringInit == ASSUME StringBounds, Str!Init PROVE StringInv
<1>1. /\ str.raw = <<>> /\ str.len = 0 /\ str.allocated \in {Chunk, 0} /\ str.owns = TRUE
      /\ asked = <<>>
  BY DEF Str!Init, Str!Sized
<1>2. str \in [raw : Seq(Char), len : 0..MaxLen, allocated : 0..MaxLen + Chunk, owns : BOOLEAN]
  <2>1. Chunk \in 0..MaxLen + Chunk /\ 0 \in 0..MaxLen + Chunk /\ 0 \in 0..MaxLen
    BY DEF StringBounds
  <2>2. <<>> \in Seq(Char) /\ Len(<<>>) = 0
    OBVIOUS
  <2>3. PICK a \in {Chunk, 0} : str = [raw |-> <<>>, len |-> 0, allocated |-> a, owns |-> TRUE]
    BY <2>2 DEF Str!Init, Str!Sized
  <2>4. QED
    BY <2>1, <2>2, <2>3
<1>3. overrun = FALSE
  BY DEF Str!Init
<1>4. QED
  <2>1. /\ asked \in Seq(Char) /\ Len(asked) = 0 /\ Len(str.raw) = 0 /\ str.raw = asked
        /\ str.raw = SubSeq(asked, 1, str.len)
    BY <1>1
  <2>2. Str!Terminated
    BY <1>1, <2>1 DEF StringBounds, Str!Terminated
  <2>3. overrun \in BOOLEAN
    BY <1>3, Zenon
  <2>4. str.len = Len(str.raw) /\ str.len <= Len(asked) /\ Len(asked) <= MaxLen
    BY <1>1, <2>1 DEF StringBounds
  <2>5. QED
    BY <1>2, <2>1, <2>2, <2>3, <2>4 DEF StringInv

\* What a concatenation leaves, when the caller asks for the same text.
LEMMA CatRawStep ==
  ASSUME StringBounds, StringInv, ~overrun, NEW src \in Seq(Char), Len(asked) + Len(src) <= MaxLen,
         Str!CatRaw(src), asked' = asked \o src
  PROVE  StringInv'
<1> USE DEF StringBounds
<1>1. /\ str.raw \in Seq(Char) /\ str.len \in 0..MaxLen /\ str.allocated \in 0..MaxLen + Chunk
      /\ asked \in Seq(Char) /\ Len(asked) <= MaxLen
      /\ str.len = Len(str.raw) /\ str.len <= Len(asked) /\ str.raw = SubSeq(asked, 1, str.len)
      /\ ~Borrowed => str.raw = asked
  BY DEF StringInv
<1>2. /\ asked' \in Seq(Char) /\ Len(asked') = Len(asked) + Len(src) /\ Len(asked') <= MaxLen
      /\ Len(src) \in Nat /\ Len(asked) \in Nat
      /\ \A i \in 1..Len(asked) : asked'[i] = asked[i]
  BY <1>1
<1>3. CASE Borrowed
  <2>1. str' = str /\ overrun' = overrun
    BY <1>3 DEF Str!CatRaw, Borrowed
  <2>2. SubSeq(asked', 1, str.len) = SubSeq(asked, 1, str.len)
    BY <1>1, <1>2
  <2>3. Str!Terminated' /\ Borrowed' /\ str'.len = Len(str'.raw) /\ str'.len <= Len(asked') /\ str'.raw = SubSeq(asked', 1, str'.len)
    <3>1. Str!Terminated' /\ Borrowed'
      BY <1>3, <2>1 DEF Str!Terminated, Borrowed, StringInv
    <3>2. str'.len = Len(str'.raw) /\ str'.raw = SubSeq(asked', 1, str'.len)
      BY <1>1, <2>1, <2>2
    <3>3. str'.len <= Len(asked')
      <4>1. str.len \in Nat
        BY <1>1
      <4>2. QED
        BY <1>1, <1>2, <2>1, <4>1
    <3>4. QED
      BY <3>1, <3>2, <3>3
  <2>4. /\ str' \in [raw : Seq(Char), len : 0..MaxLen, allocated : 0..MaxLen + Chunk, owns : BOOLEAN]
        /\ Len(str'.raw) <= MaxLen
    BY <2>1 DEF StringInv
  <2>5. overrun' \in BOOLEAN
    BY <2>1, Zenon DEF StringInv
  <2>6. QED
    BY <1>2, <2>3, <2>4, <2>5 DEF StringInv
<1>4. CASE ~Borrowed /\ str.allocated = 0
  <2>1. /\ str' = [raw |-> src, len |-> str.len + Len(src), allocated |-> str.len + Len(src) + Chunk, owns |-> TRUE]
        /\ overrun' = (str.len > 0)
    BY <1>4 DEF Str!CatRaw, Borrowed
  <2>2. /\ str'.raw = src /\ str'.len = str.len + Len(src) /\ str'.allocated = str.len + Len(src) + Chunk
        /\ str.len + Len(src) \in 0..MaxLen /\ str.len + Len(src) + Chunk \in 0..MaxLen + Chunk
    <3>1. str'.raw = src /\ str'.len = str.len + Len(src) /\ str'.allocated = str.len + Len(src) + Chunk
      BY <2>1
    <3>2. str.len \in Nat /\ str.len + Len(src) <= MaxLen
      BY <1>1, <1>2
    <3>3. str.len + Len(src) \in 0..MaxLen /\ str.len + Len(src) + Chunk \in 0..MaxLen + Chunk
      BY <1>2, <3>2
    <3>4. QED
      BY <3>1, <3>3
  <2>3. str' \in [raw : Seq(Char), len : 0..MaxLen, allocated : 0..MaxLen + Chunk, owns : BOOLEAN]
    BY <2>1, <2>2
  <2>4. Str!Terminated'
    BY <1>1, <1>2, <2>2 DEF Str!Terminated
  <2>5. ~overrun' => src = asked' /\ Len(src) = str'.len /\ SubSeq(src, 1, Len(src)) = src
    <3> SUFFICES ASSUME ~overrun' PROVE src = asked' /\ Len(src) = str'.len /\ SubSeq(src, 1, Len(src)) = src
      OBVIOUS
    <3>1. str.len = 0
      <4>1. ~(str.len > 0)
        BY <2>1, Zenon
      <4>2. QED
        BY <1>1, <4>1
    <3>2. asked = <<>>
      BY <1>1, <1>4, <3>1
    <3>3. QED
      BY <2>2, <3>1, <3>2
  <2>6. overrun' \in BOOLEAN
    BY <2>1
  <2>7. Len(src) <= MaxLen
    BY <1>2
  <2>8. QED
    <3>1. ~overrun' => /\ str'.len = Len(str'.raw) /\ str'.raw = asked' /\ str'.len <= Len(asked')
                     /\ str'.raw = SubSeq(asked', 1, str'.len)
      <4> SUFFICES ASSUME ~overrun'
                   PROVE  /\ str'.len = Len(str'.raw) /\ str'.raw = asked' /\ str'.len <= Len(asked')
                          /\ str'.raw = SubSeq(asked', 1, str'.len)
        OBVIOUS
      <4>1. str'.raw = asked' /\ str'.len = Len(asked') /\ SubSeq(asked', 1, Len(asked')) = asked'
        BY <2>2, <2>5
      <4>2. QED
        BY <1>2, <4>1
    <3>2. str'.raw = src
      BY <2>2
    <3>3. QED
      BY <1>2, <2>3, <2>4, <2>6, <2>7, <3>1, <3>2, Zenon DEF StringInv
<1>5. CASE str.allocated # 0
  <2> DEFINE len == str.len + Len(src)
  <2>1. /\ str' = [raw |-> str.raw \o src, len |-> len, allocated |-> Str!Grown(str, len), owns |-> TRUE]
        /\ overrun' = overrun
    BY <1>5 DEF Str!CatRaw
  <2>2. str.raw = asked /\ ~Borrowed
    BY <1>1, <1>5 DEF Borrowed
  <2>3. Str!Grown(str, len) \in 0..MaxLen + Chunk /\ len < Str!Grown(str, len) /\ len \in 0..MaxLen /\ len = Len(asked')
    <3>1. len \in Nat /\ len = Len(asked') /\ len <= MaxLen
      <4>1. str.len = Len(asked)
        BY <1>1, <2>2
      <4>2. QED
        BY <1>2, <4>1
    <3>2. str.allocated \in Nat /\ str.allocated <= MaxLen + Chunk
      BY <1>1
    <3> HIDE DEF len
    <3>3. Str!Grown(str, len) \in {len + Chunk, str.allocated} /\ len < Str!Grown(str, len)
      BY <3>1, <3>2 DEF Str!Grown
    <3>4. QED
      BY <3>1, <3>2, <3>3
  <2> HIDE DEF len
  <2>4. str' = [raw |-> asked', len |-> Len(asked'), allocated |-> Str!Grown(str, len), owns |-> TRUE]
    BY <2>1, <2>2, <2>3
  <2>5. overrun' \in BOOLEAN
    BY <2>1, Zenon DEF StringInv
  <2>6. /\ str'.raw = asked' /\ str'.len = Len(asked') /\ str'.allocated = Str!Grown(str, len)
    BY <2>4
  <2>7. str' \in [raw : Seq(Char), len : 0..MaxLen, allocated : 0..MaxLen + Chunk, owns : BOOLEAN]
    BY <1>2, <2>3, <2>4
  <2>8. asked' = SubSeq(asked', 1, Len(asked'))
    BY <1>2
  <2>9. QED
    BY <1>2, <2>3, <2>5, <2>6, <2>7, <2>8 DEF StringInv, Str!Terminated
<1>6. QED
  BY <1>3, <1>4, <1>5 DEF Borrowed

\* string_copy: the bytes of a borrowed string have no place to go.
LEMMA CopyStep == ASSUME StringBounds, StringInv, ~overrun, Str!Copy PROVE StringInv'
<1>1. str' = [str EXCEPT !.owns = TRUE] /\ overrun' = (str.allocated = 0 /\ str.len > 0) /\ asked' = str.raw
  BY DEF Str!Copy
<1>2. /\ str'.raw = str.raw /\ str'.len = str.len /\ str'.allocated = str.allocated /\ str'.owns = TRUE
      /\ str' \in [raw : Seq(Char), len : 0..MaxLen, allocated : 0..MaxLen + Chunk, owns : BOOLEAN]
      /\ str.raw \in Seq(Char) /\ Len(str.raw) <= MaxLen
  BY <1>1 DEF StringInv
<1>3. QED
  <2>1. Str!Terminated'
    BY <1>2 DEF StringInv, Str!Terminated
  <2>2. overrun' \in BOOLEAN
    BY <1>1, Zenon
  <2>3. str.len = Len(str.raw) /\ str.raw = SubSeq(str.raw, 1, str.len)
    BY <1>2 DEF StringInv
  <2>4. QED
    BY <1>1, <1>2, <2>1, <2>2, <2>3 DEF StringInv
\* Every call keeps the invariant.
LEMMA StringStep == ASSUME StringBounds, StringInv, [Str!Next]_Str!vars PROVE StringInv'
<1>1. ASSUME NEW text \in Str!ArgText PROVE text \in Seq(Char) /\ Len(text) \in Nat /\ Len(text) <= 2
  <2>1. text \in Seq(Char) /\ Len(text) <= 2
    BY BoundedIs DEF Str!ArgText
  <2>2. Len(text) \in Nat
    BY <2>1
  <2>3. QED
    BY <2>1, <2>2
<1>2. ASSUME NEW text \in Str!ArgText, Str!From(text), ~overrun PROVE StringInv'
  <2>1. text \in Seq(Char) /\ Len(text) \in Nat /\ Len(text) <= 2
    BY <1>1
  <2>2. /\ Len(text) + 1 \in 0..MaxLen + Chunk /\ Len(text) < Len(text) + 1 /\ Len(text) <= MaxLen
    BY <2>1 DEF StringBounds
  <2>3. str' = [raw |-> text, len |-> Len(text), allocated |-> Len(text) + 1, owns |-> TRUE] /\ asked' = text
    BY <1>2 DEF Str!From, Str!Sized
  <2>4. overrun' \in BOOLEAN
    BY <1>2, Zenon DEF Str!From, StringInv
  <2>5. QED
    BY <2>1, <2>2, <2>3, <2>4, SizedStep
<1>3. ASSUME NEW text \in Str!ArgText, NEW own \in BOOLEAN, Str!Wrap(text, own), ~overrun PROVE StringInv'
  <2>1. text \in Seq(Char) /\ Len(text) \in Nat /\ Len(text) <= 2
    BY <1>1
  <2>2. 0 \in 0..MaxLen + Chunk /\ Len(text) <= MaxLen
    BY <2>1 DEF StringBounds
  <2>3. str' = [raw |-> text, len |-> Len(text), allocated |-> 0, owns |-> own] /\ asked' = text
    BY <1>3 DEF Str!Wrap, Str!Sized
  <2>4. overrun' \in BOOLEAN
    BY <1>3, Zenon DEF Str!Wrap, StringInv
  <2>5. QED
    BY <2>1, <2>2, <2>3, <2>4, SizedStep
<1>4. ASSUME NEW text \in Str!ArgText, NEW n \in 0..3, Str!Cat(text, n), ~overrun PROVE StringInv'
  <2>1. text \in Seq(Char) /\ Len(text) \in Nat /\ n \in Nat
    BY <1>1
  <2>2. PICK src : src = Str!Limit(text, n)
    OBVIOUS
  <2>3. src \in Seq(Char) /\ Len(src) <= Len(text) /\ Len(src) \in Nat
    BY <2>1, <2>2, LimitIs
  <2>4. src = IF n = 0 THEN text ELSE SubSeq(text, 1, Str!Least(n, Len(text)))
    BY <2>1, <2>2, LimitIs
  <2>5. Str!CatRaw(src) /\ Len(asked) + Len(text) <= MaxLen
    BY <1>4, <2>2 DEF Str!Cat
  <2>6. asked' = asked \o src
    BY <1>4, <2>4 DEF Str!Cat
  <2>7. Len(asked) + Len(src) <= MaxLen
    BY <2>1, <2>3, <2>5 DEF StringInv, StringBounds
  <2>8. QED
    BY <1>4, <2>3, <2>5, <2>6, <2>7, CatRawStep
<1>5. ASSUME NEW text \in Str!ArgText, NEW n \in 0..3, Str!Write(text, n), ~overrun PROVE StringInv'
  <2>1. text \in Seq(Char) /\ Len(text) \in Nat /\ n \in Nat
    BY <1>1
  <2>2. CASE n = 0
    BY <1>5, <2>2 DEF Str!Write, Str!vars, StringInv, Str!Terminated, Borrowed
  <2>3. CASE n # 0
    <3>1. PICK src : src = Str!Printed(text, n)
      OBVIOUS
    <3>2. src \in Seq(Char) /\ Len(src) <= Len(text) /\ Len(src) \in Nat
      BY <2>1, <2>3, <3>1, PrintedIs
    <3>3. Str!CatRaw(src) /\ asked' = asked \o src /\ Len(asked) + Len(text) <= MaxLen
      BY <1>5, <2>3, <3>1 DEF Str!Write
    <3>4. Len(asked) + Len(src) <= MaxLen
      BY <2>1, <3>2, <3>3 DEF StringInv, StringBounds
    <3>5. QED
      BY <1>5, <3>2, <3>3, <3>4, CatRawStep
  <2>4. QED
    BY <2>2, <2>3
<1>6. CASE UNCHANGED Str!vars
  BY <1>6 DEF Str!vars, StringInv, Str!Terminated, Borrowed
<1>7. QED
  BY <1>2, <1>3, <1>4, <1>5, <1>6, CopyStep DEF Str!Next

\* So it always holds.
LEMMA StringHolds == ASSUME StringBounds PROVE Str!Spec => []StringInv
<1>1. Str!Init => StringInv
  BY StringInit
<1>2. StringInv /\ [Str!Next]_Str!vars => StringInv'
  BY StringStep
<1>3. QED
  BY <1>1, <1>2, PTL DEF Str!Spec

\* Texts, lengths and sizes stay in their ranges.
THEOREM StringTypeOK == ASSUME StringBounds PROVE Str!Spec => []Str!TypeOK
<1>1. StringBounds /\ StringInv => Str!TypeOK
  <2> SUFFICES ASSUME StringBounds, StringInv PROVE Str!TypeOK
    OBVIOUS
  <2>1. str.raw \in Str!Text /\ asked \in Str!Text
    BY BoundedIs DEF StringBounds, StringInv, Str!Text
  <2>2. str \in [raw : Str!Text, len : 0..MaxLen, allocated : 0..MaxLen + Chunk, owns : BOOLEAN]
    BY <2>1 DEF StringInv
  <2>3. overrun \in BOOLEAN
    BY Zenon DEF StringInv
  <2>4. QED
    BY <2>1, <2>2, <2>3 DEF Str!TypeOK
<1>2. QED
  BY <1>1, StringHolds, PTL

\* A string with space of its own has place for its text and the null byte after it.
THEOREM StringTerminated == ASSUME StringBounds PROVE Str!Spec => []Str!Terminated
<1>1. StringInv => Str!Terminated
  BY DEF StringInv
<1>2. QED
  BY <1>1, StringHolds, PTL

\* The buffer holds what the calls asked for, in their order, and len is its length.
THEOREM StringHoldsAsked == ASSUME StringBounds PROVE Str!Spec => []Str!HoldsAsked
<1>1. StringBounds /\ StringInv => Str!HoldsAsked
  <2> SUFFICES ASSUME StringBounds, StringInv, ~overrun PROVE
        IF str.allocated = 0 /\ ~str.owns THEN Str!IsPrefix(str.raw, asked)
        ELSE str.raw = asked /\ str.len = Len(str.raw)
    BY DEF Str!HoldsAsked
  <2>1. Len(str.raw) <= Len(asked) /\ SubSeq(str.raw, 1, Len(str.raw)) = SubSeq(asked, 1, Len(str.raw))
    <3>1. str.raw \in Seq(Char) /\ str.len = Len(str.raw) /\ str.len <= Len(asked) /\ str.raw = SubSeq(asked, 1, str.len)
      BY DEF StringInv
    <3>2. SubSeq(str.raw, 1, Len(str.raw)) = str.raw
      BY <3>1
    <3>3. QED
      BY <3>1, <3>2
  <2>2. QED
    BY <2>1 DEF StringInv, Borrowed, Str!IsPrefix
<1>2. QED
  BY <1>1, StringHolds, PTL

\* All three at once.
THEOREM StringKept == ASSUME StringBounds PROVE Str!Spec => []StringsKept
BY StringTypeOK, StringTerminated, StringHoldsAsked, PTL DEF Str!StringsKept, StringsKept

----------------------------------------------------------------------------
\* The start of the server.

\* main asks for at least one connection.
StartBounds == ConnectionsCount \in Nat \ {0} /\ MaxOutages \in Nat /\ MaxNulls \in Nat

\* What has been made is a beginning of the array; a verdict of db_stat is about
\* slots that are up, and only an exit frees a connection.
StartInv ==
  /\ pc \in {"create", "connect"} => ~made /\ slot = 0 /\ all_ok
  /\ ~made => slot = 0 /\ \A s \in Start!Slots : connections[s] = "null"
  /\ pc = "start" => /\ slot >= 1 /\ \A s \in Start!Slots : connections[s] = (IF s < slot THEN "live" ELSE "null")
                     /\ made /\ all_ok
  /\ pc = "poll" /\ all_ok /\ made => \A s \in Start!Slots : s < slot => connections[s] = "live" /\ status[s] = "ok"
  /\ IF pc = "exited" THEN \A s \in Start!Slots : connections[s] \in {"null", "freed"}
                      ELSE \A s \in Start!Slots : connections[s] \in {"null", "live"}
  /\ Start!ServesWhenAllUp

\* Types, of the Boolean variables and of the others.
Flags == server \in BOOLEAN /\ made \in BOOLEAN /\ all_ok \in BOOLEAN
Fields ==
  /\ pc \in Start!PC
  /\ state \in {"not_connected", "connecting", "connected", "failed_connection"}
  /\ connections \in [Start!Slots -> {"null", "live", "freed", "freed_twice"}]
  /\ status \in [Start!Slots -> {"none", "pending", "ok", "failed"}]
  /\ slot \in 0..ConnectionsCount /\ outages \in 0..MaxOutages /\ nulls \in 0..MaxNulls

\* main begins.
LEMMA StartInit == ASSUME StartBounds, Start!Init PROVE Flags /\ Fields /\ StartInv
<1>1. Flags
  BY Zenon DEF Start!Init, Start!Fresh, Flags
<1>4. Fields
  BY DEF StartBounds, Start!Init, Start!Fresh, Fields, Start!PC, Start!Slots
<1>2. StartInv
  BY DEF StartBounds, Start!Init, Start!Fresh, StartInv, Start!ServesWhenAllUp
<1>3. QED
  BY <1>1, <1>2, <1>4

\* The Boolean variables stay Boolean.
LEMMA FlagsStep == ASSUME Flags, [Start!Next]_Start!vars PROVE Flags'
<1>1. CASE Start!Create \/ Start!ConnectFails \/ Start!ConnectFirst \/ Start!StartNext \/ Start!StartNull
           \/ Start!StartDone
  BY <1>1, Zenon DEF Flags, Start!Create, Start!ConnectFails, Start!ConnectFirst, Start!StartNext,
       Start!StartNull, Start!StartDone, Start!world, Start!local
<1>2. CASE Start!PollNull \/ Start!PollFailed \/ Start!PollSlot \/ Start!PollAgain \/ Start!Serve
           \/ Start!Destroy \/ Start!Restart
  BY <1>2, Zenon DEF Flags, Start!PollNull, Start!PollFailed, Start!PollSlot, Start!PollAgain, Start!Serve,
       Start!Destroy, Start!Restart, Start!world, Start!local
<1>3. CASE (\E s \in Start!Slots : Start!Decide(s)) \/ Start!Outage \/ Start!Recover \/ UNCHANGED Start!vars
  BY <1>3, Zenon DEF Flags, Start!Decide, Start!Outage, Start!Recover, Start!world, Start!local, Start!vars
<1>4. QED
  BY <1>1, <1>2, <1>3 DEF Start!Next, Start!Main

\* A step that leaves the connections alone, or changes one of them.
LEMMA StartStep ==
  ASSUME StartBounds, Fields, StartInv, [Start!Next]_Start!vars
  PROVE  Fields' /\ StartInv'
<1> USE DEF StartBounds, Fields, StartInv, Start!PC, Start!Slots, Start!ServesWhenAllUp, Start!world, Start!local
<1>1. CASE Start!Create
  BY <1>1 DEF Start!Create
<1>2. CASE Start!ConnectFails
  BY <1>2 DEF Start!ConnectFails
<1>3. CASE Start!ConnectFirst
  BY <1>3 DEF Start!ConnectFirst
<1>4. CASE Start!StartNext
  BY <1>4 DEF Start!StartNext
<1>5. CASE Start!StartNull
  BY <1>5 DEF Start!StartNull, Start!FreeMade, Start!PQfinish
<1>6. CASE Start!StartDone
  BY <1>6 DEF Start!StartDone
<1>7. CASE Start!PollNull
  BY <1>7 DEF Start!PollNull
<1>8. CASE Start!PollFailed
  BY <1>8 DEF Start!PollFailed
<1>9. CASE Start!PollSlot
  <2>1. Fields'
    <3>1. pc' \in Start!PC /\ state' \in {"not_connected", "connecting", "connected", "failed_connection"}
      BY <1>9 DEF Start!PollSlot
    <3>2. UNCHANGED <<connections, status>>
      BY <1>9 DEF Start!PollSlot
    <3>3. slot' \in 0..ConnectionsCount /\ outages' \in 0..MaxOutages /\ nulls' \in 0..MaxNulls
      BY <1>9 DEF Start!PollSlot
    <3>4. QED
      BY <3>1, <3>2, <3>3
  <2>2. StartInv'
    <3>1. UNCHANGED <<pc, made, state, connections, status>> /\ slot' = slot + 1 /\ pc = "poll" /\ made
      BY <1>9 DEF Start!PollSlot
    <3>2. all_ok' => all_ok /\ connections[slot] = "live" /\ status[slot] = "ok"
      <4>1. all_ok' => all_ok /\ status[slot] = "ok"
        BY <1>9, Zenon DEF Start!PollSlot
      <4>2. connections[slot] = "live"
        BY <1>9 DEF Start!PollSlot
      <4>3. QED
        BY <4>1, <4>2
    <3>3. QED
      BY <3>1, <3>2
  <2>3. QED
    BY <2>1, <2>2
<1>10. CASE Start!PollAgain
  BY <1>10 DEF Start!PollAgain
<1>11. CASE Start!Serve
  <2>1. Fields'
    <3>1. pc' \in Start!PC /\ state' \in {"not_connected", "connecting", "connected", "failed_connection"}
      BY <1>11 DEF Start!Serve
    <3>2. UNCHANGED <<connections, status>>
      BY <1>11 DEF Start!Serve
    <3>3. slot' \in 0..ConnectionsCount /\ outages' \in 0..MaxOutages /\ nulls' \in 0..MaxNulls
      BY <1>11 DEF Start!Serve
    <3>4. QED
      BY <3>1, <3>2, <3>3
  <2>2. StartInv'
    BY <1>11 DEF Start!Serve
  <2>3. QED
    BY <2>1, <2>2
<1>12. CASE Start!Destroy
  BY <1>12 DEF Start!Destroy, Start!PQfinish
<1>13. CASE Start!Restart
  <2>1. Fields'
    BY <1>13 DEF Start!Restart
  <2>2. StartInv'
    BY <1>13 DEF Start!Restart
  <2>3. QED
    BY <2>1, <2>2
<1>14. ASSUME NEW s \in Start!Slots, Start!Decide(s) PROVE Fields' /\ StartInv'
  BY <1>14 DEF Start!Decide
<1>15. CASE Start!Outage
  <2>1. Fields'
    BY <1>15 DEF Start!Outage
  <2>2. StartInv'
    BY <1>15 DEF Start!Outage
  <2>3. QED
    BY <2>1, <2>2
<1>16. CASE Start!Recover
  BY <1>16 DEF Start!Recover
<1>17. CASE UNCHANGED Start!vars
  BY <1>17 DEF Start!vars
<1>18. QED
  BY <1>1, <1>2, <1>3, <1>4, <1>5, <1>6, <1>7, <1>8, <1>9, <1>10, <1>11, <1>12, <1>13, <1>14,
     <1>15, <1>16, <1>17 DEF Start!Next, Start!Main
\* So the invariant always holds.
LEMMA StartHolds == ASSUME StartBounds PROVE Start!Spec => [](Flags /\ Fields /\ StartInv)
<1>1. Start!Init => Flags /\ Fields /\ StartInv
  BY StartInit
<1>2. Flags /\ Fields /\ StartInv /\ [Start!Next]_Start!vars => (Flags /\ Fields /\ StartInv)'
  BY FlagsStep, StartStep
<1>3. QED
  BY <1>1, <1>2, PTL DEF Start!Spec

\* The variables of the start keep their types.
THEOREM StartTypeOK == ASSUME StartBounds PROVE Start!Spec => []Start!TypeOK
<1>1. Flags /\ Fields => Start!TypeOK
  BY Zenon DEF Flags, Fields, Start!TypeOK
<1>2. QED
  BY <1>1, StartHolds, PTL

\* main serves only when the connection of every slot is made and up: for any number of
\* connections, however often the server goes away and calls return NULL.
THEOREM StartServesWhenAllUp == ASSUME StartBounds PROVE Start!Spec => []Start!ServesWhenAllUp
<1>1. StartInv => Start!ServesWhenAllUp
  BY DEF StartInv
<1>2. QED
  BY <1>1, StartHolds, PTL

\* No connection is freed twice, polled after it was freed or left by the exit.
THEOREM StartFreedOnce == ASSUME StartBounds PROVE Start!Spec => []Start!FreedOnce
<1>1. StartBounds /\ Fields /\ StartInv => Start!FreedOnce
  BY DEF StartBounds, Fields, StartInv, Start!FreedOnce, Start!Slots
<1>2. QED
  BY <1>1, StartHolds, PTL

----------------------------------------------------------------------------
\* The root process and its workers.

\* Workers counts with its own copy of FiniteSets.
LEMMA ProcsCount == \A S : Procs!Cardinality(S) = Cardinality(S)
BY DEF Procs!Cardinality, Cardinality

\* fio_start is told a number of workers.
WorkersBounds == WorkerCount \in Nat /\ MaxForks \in Nat

\* Types, of the Boolean variables and of the others.
ProcessFlags ==
  /\ active \in BOOLEAN /\ signalled \in BOOLEAN
  /\ wactive \in [Procs!Worker -> BOOLEAN] /\ saved \in [Procs!Worker -> BOOLEAN]
ProcessFields ==
  /\ root \in {"setup", "cycle", "fork", "close", "wait"} \union Procs!Gone
  /\ left \in 0..WorkerCount /\ respawn \in Nat /\ forks \in 0..MaxForks
  /\ worker \in [Procs!Worker -> {"none", "forked", "purge", "connect", "cycle"} \union Procs!Ended]
  /\ link \in [Procs!Worker -> {"none", "backlog", "open", "closed"}]
  /\ told \subseteq 1..forks /\ reaped \subseteq 1..forks

\* Workers are numbered as they are forked, one that was waited for has ended, the
\* root is done only when it has waited for all, and a single worker is the root.
ProcessInv ==
  /\ \A w \in Procs!Worker : worker[w] = "none" <=> w > forks
  /\ \A w \in Procs!Worker : link[w] # "none" => w <= forks
  /\ \A w \in reaped : worker[w] \in Procs!Ended
  /\ root = "done" => 1..forks \subseteq reaped
  /\ WorkerCount <= 1 => left = 0 /\ respawn = 0 /\ forks = 0 /\ root # "fork"

\* The root begins alone.
LEMMA ProcessInit == ASSUME WorkersBounds, Procs!Init PROVE ProcessFlags /\ ProcessFields /\ ProcessInv /\ Procs!NeverTooMany
<1>1. ProcessFlags
  BY Zenon DEF Procs!Init, ProcessFlags
<1>2. ProcessFields
  BY DEF WorkersBounds, Procs!Init, ProcessFields, Procs!Worker, Procs!Gone, Procs!Ended
<1>3. ProcessInv
  BY DEF WorkersBounds, Procs!Init, ProcessInv, Procs!Worker
<1>4. Procs!NeverTooMany
  <2>1. 1..forks \ reaped = {}
    BY DEF Procs!Init
  <2>2. QED
    BY <2>1, FS_EmptySet, ProcsCount DEF WorkersBounds, Procs!Init, Procs!NeverTooMany
<1>5. QED
  BY <1>1, <1>2, <1>3, <1>4

\* The Boolean variables stay Boolean.
LEMMA ProcessFlagsStep == ASSUME ProcessFlags, [Procs!Next]_Procs!vars PROVE ProcessFlags'
<1> USE DEF ProcessFlags, Procs!Wvars, Procs!Rvars
<1>1. CASE Procs!RootStep \/ Procs!Kill \/ UNCHANGED Procs!vars
  <2>1. CASE Procs!Fork
    BY <2>1, Zenon DEF Procs!Fork
  <2>2. CASE Procs!Activate \/ Procs!Sentinel \/ Procs!Shutdown \/ Procs!CloseAll \/ Procs!Finish
             \/ Procs!Kill \/ UNCHANGED Procs!vars
    BY <2>2, Zenon DEF Procs!Activate, Procs!Sentinel, Procs!Shutdown, Procs!CloseAll, Procs!Finish,
         Procs!Kill, Procs!vars
  <2>3. QED
    BY <1>1, <2>1, <2>2 DEF Procs!RootStep
<1>2. CASE Procs!Signal
  BY <1>2, Zenon DEF Procs!Signal
<1>3. ASSUME NEW w \in Procs!Worker, Procs!WorkerStep(w) \/ Procs!AcceptLink(w) \/ Procs!Reap(w) \/ Procs!Crash(w)
      PROVE  ProcessFlags'
  <2>1. CASE Procs!SetAside(w)
    BY <2>1, Zenon DEF Procs!SetAside
  <2>2. CASE Procs!PutBack(w)
    BY <2>2, Zenon DEF Procs!PutBack
  <2>3. CASE Procs!Connect(w)
    BY <2>3, Zenon DEF Procs!Connect, Procs!RefusedStops
  <2>4. CASE Procs!Told(w) \/ Procs!LinkLost(w) \/ Procs!Exit(w)
    BY <2>4, Zenon DEF Procs!Told, Procs!LinkLost, Procs!Exit
  <2>5. CASE Procs!AcceptLink(w) \/ Procs!Reap(w) \/ Procs!Crash(w)
    BY <2>5, Zenon DEF Procs!AcceptLink, Procs!Reap, Procs!Crash
  <2>6. QED
    BY <1>3, <2>1, <2>2, <2>3, <2>4, <2>5 DEF Procs!WorkerStep
<1>4. QED
  BY <1>1, <1>2, <1>3, Zenon DEF Procs!Next

\* The steps of the root, of its parent and of a signal.
LEMMA ProcessRootStep ==
  ASSUME WorkersBounds, ProcessFields, ProcessInv, Procs!RootStep \/ Procs!Signal \/ Procs!Kill \/ UNCHANGED Procs!vars
  PROVE  ProcessFields' /\ ProcessInv'
<1> USE DEF WorkersBounds, ProcessFields, ProcessInv, Procs!Wvars, Procs!Rvars, Procs!Gone, Procs!Ended, Procs!Worker
<1>1. CASE Procs!Activate
  BY <1>1 DEF Procs!Activate
<1>2. CASE Procs!Sentinel
  BY <1>2 DEF Procs!Sentinel, Procs!ToStart
<1>3. CASE Procs!Fork
  <2>1. ProcessFields'
    BY <1>3 DEF Procs!Fork
  <2>2. ProcessInv'
    BY <1>3 DEF Procs!Fork
  <2>3. QED
    BY <2>1, <2>2
<1>4. CASE Procs!Shutdown
  <2>1. told' \subseteq 1..forks
    <3>1. {w \in Procs!Worker : link[w] = "open"} \subseteq 1..forks
      OBVIOUS
    <3>2. QED
      BY <1>4, <3>1, Zenon DEF Procs!Shutdown
  <2>2. UNCHANGED <<left, respawn, forks, worker, link, reaped>> /\ root' = "close"
    BY <1>4 DEF Procs!Shutdown
  <2>3. QED
    BY <2>1, <2>2
<1>5. CASE Procs!CloseAll
  <2>1. link' \in [Procs!Worker -> {"none", "backlog", "open", "closed"}]
    BY <1>5 DEF Procs!CloseAll
  <2>2. \A w \in Procs!Worker : link'[w] # "none" => link[w] # "none"
    BY <1>5 DEF Procs!CloseAll
  <2>3. QED
    BY <1>5, <2>1, <2>2 DEF Procs!CloseAll
<1>6. CASE Procs!Finish
  BY <1>6 DEF Procs!Finish, Procs!Waited
<1>7. CASE Procs!Signal
  BY <1>7 DEF Procs!Signal
<1>8. CASE Procs!Kill
  <2>1. link' \in [Procs!Worker -> {"none", "backlog", "open", "closed"}]
    BY <1>8 DEF Procs!Kill
  <2>2. \A w \in Procs!Worker : link'[w] # "none" => link[w] # "none"
    BY <1>8 DEF Procs!Kill
  <2>3. QED
    BY <1>8, <2>1, <2>2 DEF Procs!Kill
<1>9. CASE UNCHANGED Procs!vars
  BY <1>9 DEF Procs!vars
<1>10. QED
  BY <1>1, <1>2, <1>3, <1>4, <1>5, <1>6, <1>7, <1>8, <1>9 DEF Procs!RootStep

\* The steps of a worker and of those who wait for it.
LEMMA ProcessWorkerStep ==
  ASSUME WorkersBounds, ProcessFields, ProcessInv,
         NEW w \in Procs!Worker, Procs!WorkerStep(w) \/ Procs!AcceptLink(w) \/ Procs!Reap(w) \/ Procs!Crash(w)
  PROVE  ProcessFields' /\ ProcessInv'
<1> USE DEF WorkersBounds, ProcessFields, ProcessInv, Procs!Wvars, Procs!Rvars, Procs!Gone, Procs!Ended, Procs!Worker
<1>1. CASE Procs!SetAside(w)
  BY <1>1 DEF Procs!SetAside
<1>2. CASE Procs!PutBack(w)
  BY <1>2 DEF Procs!PutBack
<1>3. CASE Procs!Connect(w)
  BY <1>3 DEF Procs!Connect
<1>4. CASE Procs!Told(w)
  BY <1>4 DEF Procs!Told
<1>5. CASE Procs!LinkLost(w)
  BY <1>5 DEF Procs!LinkLost
<1>6. CASE Procs!Exit(w)
  BY <1>6 DEF Procs!Exit
<1>7. CASE Procs!AcceptLink(w)
  BY <1>7 DEF Procs!AcceptLink
<1>8. CASE Procs!Reap(w)
  BY <1>8 DEF Procs!Reap, Procs!Respawns
<1>9. CASE Procs!Crash(w)
  BY <1>9 DEF Procs!Crash, Procs!Alive
<1>10. QED
  BY <1>1, <1>2, <1>3, <1>4, <1>5, <1>6, <1>7, <1>8, <1>9 DEF Procs!WorkerStep

\* A worker is counted from the task that forks it to the wait for its end, and
\* then by the task that replaces it.
LEMMA CountStep ==
  ASSUME WorkersBounds, ProcessFields, ProcessInv, Procs!NeverTooMany, [Procs!Next]_Procs!vars
  PROVE  Procs!NeverTooMany'
<1> USE DEF WorkersBounds, ProcessFields, Procs!Wvars, Procs!Rvars
<1>1. IsFiniteSet(1..forks \ reaped) /\ Cardinality(1..forks \ reaped) \in Nat
  <2>1. IsFiniteSet(1..forks)
    BY FS_Interval
  <2>2. 1..forks \ reaped \in SUBSET (1..forks)
    OBVIOUS
  <2>3. IsFiniteSet(1..forks \ reaped)
    BY <2>1, <2>2, FS_Subset
  <2>4. QED
    BY <2>3, FS_CardinalityType
<1>2. CASE Procs!Fork
  <2>1. forks' = forks + 1 /\ reaped' = reaped /\ root = "fork" /\ root' = "cycle"
        /\ left' = left /\ respawn' = respawn
    BY <1>2 DEF Procs!Fork
  <2>2. 1..forks' \ reaped' = (1..forks \ reaped) \union {forks + 1} /\ forks + 1 \notin 1..forks \ reaped
    BY <2>1
  <2>3. Cardinality(1..forks' \ reaped') = Cardinality(1..forks \ reaped) + 1
    BY <1>1, <2>2, FS_AddElement
  <2>4. QED
    BY <1>1, <2>1, <2>3, ProcsCount DEF Procs!NeverTooMany
<1>3. ASSUME NEW w \in Procs!Worker, Procs!Reap(w) PROVE Procs!NeverTooMany'
  <2>1. w \in 1..forks \ reaped
    BY <1>3 DEF Procs!Reap, ProcessInv, Procs!Worker, Procs!Ended
  <2>2. 1..forks' \ reaped' = (1..forks \ reaped) \ {w}
    BY <1>3 DEF Procs!Reap
  <2>3. Cardinality(1..forks' \ reaped') = Cardinality(1..forks \ reaped) - 1
    <3>1. \A S : IsFiniteSet(S) /\ w \in S => Cardinality(S \ {w}) = Cardinality(S) - 1
      BY FS_RemoveElement, Zenon
    <3>2. QED
      BY <1>1, <2>1, <2>2, <3>1, Zenon
  <2>4. root' = root /\ left' = left /\ respawn' \in {respawn, respawn + 1}
    BY <1>3 DEF Procs!Reap, Procs!Respawns
  <2>5. QED
    BY <1>1, <2>3, <2>4, ProcsCount DEF Procs!NeverTooMany
<1>4. CASE Procs!Sentinel
  <2>1. forks' = forks /\ reaped' = reaped /\ root = "cycle" /\ root' \in {"fork", "cycle"}
    BY <1>4 DEF Procs!Sentinel
  <2>2. left' + respawn' = left + respawn - 1 /\ left' \in Nat /\ respawn' \in Nat
    BY <1>4 DEF Procs!Sentinel, Procs!ToStart
  <2>3. Cardinality(1..forks' \ reaped') = Cardinality(1..forks \ reaped)
    BY <2>1
  <2>4. left + respawn + Cardinality(1..forks \ reaped) <= WorkerCount
    BY <2>1, <1>1, ProcsCount DEF Procs!NeverTooMany
  <2>5. QED
    <3>1. \A a, b, c, d, n \in Nat, w \in Nat :
            a + b = c + d - 1 /\ c + d + n <= w =>
              a + b + 1 + n <= w /\ a + b + 0 + n <= w
      OBVIOUS
    <3>2. left' + respawn' + 1 + Cardinality(1..forks \ reaped) <= WorkerCount
          /\ left' + respawn' + 0 + Cardinality(1..forks \ reaped) <= WorkerCount
      <4>1. left \in Nat /\ respawn \in Nat /\ WorkerCount \in Nat
        OBVIOUS
      <4>2. QED
        BY <1>1, <2>2, <2>4, <3>1, <4>1, Zenon
    <3>3. QED
      BY <2>1, <2>3, <3>2, ProcsCount DEF Procs!NeverTooMany
<1>5. ASSUME UNCHANGED <<left, respawn, forks, reaped>>, root' = root \/ root' # "fork"
      PROVE  Procs!NeverTooMany'
  BY <1>1, <1>5, ProcsCount DEF Procs!NeverTooMany
<1>6. CASE Procs!Activate \/ Procs!Shutdown \/ Procs!CloseAll \/ Procs!Finish \/ Procs!Signal
           \/ Procs!Kill \/ UNCHANGED Procs!vars
  <2>1. UNCHANGED <<left, respawn, forks, reaped>>
    BY <1>6 DEF Procs!Activate, Procs!Shutdown, Procs!CloseAll, Procs!Finish, Procs!Signal, Procs!Kill,
         Procs!vars
  <2>2. root' = root \/ root' # "fork"
    BY <1>6 DEF Procs!Activate, Procs!Shutdown, Procs!CloseAll, Procs!Finish, Procs!Signal, Procs!Kill,
         Procs!vars
  <2>3. QED
    BY <1>5, <2>1, <2>2
<1>7. ASSUME NEW w \in Procs!Worker, Procs!WorkerStep(w) \/ Procs!AcceptLink(w) \/ Procs!Crash(w) PROVE Procs!NeverTooMany'
  <2>1. UNCHANGED <<root, left, respawn, forks, reaped>>
    BY <1>7 DEF Procs!WorkerStep, Procs!SetAside, Procs!PutBack, Procs!Connect, Procs!Told, Procs!LinkLost,
         Procs!Exit, Procs!AcceptLink, Procs!Crash
  <2>2. QED
    BY <1>5, <2>1
<1>8. QED
  BY <1>2, <1>3, <1>4, <1>6, <1>7 DEF Procs!Next, Procs!RootStep

\* So the invariant and the bound always hold.
LEMMA ProcessHolds ==
  ASSUME WorkersBounds PROVE Procs!Spec => [](ProcessFlags /\ ProcessFields /\ ProcessInv /\ Procs!NeverTooMany)
<1>1. Procs!Init => ProcessFlags /\ ProcessFields /\ ProcessInv /\ Procs!NeverTooMany
  BY ProcessInit
<1>2. ProcessFields /\ ProcessInv /\ [Procs!Next]_Procs!vars => ProcessFields' /\ ProcessInv'
  BY ProcessRootStep, ProcessWorkerStep DEF Procs!Next
<1>3. ProcessFlags /\ ProcessFields /\ ProcessInv /\ Procs!NeverTooMany /\ [Procs!Next]_Procs!vars
        => (ProcessFlags /\ ProcessFields /\ ProcessInv /\ Procs!NeverTooMany)'
  BY <1>2, ProcessFlagsStep, CountStep
<1>4. QED
  BY <1>1, <1>3, PTL DEF Procs!Spec

\* The variables of the processes keep their types.
THEOREM WorkersTypeOK == ASSUME WorkersBounds PROVE Procs!Spec => []Procs!TypeOK
<1>1. ProcessFlags /\ ProcessFields /\ ProcessInv => Procs!TypeOK
  <2> SUFFICES ASSUME ProcessFlags, ProcessFields, ProcessInv PROVE Procs!TypeOK
    OBVIOUS
  <2>1. {active, signalled} \subseteq BOOLEAN
    BY Zenon DEF ProcessFlags
  <2>2. \A w \in Procs!Worker : {wactive[w], saved[w]} \subseteq BOOLEAN
    BY Zenon DEF ProcessFlags
  <2>3. QED
    BY <2>1, <2>2, Zenon DEF ProcessFields, ProcessInv, Procs!TypeOK
<1>2. QED
  BY <1>1, ProcessHolds, PTL

\* However workers crash and are respawned, there are never more of them, running or
\* asked for, than fio_start was told.
THEOREM WorkersNeverTooMany == ASSUME WorkersBounds PROVE Procs!Spec => []Procs!NeverTooMany
BY ProcessHolds, PTL

\* When fio_start returns, no worker is left behind.
THEOREM WorkersNoneLeftBehind == ASSUME WorkersBounds PROVE Procs!Spec => []Procs!NoneLeftBehind
<1>1. WorkersBounds /\ ProcessFields /\ ProcessInv => Procs!NoneLeftBehind
  BY DEF WorkersBounds, ProcessFields, ProcessInv, Procs!NoneLeftBehind, Procs!Alive, Procs!Ended, Procs!Worker
<1>2. QED
  BY <1>1, ProcessHolds, PTL

----------------------------------------------------------------------------
\* The end of a process.

\* WindDown counts with its own copy of FiniteSets.
LEMMA WindCount == \A S : Wind!Cardinality(S) = Cardinality(S)
BY DEF Wind!Cardinality, Cardinality

\* Descriptors, packets and seconds are numbers.
WindBounds == MaxFd \in Nat /\ MaxUnsent \in Nat /\ Grace \in Nat

\* Connections can be put in order.
Sorts(S) == {s \in [1..Cardinality(S) -> S] : Wind!ToSet(s) = S /\ \A i, j \in DOMAIN s : i < j => s[i] < s[j]}
Sortable(m) == \A S \in SUBSET (1..m) : Sorts(S) # {}

\* By the least number for which it fails, which is not 0 and not one more than another.
LEMMA SortableNone == Sortable(0)
<1>1. SUFFICES ASSUME NEW S \in SUBSET (1..0) PROVE Sorts(S) # {}
  BY DEF Sortable
<1>2. S = {} /\ Cardinality(S) = 0
  <2>1. S = {}
    OBVIOUS
  <2>2. QED
    BY <2>1, FS_EmptySet, Zenon
<1>3. [i \in 1..0 |-> 0] \in Sorts(S)
  BY <1>2 DEF Sorts, Wind!ToSet
<1>4. QED
  BY <1>3

LEMMA SortableMore == ASSUME NEW k \in Nat, Sortable(k) PROVE Sortable(k + 1)
<1>1. SUFFICES ASSUME NEW S \in SUBSET (1..k + 1) PROVE Sorts(S) # {}
  BY DEF Sortable
<1>2. CASE k + 1 \notin S
  <2>1. S \in SUBSET (1..k)
    BY <1>2
  <2>2. QED
    BY <2>1 DEF Sortable
<1>3. CASE k + 1 \in S
  <2> DEFINE T == S \ {k + 1}
  <2>1. T \in SUBSET (1..k)
    OBVIOUS
  <2>2. PICK t : t \in Sorts(T)
    BY <2>1 DEF Sortable
  <2>3. IsFiniteSet(1..k)
    BY FS_Interval
  <2>4. IsFiniteSet(T)
    BY <2>1, <2>3, FS_Subset
  <2>5. PICK n \in Nat : n = Cardinality(T)
    BY <2>4, FS_CardinalityType
  <2>6. S = T \union {k + 1} /\ k + 1 \notin T
    BY <1>3
  <2>7. Cardinality(S) = n + 1
    BY <2>4, <2>5, <2>6, FS_AddElement
  <2>8. /\ t \in [1..n -> T] /\ {t[i] : i \in 1..n} = T
        /\ \A i, j \in 1..n : i < j => t[i] < t[j]
    BY <2>2, <2>5 DEF Sorts, Wind!ToSet
  <2> DEFINE s == [i \in 1..n + 1 |-> IF i <= n THEN t[i] ELSE k + 1]
  <2> HIDE DEF T
  <2>9. s \in [1..n + 1 -> S]
    BY <2>6, <2>8
  <2>10. \A i, j \in 1..n + 1 : i < j => s[i] < s[j]
    <3>1. \A i \in 1..n : t[i] \in 1..k
      BY <2>1, <2>8
    <3>2. TAKE i, j \in 1..n + 1
    <3>3. CASE i < j /\ j <= n
      BY <2>8, <3>3
    <3>4. CASE i < j /\ j > n
      BY <3>1, <3>4
    <3>5. QED
      BY <3>3, <3>4
  <2>11. {s[i] : i \in 1..n + 1} = S
    <3>1. \A i \in 1..n + 1 : s[i] \in S
      BY <2>9
    <3>2. ASSUME NEW x \in S PROVE \E i \in 1..n + 1 : s[i] = x
      <4>1. CASE x \in T
        <5>1. PICK i \in 1..n : t[i] = x
          BY <2>8, <4>1
        <5>2. QED
          BY <5>1
      <4>2. CASE x = k + 1
        <5>1. n + 1 \in 1..n + 1 /\ s[n + 1] = k + 1
          OBVIOUS
        <5>2. QED
          BY <4>2, <5>1
      <4>3. QED
        BY <2>6, <4>1, <4>2
    <3>3. QED
      BY <3>1, <3>2
  <2> HIDE DEF s
  <2>12. DOMAIN s = 1..n + 1
    BY <2>9
  <2>13. s \in Sorts(S)
    BY <2>7, <2>9, <2>10, <2>11, <2>12 DEF Sorts, Wind!ToSet
  <2>14. QED
    BY <2>13
<1>4. QED
  BY <1>2, <1>3

\* The order of WindDown exists, and loses and repeats nobody.
LEMMA InOrderIs ==
  ASSUME WindBounds, NEW S \in SUBSET Wind!Fd
  PROVE  /\ Wind!InOrder(S) \in Seq(S) /\ Wind!ToSet(Wind!InOrder(S)) = S
         /\ \A i, j \in DOMAIN Wind!InOrder(S) : i < j => Wind!InOrder(S)[i] < Wind!InOrder(S)[j]
<1>1. Sortable(MaxFd)
  <2> DEFINE Bad == {m \in Nat : ~Sortable(m)}
  <2>1. SUFFICES ASSUME Bad # {} PROVE FALSE
    BY DEF WindBounds
  <2>2. PICK m \in Bad : \A k \in Bad : m <= k
    BY <2>1, LeastNumber
  <2>3. m # 0
    BY <2>2, SortableNone
  <2>4. m - 1 \in Nat /\ m - 1 \notin Bad /\ m = (m - 1) + 1
    BY <2>2, <2>3
  <2>5. Sortable((m - 1) + 1)
    BY <2>4, SortableMore
  <2>6. QED
    BY <2>2, <2>4, <2>5
<1>2. Sorts(S) # {}
  BY <1>1 DEF Sortable, Wind!Fd
<1>3. Wind!InOrder(S) \in Sorts(S)
  BY <1>2, WindCount DEF Wind!InOrder, Sorts
<1>4. IsFiniteSet(S)
  <2>1. IsFiniteSet(Wind!Fd)
    BY FS_Interval DEF Wind!Fd, WindBounds
  <2>2. QED
    BY <2>1, FS_Subset
<1>5. Cardinality(S) \in Nat
  BY <1>4, FS_CardinalityType
<1>6. QED
  BY <1>3, <1>5 DEF Sorts

\* One task for each connection.
LEMMA AsTasksIs ==
  ASSUME WindBounds, NEW S \in SUBSET Wind!Fd, NEW do
  PROVE  /\ Wind!AsTasks(do, S) \in Seq([do : {do}, c : S])
         /\ \A c \in S : \E i \in DOMAIN Wind!AsTasks(do, S) : Wind!AsTasks(do, S)[i] = Wind!Task(do, c)
         /\ \A i, j \in DOMAIN Wind!AsTasks(do, S) : i < j => Wind!AsTasks(do, S)[i].c # Wind!AsTasks(do, S)[j].c
<1>1. PICK s : s = Wind!InOrder(S)
  OBVIOUS
<1>2. s \in Seq(S) /\ Wind!ToSet(s) = S /\ \A i, j \in DOMAIN s : i < j => s[i] < s[j]
  BY <1>1, InOrderIs
<1>3. Wind!AsTasks(do, S) = [i \in DOMAIN s |-> Wind!Task(do, s[i])]
  BY <1>1 DEF Wind!AsTasks
<1>4. \A c \in S : \E i \in DOMAIN s : s[i] = c
  BY <1>2 DEF Wind!ToSet
<1>5. Wind!AsTasks(do, S) \in Seq([do : {do}, c : S])
  <2>1. PICK n \in Nat : n = Len(s) /\ DOMAIN s = 1..n
    BY <1>2
  <2>2. \A i \in 1..n : Wind!Task(do, s[i]) \in [do : {do}, c : S]
    BY <1>2, <2>1 DEF Wind!Task
  <2>3. Wind!AsTasks(do, S) \in [1..n -> [do : {do}, c : S]]
    BY <1>3, <2>1, <2>2, Zenon
  <2>4. \A X : \A f \in [1..n -> X] : f \in Seq(X)
    OBVIOUS
  <2>5. QED
    BY <2>3, <2>4, Zenon
<1>6. \A c \in S : \E i \in DOMAIN Wind!AsTasks(do, S) : Wind!AsTasks(do, S)[i] = Wind!Task(do, c)
  BY <1>3, <1>4
<1>7. \A i, j \in DOMAIN Wind!AsTasks(do, S) : i < j => Wind!AsTasks(do, S)[i].c # Wind!AsTasks(do, S)[j].c
  <2>1. \A i \in DOMAIN s : Wind!AsTasks(do, S)[i].c = s[i]
    BY <1>3 DEF Wind!Task
  <2>2. \A i \in DOMAIN s : s[i] \in Nat
    <3>1. \A i \in DOMAIN s : s[i] \in S
      BY <1>2
    <3>2. S \subseteq Nat
      BY DEF Wind!Fd, WindBounds
    <3>3. QED
      BY <3>1, <3>2
  <2>3. \A i, j \in DOMAIN s : i < j => s[i] # s[j]
    BY <1>2, <2>2
  <2>4. DOMAIN Wind!AsTasks(do, S) = DOMAIN s
    BY <1>3
  <2>5. QED
    BY <2>1, <2>3, <2>4, Zenon
<1>8. QED
  BY <1>5, <1>6, <1>7

----------------------------------------------------------------------------
\* The tasks of the two queues.
QTask == [do : {"shutdown", "unwind", "review", "ping"}, c : 0..MaxFd]
UTask == [do : {"ready"}, c : Wind!Fd]

\* The connections that are to be told, in a queue; and whether fio_cycle_unwind is in it.
ToTell(q) == {c \in Wind!Fd : \E i \in DOMAIN q : q[i] = Wind!Task("shutdown", c)}
Unwinds(q) == \E i \in DOMAIN q : q[i].do = "unwind"

\* They are told first, and each once.
Ordered(q) ==
    \A i, j \in DOMAIN q :
        i < j /\ q[j].do = "shutdown" => q[i].do = "shutdown" /\ q[i].c # q[j].c

\* Tasks that tell nobody.
Quiet(q) == q \in Seq(QTask) /\ \A i \in DOMAIN q : q[i].do # "shutdown"

\* Types, of the Boolean variables and of the others.
WindFlags ==
    /\ need_review \in BOOLEAN /\ new_second \in BOOLEAN /\ stray \in BOOLEAN
    /\ open \in [Wind!Fd -> BOOLEAN] /\ closing \in [Wind!Fd -> BOOLEAN] /\ counted \in [Wind!Fd -> BOOLEAN]
    /\ armed \in [Wind!Fd -> BOOLEAN] /\ room \in [Wind!Fd -> BOOLEAN] /\ hung \in [Wind!Fd -> BOOLEAN]

WindFields ==
    /\ links \subseteq Wind!Fd /\ cut \subseteq Wind!Fd
    /\ unsent \in [Wind!Fd -> 0..MaxUnsent] /\ age \in [Wind!Fd -> 0..Grace + 1]
    /\ stage \in {"unwinding", "closed"}
    /\ queue \in Seq(QTask) /\ urgent \in Seq(UTask)

\* A connection that is open is to be told, or was and counted, or is a link. One that
\* was counted has still to send, and closes when it has sent; a poll or a task is to
\* go on with it.
Open(c) ==
    /\ open[c] => c \in ToTell(queue) \/ counted[c] \/ c \in links
    /\ c \in ToTell(queue) => open[c] /\ ~counted[c] /\ \A i \in DOMAIN urgent : urgent[i].c # c
    /\ counted[c] => c \notin links
    /\ c \in links => unsent[c] = 0
    /\ open[c] /\ counted[c] =>
         /\ closing[c] /\ unsent[c] > 0
         /\ armed[c] \/ \E i \in DOMAIN urgent : urgent[i] = Wind!Task("ready", c)

\* The connections that were told and counted, and those of them that still have to send.
Counted == {c \in Wind!Fd : counted[c]}
Waiting == {c \in Wind!Fd : open[c] /\ counted[c]}

\* connection_count, as long as no link has been counted down.
CountInv ==
    /\ count \in Nat /\ count <= Cardinality(Counted)
    /\ ~stray => count = Cardinality(Waiting)

\* Nobody is waited for when fio_cycle_unwind is not to run again.
EndInv ==
    /\ ~Unwinds(queue) => ToTell(queue) = {} /\ (stray \/ Waiting = {})
    /\ cut # {} => stray

\* The invariant of the end of a process.
WindInv == WindFields /\ Ordered(queue) /\ (\A c \in Wind!Fd : Open(c)) /\ CountInv /\ EndInv

----------------------------------------------------------------------------
\* Where the elements of two sequences are when they are put together.
LEMMA JoinedAt ==
  ASSUME NEW S, NEW x \in Seq(S), NEW y \in Seq(S)
  PROVE  /\ x \o y \in Seq(S) /\ Len(x \o y) = Len(x) + Len(y)
         /\ \A i \in 1..Len(x) : (x \o y)[i] = x[i]
         /\ \A i \in 1..Len(y) : (x \o y)[Len(x) + i] = y[i]
<1>1. x \o y \in Seq(S) /\ Len(x \o y) = Len(x) + Len(y)
  OBVIOUS
<1>2. \A i \in 1..Len(x) : (x \o y)[i] = x[i]
  OBVIOUS
<1>3. \A i \in 1..Len(y) : (x \o y)[Len(x) + i] = y[i]
  OBVIOUS
<1>4. QED
  BY <1>1, <1>2, <1>3

\* A queue without its first task, with others behind it that tell nobody.
LEMMA TakenFrom ==
  ASSUME WindBounds, NEW q \in Seq(QTask), q # <<>>, Ordered(q), NEW more, Quiet(more),
         NEW r, r = Tail(q) \o more
  PROVE  /\ r \in Seq(QTask) /\ Ordered(r)
         /\ Head(q).do # "shutdown" => ToTell(q) = {} /\ ToTell(r) = {}
         /\ \A c \in Wind!Fd : Head(q) = Wind!Task("shutdown", c) => c \in ToTell(q) /\ ToTell(r) = ToTell(q) \ {c}
         /\ Unwinds(q) /\ Head(q).do # "unwind" => Unwinds(r)
         /\ Unwinds(more) => Unwinds(r)
<1> DEFINE n == Len(q)
           k == Len(more)
<1>1. n \in Nat /\ n >= 1 /\ k \in Nat /\ DOMAIN q = 1..n /\ DOMAIN more = 1..k
      /\ more \in Seq(QTask) /\ Head(q) = q[1]
  BY DEF Quiet
<1>2. /\ r \in Seq(QTask) /\ DOMAIN r = 1..n - 1 + k
      /\ \A i \in 1..n - 1 : r[i] = q[i + 1]
      /\ \A i \in 1..k : r[n - 1 + i] = more[i]
  <2>1. Tail(q) \in Seq(QTask) /\ Len(Tail(q)) = n - 1 /\ \A i \in 1..n - 1 : Tail(q)[i] = q[i + 1]
    OBVIOUS
  <2>2. PICK t : t = Tail(q)
    OBVIOUS
  <2>3. r = t \o more /\ t \in Seq(QTask) /\ Len(t) = n - 1 /\ \A i \in 1..n - 1 : t[i] = q[i + 1]
    BY <2>1, <2>2, Zenon
  <2> HIDE DEF n
  <2>4. /\ r \in Seq(QTask) /\ Len(r) = Len(t) + Len(more)
        /\ \A i \in 1..Len(t) : r[i] = t[i]
        /\ \A i \in 1..Len(more) : r[Len(t) + i] = more[i]
    <3>1. t \in Seq(QTask) /\ more \in Seq(QTask)
      BY <1>1, <2>3
    <3>2. /\ t \o more \in Seq(QTask) /\ Len(t \o more) = Len(t) + Len(more)
          /\ \A i \in 1..Len(t) : (t \o more)[i] = t[i]
          /\ \A i \in 1..Len(more) : (t \o more)[Len(t) + i] = more[i]
      BY <3>1, JoinedAt
    <3>3. QED
      BY <2>3, <3>2, Zenon
  <2>5. Len(r) = n - 1 + k /\ (\A i \in 1..n - 1 : r[i] = t[i]) /\ \A i \in 1..k : r[n - 1 + i] = more[i]
    BY <2>3, <2>4, Zenon
  <2>6. DOMAIN r = 1..n - 1 + k
    BY <2>4, <2>5
  <2>7. QED
    BY <2>3, <2>4, <2>5, <2>6, Zenon
<1> HIDE DEF n, k
<1>3. \A i \in 1..n - 1 + k : i \in 1..n - 1 \/ \E j \in 1..k : i = n - 1 + j
  <2>1. TAKE i \in 1..n - 1 + k
  <2>2. CASE i > n - 1
    <3>1. i - (n - 1) \in 1..k /\ i = n - 1 + (i - (n - 1))
      BY <1>1, <2>2
    <3>2. QED
      BY <3>1
  <2>3. QED
    BY <1>1, <2>2
<1>4. \A i \in 1..k : more[i].do # "shutdown"
  BY <1>1 DEF Quiet
<1>5. \A i \in DOMAIN r : r[i].do = "shutdown" => i \in 1..n - 1 /\ r[i] = q[i + 1]
  <2>1. ASSUME NEW i \in 1..n - 1 + k, r[i].do = "shutdown" PROVE i \in 1..n - 1
    <3>1. ASSUME NEW j \in 1..k, i = n - 1 + j PROVE FALSE
      BY <1>2, <1>4, <2>1, <3>1, Zenon
    <3>2. QED
      BY <1>3, <3>1, Zenon
  <2>2. QED
    BY <1>2, <2>1, Zenon
<1>6. Ordered(r)
  <2>1. ASSUME NEW i \in DOMAIN r, NEW j \in DOMAIN r, i < j, r[j].do = "shutdown"
        PROVE  r[i].do = "shutdown" /\ r[i].c # r[j].c
    <3>1. j \in 1..n - 1 /\ r[j] = q[j + 1]
      BY <1>5, <2>1
    <3>2. i \in 1..n - 1 /\ r[i] = q[i + 1]
      BY <1>1, <1>2, <2>1, <3>1
    <3>3. i + 1 \in 1..n /\ j + 1 \in 1..n /\ i + 1 < j + 1
      BY <1>1, <2>1, <3>1, <3>2
    <3>4. QED
      BY <1>1, <2>1, <3>1, <3>2, <3>3 DEF Ordered
  <2>2. QED
    BY <2>1 DEF Ordered
<1>7. ASSUME Head(q).do # "shutdown" PROVE ToTell(q) = {} /\ ToTell(r) = {}
  <2>1. \A i \in 1..n : q[i].do # "shutdown"
    <3>1. ASSUME NEW i \in 1..n, q[i].do = "shutdown" PROVE FALSE
      <4>1. i > 1 /\ 1 \in 1..n
        BY <1>1, <1>7, <3>1
      <4>2. q[1].do = "shutdown"
        BY <1>1, <3>1, <4>1 DEF Ordered
      <4>3. QED
        BY <1>1, <1>7, <4>2
    <3>2. QED
      BY <3>1
  <2>2. \A i \in DOMAIN r : r[i].do # "shutdown"
    <3>1. \A i \in 1..n - 1 : i + 1 \in 1..n
      BY <1>1
    <3>2. QED
      BY <1>5, <2>1, <3>1
  <2>3. QED
    BY <1>1, <2>1, <2>2 DEF ToTell, Wind!Task
<1>8. ASSUME NEW c \in Wind!Fd, Head(q) = Wind!Task("shutdown", c)
      PROVE  c \in ToTell(q) /\ ToTell(r) = ToTell(q) \ {c}
  <2>1. 1 \in 1..n
    BY <1>1
  <2>2. c \in ToTell(q)
    BY <1>1, <1>8, <2>1 DEF ToTell
  <2>3. ASSUME NEW d \in ToTell(r) PROVE d \in ToTell(q) \ {c}
    <3>1. PICK i \in DOMAIN r : r[i] = Wind!Task("shutdown", d)
      BY DEF ToTell
    <3>2. i \in 1..n - 1 /\ q[i + 1] = Wind!Task("shutdown", d)
      BY <1>5, <3>1 DEF Wind!Task
    <3>3. i + 1 \in 1..n /\ 1 < i + 1
      BY <1>1, <3>2
    <3>4. q[1].c # q[i + 1].c
      <4>1. q[i + 1].do = "shutdown"
        BY <3>2 DEF Wind!Task
      <4>2. QED
        BY <1>1, <2>1, <3>3, <4>1 DEF Ordered
    <3>5. d # c
      BY <1>1, <1>8, <3>2, <3>4 DEF Wind!Task
    <3>6. QED
      BY <1>1, <3>2, <3>3, <3>5 DEF ToTell
  <2>4. ASSUME NEW d \in ToTell(q), d # c PROVE d \in ToTell(r)
    <3>1. PICK i \in 1..n : q[i] = Wind!Task("shutdown", d)
      BY <1>1 DEF ToTell
    <3>2. i # 1
      BY <1>1, <1>8, <2>4, <3>1 DEF Wind!Task
    <3>3. i - 1 \in 1..n - 1 /\ (i - 1) + 1 = i
      BY <1>1, <3>1, <3>2
    <3>4. r[i - 1] = q[i] /\ i - 1 \in DOMAIN r
      BY <1>1, <1>2, <3>3
    <3>5. QED
      BY <3>1, <3>4 DEF ToTell
  <2>5. QED
    BY <2>2, <2>3, <2>4
<1>9. ASSUME Unwinds(q), Head(q).do # "unwind" PROVE Unwinds(r)
  <2>1. PICK i \in 1..n : q[i].do = "unwind"
    BY <1>1, <1>9 DEF Unwinds
  <2>2. i # 1
    BY <1>1, <1>9, <2>1
  <2>3. i - 1 \in 1..n - 1 /\ (i - 1) + 1 = i
    BY <1>1, <2>1, <2>2
  <2>4. r[i - 1] = q[i] /\ i - 1 \in DOMAIN r
    BY <1>1, <1>2, <2>3
  <2>5. QED
    BY <2>1, <2>4 DEF Unwinds
<1>10. ASSUME Unwinds(more) PROVE Unwinds(r)
  <2>1. PICK i \in 1..k : more[i].do = "unwind"
    BY <1>1, <1>10 DEF Unwinds
  <2>2. n - 1 + i \in DOMAIN r /\ r[n - 1 + i] = more[i]
    BY <1>1, <1>2
  <2>3. QED
    BY <2>1, <2>2 DEF Unwinds
<1>11. QED
  BY <1>2, <1>6, <1>7, <1>8, <1>9, <1>10

----------------------------------------------------------------------------
\* Max and Min of WindDown, on numbers.
LEMMA MaxIs == \A n \in Int : Wind!Max({0, n}) = IF n > 0 THEN n ELSE 0
<1> TAKE n \in Int
<1>1. PICK m : m = IF n > 0 THEN n ELSE 0
  OBVIOUS
<1>2. m \in {0, n} /\ \A y \in {0, n} : m >= y
  BY <1>1
<1>3. \A x \in {0, n} : (\A y \in {0, n} : x >= y) => x = m
  BY <1>1
<1>4. QED
  BY <1>1, <1>2, <1>3 DEF Wind!Max

LEMMA MinIs == \A a, b \in Int : Wind!Min({a, b}) = IF a <= b THEN a ELSE b
<1> TAKE a, b \in Int
<1>1. PICK m : m = IF a <= b THEN a ELSE b
  OBVIOUS
<1>2. m \in {a, b} /\ \A y \in {a, b} : m <= y
  BY <1>1
<1>3. \A x \in {a, b} : (\A y \in {a, b} : x <= y) => x = m
  BY <1>1
<1>4. QED
  BY <1>1, <1>2, <1>3 DEF Wind!Min

\* The next open descriptor is a descriptor.
LEMMA MinOf == ASSUME NEW S \in SUBSET Nat, S # {} PROVE Wind!Min(S) \in S
<1>1. \E m \in S : \A k \in S : m <= k
  BY LeastNumber
<1>2. QED
  BY <1>1 DEF Wind!Min

\* Sets of connections can be counted.
LEMMA FdFinite ==
  ASSUME WindBounds, NEW S \in SUBSET Wind!Fd
  PROVE  IsFiniteSet(S) /\ Cardinality(S) \in Nat
<1>1. IsFiniteSet(Wind!Fd)
  BY FS_Interval DEF Wind!Fd, WindBounds
<1>2. IsFiniteSet(S)
  BY <1>1, FS_Subset
<1>3. QED
  BY <1>2, FS_CardinalityType

\* fio_force_close counts down once for each, and not below 0.
LEMMA ClosedCount ==
  ASSUME WindBounds, NEW S \in SUBSET Wind!Fd, NEW now \in Nat, Wind!Closed(S, now)
  PROVE  /\ count' \in Nat /\ count' <= now
         /\ \A W \in SUBSET Wind!Fd : S \subseteq W /\ now = Cardinality(W) => count' = Cardinality(W \ S)
<1>1. PICK n \in Nat : n = Cardinality(S)
  BY FdFinite
<1>2. count' = IF now - n > 0 THEN now - n ELSE 0
  BY <1>1, MaxIs, WindCount DEF Wind!Closed
<1>3. ASSUME NEW W \in SUBSET Wind!Fd, S \subseteq W, now = Cardinality(W) PROVE count' = Cardinality(W \ S)
  <2>1. IsFiniteSet(W) /\ W \intersect S = S
    BY <1>3, FdFinite
  <2>2. Cardinality(W \ S) = Cardinality(W) - Cardinality(W \intersect S)
    BY <2>1, FS_Difference
  <2>3. Cardinality(W \ S) = now - n
    BY <1>1, <1>3, <2>1, <2>2, Zenon
  <2>4. Cardinality(W \ S) \in Nat
    BY FdFinite
  <2>5. QED
    BY <1>2, <2>3, <2>4
<1>4. QED
  BY <1>2, <1>3

\* Connections that have been told are closed, by whatever task: count follows.
LEMMA ClosedKeeps ==
  ASSUME WindBounds, WindFlags, WindFields, \A c \in Wind!Fd : Open(c), CountInv,
         NEW S \in SUBSET Wind!Fd, \A c \in S : open[c] /\ c \notin ToTell(queue),
         Wind!Closed(S, count), counted' = counted, links' = links
  PROVE  CountInv' /\ Waiting' = Waiting \ S /\ (stray => stray')
<1>1. Counted' = Counted
  BY DEF Counted
<1>2. Waiting' = Waiting \ S
  BY DEF Waiting, Wind!Closed
<1>3. stray => stray'
  BY DEF Wind!Closed, WindFlags
<1>4. ~stray' => ~stray /\ S \subseteq Waiting
  BY DEF Wind!Closed, WindFlags, Open, Waiting
<1>5. count' \in Nat /\ count' <= count
  BY ClosedCount DEF CountInv
<1>6. ~stray' => count' = Cardinality(Waiting \ S)
  <2>1. Waiting \in SUBSET Wind!Fd /\ count \in Nat
    BY DEF Waiting, CountInv
  <2>2. QED
    BY <1>4, <2>1, ClosedCount DEF CountInv
<1>7. count' <= Cardinality(Counted')
  <2>1. Cardinality(Counted) \in Nat
    BY FdFinite DEF Counted
  <2>2. QED
    BY <1>1, <1>5, <2>1 DEF CountInv
<1>8. QED
  BY <1>2, <1>3, <1>5, <1>6, <1>7 DEF CountInv

----------------------------------------------------------------------------
\* A task of the queue is performed when no urgent one is left.
LEMMA TakenQueued ==
  ASSUME WindFields, NEW do, do # "ready", NEW c, Wind!IsTask(do, c),
         NEW tasks, NEW urgents \in Seq(UTask), Wind!Then(tasks, urgents)
  PROVE  /\ urgent = <<>> /\ queue # <<>> /\ Head(queue) = Wind!Task(do, c)
         /\ queue' = Tail(queue) \o tasks /\ urgent' = urgents
<1>1. urgent = <<>>
  <2>1. SUFFICES ASSUME urgent # <<>> PROVE FALSE
    OBVIOUS
  <2>2. urgent \in Seq(UTask) /\ queue \in Seq(QTask)
    BY DEF WindFields
  <2>3. Head(urgent \o queue) = urgent[1] /\ urgent[1] \in UTask
    BY <2>1, <2>2
  <2>4. urgent[1].do = "ready"
    BY <2>3 DEF UTask
  <2>5. urgent[1] = Wind!Task(do, c)
    BY <2>3 DEF Wind!IsTask, Wind!Tasks
  <2>6. QED
    BY <2>4, <2>5 DEF Wind!Task
<1>2. <<>> \o queue = queue /\ <<>> \o urgents = urgents
  BY DEF WindFields
<1>3. queue # <<>> /\ Head(queue) = Wind!Task(do, c)
  BY <1>1, <1>2 DEF Wind!IsTask, Wind!Tasks
<1>4. queue' = Tail(queue) \o tasks /\ urgent' = urgents
  BY <1>1, <1>2 DEF Wind!Then, Wind!Rest, Wind!UrgentRest
<1>5. QED
  BY <1>1, <1>3, <1>4

\* An urgent task is performed.
LEMMA TakenUrgent ==
  ASSUME WindFields, NEW c, Wind!IsTask("ready", c), Wind!Then(<<>>, <<>>)
  PROVE  /\ queue' = queue /\ urgent' \in Seq(UTask)
         /\ \E i \in DOMAIN urgent : urgent[i] = Wind!Task("ready", c)
         /\ \A i \in DOMAIN urgent' : \E j \in DOMAIN urgent : urgent'[i] = urgent[j]
         /\ \A x : x # Wind!Task("ready", c) /\ (\E i \in DOMAIN urgent : urgent[i] = x)
                     => \E i \in DOMAIN urgent' : urgent'[i] = x
<1>1. urgent \in Seq(UTask) /\ queue \in Seq(QTask)
  BY DEF WindFields
<1>2. urgent # <<>>
  <2>1. SUFFICES ASSUME urgent = <<>> PROVE FALSE
    OBVIOUS
  <2>2. queue # <<>> /\ Head(queue) = Wind!Task("ready", c)
    BY <1>1, <2>1 DEF Wind!IsTask, Wind!Tasks
  <2>3. Head(queue) \in QTask
    BY <1>1, <2>2
  <2>4. QED
    BY <2>2, <2>3 DEF QTask, Wind!Task
<1>3. urgent[1] = Wind!Task("ready", c)
  BY <1>1, <1>2 DEF Wind!IsTask, Wind!Tasks
<1>4. queue' = queue /\ urgent' = Tail(urgent)
  BY <1>1, <1>2 DEF Wind!Then, Wind!Rest, Wind!UrgentRest
<1>5. PICK n \in Nat : n = Len(urgent) /\ n >= 1 /\ DOMAIN urgent = 1..n
  BY <1>1, <1>2
<1>6. /\ urgent' \in Seq(UTask) /\ DOMAIN urgent' = 1..n - 1
      /\ \A i \in 1..n - 1 : urgent'[i] = urgent[i + 1]
  BY <1>1, <1>2, <1>4, <1>5
<1>7. \A i \in 1..n - 1 : i + 1 \in 1..n
  OBVIOUS
<1>8. ASSUME NEW i \in 1..n, urgent[i] # Wind!Task("ready", c)
      PROVE  i - 1 \in 1..n - 1 /\ urgent'[i - 1] = urgent[i]
  <2>1. i # 1
    BY <1>3, <1>8
  <2>2. i - 1 \in 1..n - 1 /\ (i - 1) + 1 = i
    BY <2>1
  <2>3. QED
    BY <1>6, <2>2
<1>9. 1 \in 1..n
  BY <1>5
<1>10. \A i \in DOMAIN urgent' : \E j \in DOMAIN urgent : urgent'[i] = urgent[j]
  BY <1>5, <1>6, <1>7
<1>11. ASSUME NEW x, x # Wind!Task("ready", c), NEW i \in DOMAIN urgent, urgent[i] = x
       PROVE  \E j \in DOMAIN urgent' : urgent'[j] = x
  BY <1>5, <1>6, <1>8, <1>11
<1>12. QED
  BY <1>3, <1>4, <1>5, <1>6, <1>9, <1>10, <1>11

----------------------------------------------------------------------------
\* Types, of the Boolean variables and of the others.
LEMMA WindFlagsStep == ASSUME WindFlags, [Wind!Next]_Wind!windVars PROVE WindFlags'
<1> USE DEF WindFlags, Wind!clientVars, Wind!connVars, Wind!reviewVars, Wind!Closed
<1>1. CASE UNCHANGED Wind!windVars
  BY <1>1, Zenon DEF Wind!windVars
<1>2. ASSUME NEW c \in Wind!Fd, Wind!Shutdown(c) PROVE WindFlags'
  BY <1>2, Zenon DEF Wind!Shutdown
<1>3. ASSUME NEW c \in Wind!Fd, Wind!Ready(c) PROVE WindFlags'
  BY <1>3, Zenon DEF Wind!Ready
<1>4. ASSUME NEW c \in Wind!Fd, Wind!Ping(c) PROVE WindFlags'
  BY <1>4, Zenon DEF Wind!Ping
<1>5. ASSUME NEW c, Wind!Review(c) PROVE WindFlags'
  BY <1>5, Zenon DEF Wind!Review
<1>6. ASSUME NEW tick, Wind!Cycle(tick) PROVE WindFlags'
  BY <1>6, Zenon DEF Wind!Cycle
<1>7. ASSUME Wind!Stop \/ Wind!Finish PROVE WindFlags'
  BY <1>7, Zenon DEF Wind!Stop, Wind!Finish
<1>8. ASSUME NEW c \in Wind!Fd, Wind!Reads(c) \/ Wind!HangsUp(c) PROVE WindFlags'
  BY <1>8, Zenon DEF Wind!Reads, Wind!HangsUp
<1>9. QED
  BY <1>1, <1>2, <1>3, <1>4, <1>5, <1>6, <1>7, <1>8, Zenon DEF Wind!Next, Wind!Performed

\* Queues of no task and of one.
LEMMA NothingQuiet == Quiet(<<>>) /\ <<>> \in Seq(UTask) /\ <<>> \in Seq(QTask)
BY DEF Quiet

LEMMA QuietOne == \A t \in QTask : t.do # "shutdown" => Quiet(<<t>>) /\ (t.do = "unwind" => Unwinds(<<t>>))
<1> TAKE t \in QTask
<1>1. <<t>> \in Seq(QTask) /\ DOMAIN <<t>> = {1} /\ <<t>>[1] = t
  OBVIOUS
<1>2. QED
  BY <1>1, Zenon DEF Quiet, Unwinds

\* Two of them in one.
LEMMA QuietJoined ==
  ASSUME NEW x, NEW y, Quiet(x), Quiet(y)
  PROVE  Quiet(x \o y) /\ (Unwinds(y) => Unwinds(x \o y))
<1>1. x \in Seq(QTask) /\ y \in Seq(QTask)
  BY DEF Quiet
<1>2. PICK q : q = x \o y
  OBVIOUS
<1>3. PICK n \in Nat, k \in Nat : n = Len(x) /\ DOMAIN x = 1..n /\ k = Len(y) /\ DOMAIN y = 1..k
  BY <1>1
<1>4. /\ q \in Seq(QTask) /\ Len(q) = n + k
      /\ \A i \in 1..n : q[i] = x[i]
      /\ \A i \in 1..k : q[n + i] = y[i]
  <2>1. /\ x \o y \in Seq(QTask) /\ Len(x \o y) = Len(x) + Len(y)
        /\ \A i \in 1..Len(x) : (x \o y)[i] = x[i]
        /\ \A i \in 1..Len(y) : (x \o y)[Len(x) + i] = y[i]
    BY <1>1, JoinedAt
  <2>2. QED
    BY <1>2, <1>3, <2>1, Zenon
<1>5. DOMAIN q = 1..n + k
  BY <1>4
<1>6. \A i \in 1..n + k : i \in 1..n \/ (i - n \in 1..k /\ n + (i - n) = i)
  OBVIOUS
<1>7. \A i \in DOMAIN q : q[i].do # "shutdown"
  <2>1. (\A i \in 1..n : q[i].do # "shutdown") /\ \A i \in 1..k : q[n + i].do # "shutdown"
    <3>1. (\A i \in 1..n : x[i].do # "shutdown") /\ \A i \in 1..k : y[i].do # "shutdown"
      BY <1>3, Zenon DEF Quiet
    <3>2. QED
      BY <1>4, <3>1, Zenon
  <2>2. QED
    BY <1>5, <1>6, <2>1
<1>8. Unwinds(y) => Unwinds(q)
  <2>1. \A i \in 1..k : n + i \in 1..n + k
    OBVIOUS
  <2>2. QED
    BY <1>3, <1>4, <1>5, <2>1 DEF Unwinds
<1>9. QED
  BY <1>2, <1>4, <1>7, <1>8, Zenon DEF Quiet

\* deferred_on_shutdown: the connection is counted and waits for its poll, or is closed,
\* or is a link.
LEMMA ShutdownStep ==
  ASSUME WindBounds, WindFlags, WindInv, NEW c \in Wind!Fd, Wind!Shutdown(c)
  PROVE  WindInv'
<1> DEFINE goes == IF c \notin links /\ unsent[c] = 0 THEN {c} ELSE {}
           waits == c \notin links /\ unsent[c] > 0
           urgents == IF waits THEN <<Wind!Task("ready", c)>> ELSE <<>>
<1>1. /\ Wind!IsTask("shutdown", c)
      /\ age' = [age EXCEPT ![c] = 0]
      /\ counted' = [counted EXCEPT ![c] = c \notin links]
      /\ closing' = [closing EXCEPT ![c] = waits]
      /\ Wind!Closed(goes, count + Wind!CountsOf(c))
      /\ Wind!Then(<<>>, urgents)
      /\ UNCHANGED <<links, armed, room, hung, need_review, new_second, stage, cut>>
  BY DEF Wind!Shutdown, Wind!clientVars, Wind!reviewVars
<1>2. urgents \in Seq(UTask)
  <2>1. Wind!Task("ready", c) \in UTask
    BY DEF Wind!Task, UTask
  <2>2. <<Wind!Task("ready", c)>> \in Seq(UTask) /\ <<>> \in Seq(UTask)
    BY <2>1
  <2>3. QED
    BY <2>2
<1> HIDE DEF urgents
<1>3. /\ urgent = <<>> /\ queue # <<>> /\ Head(queue) = Wind!Task("shutdown", c)
      /\ queue' = Tail(queue) \o <<>> /\ urgent' = urgents
  BY <1>1, <1>2, TakenQueued DEF WindInv
<1>4. /\ queue' \in Seq(QTask) /\ Ordered(queue')
      /\ c \in ToTell(queue) /\ ToTell(queue') = ToTell(queue) \ {c}
      /\ Unwinds(queue) => Unwinds(queue')
  <2>1. PICK r : r = Tail(queue) \o <<>>
    OBVIOUS
  <2>2. queue \in Seq(QTask) /\ Ordered(queue)
    BY DEF WindInv, WindFields
  <2>3. /\ r \in Seq(QTask) /\ Ordered(r)
        /\ \A d \in Wind!Fd : Head(queue) = Wind!Task("shutdown", d) => d \in ToTell(queue) /\ ToTell(r) = ToTell(queue) \ {d}
        /\ Unwinds(queue) /\ Head(queue).do # "unwind" => Unwinds(r)
    BY <1>3, <2>1, <2>2, TakenFrom, NothingQuiet
  <2>4. Head(queue).do # "unwind"
    BY <1>3 DEF Wind!Task
  <2>5. QED
    BY <1>3, <2>1, <2>3, <2>4, Zenon
<1>5. open[c] /\ ~counted[c] /\ c \in Wind!Fd
  BY <1>4 DEF WindInv, Open
<1>6. /\ open' = [d \in Wind!Fd |-> open[d] /\ d \notin goes]
      /\ unsent' = [d \in Wind!Fd |-> IF d \in goes THEN 0 ELSE unsent[d]]
      /\ stray' = stray
  BY <1>1 DEF Wind!Closed, WindFlags
<1>7. unsent \in [Wind!Fd -> Nat] /\ age \in [Wind!Fd -> 0..Grace + 1]
  BY DEF WindBounds, WindInv, WindFields
<1>8. WindFields'
  <2>1. unsent' \in [Wind!Fd -> 0..MaxUnsent]
    BY <1>6 DEF WindInv, WindFields, WindBounds
  <2>2. age' \in [Wind!Fd -> 0..Grace + 1]
    BY <1>1, <1>7 DEF WindBounds
  <2>3. queue' \in Seq(QTask) /\ urgent' \in Seq(UTask)
    BY <1>2, <1>3, <1>4
  <2>4. QED
    BY <1>1, <2>1, <2>2, <2>3 DEF WindInv, WindFields
<1>9. counted' = [counted EXCEPT ![c] = c \notin links] /\ counted \in [Wind!Fd -> BOOLEAN]
      /\ closing \in [Wind!Fd -> BOOLEAN] /\ open \in [Wind!Fd -> BOOLEAN]
  BY <1>1 DEF WindFlags
<1>10. ASSUME NEW d \in Wind!Fd, d # c PROVE Open(d)'
  <2>1. open'[d] = open[d] /\ counted'[d] = counted[d] /\ closing'[d] = closing[d] /\ unsent'[d] = unsent[d]
        /\ armed'[d] = armed[d] /\ links' = links
    BY <1>1, <1>6, <1>9, <1>10
  <2>2. d \in ToTell(queue') <=> d \in ToTell(queue)
    BY <1>4, <1>10
  <2>3. \A i \in DOMAIN urgent' : urgent'[i].c # d
    <3>1. CASE waits
      <4>1. urgent' = <<Wind!Task("ready", c)>>
        BY <1>3, <3>1 DEF urgents
      <4>2. QED
        BY <1>10, <4>1 DEF Wind!Task
    <3>2. CASE ~waits
      BY <1>3, <3>2 DEF urgents
    <3>3. QED
      BY <3>1, <3>2
  <2>4. ~\E i \in DOMAIN urgent : urgent[i] = Wind!Task("ready", d)
    BY <1>3
  <2>5. QED
    BY <2>1, <2>2, <2>3, <2>4 DEF Open, WindInv
<1>11. Open(c)'
  <2>1. c \notin ToTell(queue')
    BY <1>4
  <2>2. counted'[c] = (c \notin links) /\ closing'[c] = waits /\ links' = links
        /\ (open'[c] <=> c \notin goes) /\ unsent'[c] = (IF c \in goes THEN 0 ELSE unsent[c])
    BY <1>1, <1>5, <1>6, <1>9
  <2>3. waits => \E i \in DOMAIN urgent' : urgent'[i] = Wind!Task("ready", c)
    <3>1. waits => urgent' = <<Wind!Task("ready", c)>>
      BY <1>3 DEF urgents
    <3>2. QED
      BY <3>1
  <2>4. unsent[c] = 0 \/ unsent[c] > 0
    BY <1>7
  <2>5. c \in links => unsent[c] = 0
    BY DEF WindInv, Open
  <2>6. QED
    BY <2>1, <2>2, <2>3, <2>4, <2>5 DEF Open
<1>12. CountInv'
  <2>1. CountInv /\ count \in Nat
    BY DEF WindInv, CountInv
  <2>2. IsFiniteSet(Counted) /\ IsFiniteSet(Waiting) /\ Cardinality(Counted) \in Nat /\ Cardinality(Waiting) \in Nat
    BY FdFinite DEF Counted, Waiting
  <2>3. CASE c \in links
    <3>1. goes = {} /\ Wind!CountsOf(c) = 0
      BY <2>3 DEF Wind!CountsOf
    <3>2. Counted' = Counted /\ Waiting' = Waiting
      BY <1>5, <1>6, <1>9, <2>3, <3>1 DEF Counted, Waiting
    <3>3. count' = count
      <4>1. Wind!Closed({}, count)
        BY <1>1, <2>1, <3>1
      <4>2. Cardinality({}) = 0
        BY FS_EmptySet
      <4>3. QED
        BY <2>1, <4>1, <4>2, MaxIs, WindCount DEF Wind!Closed
    <3>4. QED
      BY <1>6, <2>1, <3>2, <3>3 DEF CountInv
  <2>4. CASE c \notin links
    <3>1. Wind!CountsOf(c) = 1 /\ Counted' = Counted \union {c} /\ c \notin Counted /\ c \notin Waiting
      BY <1>5, <1>9, <2>4 DEF Counted, Waiting, Wind!CountsOf
    <3>2. Cardinality(Counted') = Cardinality(Counted) + 1
      BY <2>2, <3>1, FS_AddElement
    <3>3. CASE waits
      <4>1. goes = {} /\ Waiting' = Waiting \union {c}
        BY <1>5, <1>6, <1>9, <2>4, <3>3 DEF Waiting
      <4>2. Cardinality(Waiting') = Cardinality(Waiting) + 1
        BY <2>2, <3>1, <4>1, FS_AddElement
      <4>3. Cardinality({}) = 0
        BY FS_EmptySet
      <4>4. count' = count + 1
        BY <1>1, <2>1, <3>1, <4>1, <4>3, MaxIs, WindCount DEF Wind!Closed
      <4>5. QED
        BY <1>6, <2>1, <2>2, <3>2, <4>2, <4>4 DEF CountInv
    <3>4. CASE ~waits
      <4>1. goes = {c} /\ Waiting' = Waiting
        BY <1>5, <1>6, <1>7, <1>9, <2>4, <3>4 DEF Waiting
      <4>2. Cardinality({c}) = 1
        BY FS_Singleton
      <4>3. count' = count
        <5>1. Wind!Closed({c}, count + 1)
          BY <1>1, <3>1, <4>1
        <5>2. count' = Wind!Max({0, (count + 1) - Cardinality({c})})
          BY <5>1, WindCount DEF Wind!Closed
        <5>3. (count + 1) - Cardinality({c}) = count
          BY <2>1, <4>2
        <5>4. count' = Wind!Max({0, count})
          BY <5>2, <5>3, Zenon
        <5>5. QED
          BY <2>1, <5>4, MaxIs
      <4>4. QED
        BY <1>6, <2>1, <2>2, <3>2, <4>1, <4>3 DEF CountInv
    <3>5. QED
      BY <3>3, <3>4
  <2>5. QED
    BY <2>3, <2>4
<1>13. EndInv'
  BY <1>1, <1>4, <1>6 DEF EndInv, WindInv
<1>14. Ordered(queue)'
  BY <1>4
<1>15. QED
  BY <1>8, <1>10, <1>11, <1>12, <1>13, <1>14 DEF WindInv

\* deferred_on_ready: the last packet or a hang-up closes, what is left asks for a poll.
LEMMA ReadyStep ==
  ASSUME WindBounds, WindFlags, WindInv, NEW c \in Wind!Fd, Wind!Ready(c)
  PROVE  WindInv'
<1> DEFINE waits == open[c] /\ unsent[c] > 0
           kept == IF room[c] /\ ~hung[c] THEN unsent[c] - 1 ELSE unsent[c]
<1>1. Wind!IsTask("ready", c) /\ Wind!Then(<<>>, <<>>)
      /\ UNCHANGED <<links, closing, counted, age, hung, need_review, new_second, stage, cut>>
  BY DEF Wind!Ready, Wind!reviewVars
<1>2. /\ queue' = queue /\ urgent' \in Seq(UTask)
      /\ \E i \in DOMAIN urgent : urgent[i] = Wind!Task("ready", c)
      /\ \A i \in DOMAIN urgent' : \E j \in DOMAIN urgent : urgent'[i] = urgent[j]
      /\ \A x : x # Wind!Task("ready", c) /\ (\E i \in DOMAIN urgent : urgent[i] = x)
                  => \E i \in DOMAIN urgent' : urgent'[i] = x
  BY <1>1, TakenUrgent DEF WindInv
<1>3. c \notin ToTell(queue)
  BY <1>2 DEF WindInv, Open, Wind!Task
<1>4. \A d \in Wind!Fd : d # c /\ (\E i \in DOMAIN urgent : urgent[i] = Wind!Task("ready", d))
                     => \E i \in DOMAIN urgent' : urgent'[i] = Wind!Task("ready", d)
  BY <1>2 DEF Wind!Task
<1>5. unsent \in [Wind!Fd -> 0..MaxUnsent] /\ MaxUnsent \in Nat /\ WindFields
  BY DEF WindInv, WindFields, WindBounds
<1>6. ~Unwinds(queue') <=> ~Unwinds(queue)
  BY <1>2
<1>7. CASE waits /\ Wind!Over(c, kept)
  <2>1. Wind!Closed({c}, count) /\ UNCHANGED armed
    BY <1>7 DEF Wind!Ready
  <2>2. /\ open' = [d \in Wind!Fd |-> open[d] /\ d \notin {c}]
        /\ unsent' = [d \in Wind!Fd |-> IF d \in {c} THEN 0 ELSE unsent[d]]
    BY <2>1 DEF Wind!Closed
  <2>3. CountInv' /\ Waiting' = Waiting \ {c} /\ (stray => stray')
    BY <1>1, <1>3, <1>7, <2>1, ClosedKeeps DEF WindInv
  <2>4. WindFields'
    <3>1. unsent' \in [Wind!Fd -> 0..MaxUnsent]
      BY <1>5, <2>2
    <3>2. QED
      BY <1>1, <1>2, <3>1 DEF WindInv, WindFields
  <2>5. ASSUME NEW d \in Wind!Fd PROVE Open(d)'
    <3>1. CASE d = c
      BY <1>1, <1>2, <1>3, <2>2, <3>1 DEF Open, WindInv
    <3>2. CASE d # c
      <4>1. open'[d] = open[d] /\ unsent'[d] = unsent[d]
        BY <2>2, <3>2 DEF WindFlags
      <4>2. Open(d)
        BY DEF WindInv
      <4>3. \A i \in DOMAIN urgent' : (\A j \in DOMAIN urgent : urgent[j].c # d) => urgent'[i].c # d
        BY <1>2
      <4>4. QED
        BY <1>1, <1>2, <1>4, <2>1, <3>2, <4>1, <4>2, <4>3 DEF Open
    <3>3. QED
      BY <3>1, <3>2
  <2>6. EndInv'
    BY <1>1, <1>2, <2>3 DEF EndInv, WindInv
  <2>7. Ordered(queue)'
    BY <1>2 DEF WindInv
  <2>8. QED
    BY <2>3, <2>4, <2>5, <2>6, <2>7 DEF WindInv
<1>8. CASE ~(waits /\ Wind!Over(c, kept))
  <2>1. /\ unsent' = [unsent EXCEPT ![c] = IF waits THEN kept ELSE @]
        /\ armed' = [armed EXCEPT ![c] = waits /\ kept > 0]
        /\ UNCHANGED <<open, count, stray>>
    BY <1>8 DEF Wind!Ready
  <2>2. Counted' = Counted /\ Waiting' = Waiting
    BY <1>1, <2>1 DEF Counted, Waiting
  <2>3. waits => kept \in 0..MaxUnsent
    BY <1>5
  <2>4. unsent'[c] = IF waits THEN kept ELSE unsent[c]
    BY <1>5, <2>1
  <2>5. WindFields'
    <3>1. unsent' \in [Wind!Fd -> 0..MaxUnsent]
      BY <1>5, <2>1, <2>3
    <3>2. QED
      BY <1>1, <1>2, <3>1 DEF WindInv, WindFields
  <2>6. ASSUME NEW d \in Wind!Fd PROVE Open(d)'
    <3>1. CASE d = c
      <4>1. Open(c)
        BY DEF WindInv
      <4>2. open[c] /\ counted[c] => waits /\ closing[c]
        BY <4>1 DEF Open
      <4>3. waits /\ closing[c] => kept > 0
        <5>1. waits /\ closing[c] => kept # 0
          BY <1>8, Zenon DEF Wind!Over
        <5>2. waits => kept \in Nat
          BY <1>5, <2>3
        <5> HIDE DEF waits, kept
        <5>3. QED
          BY <5>1, <5>2
      <4>4. armed'[c] = (waits /\ kept > 0)
        BY <2>1 DEF WindFlags
      <4>5. c \in links => unsent'[c] = 0
        BY <1>5, <2>4, <4>1 DEF Open
      <4>6. open[c] /\ counted[c] => closing[c] /\ unsent'[c] > 0 /\ armed'[c]
        BY <2>4, <4>2, <4>3, <4>4
      <4>7. QED
        BY <1>1, <1>2, <1>3, <2>1, <3>1, <4>1, <4>5, <4>6 DEF Open
    <3>2. CASE d # c
      <4>1. armed'[d] = armed[d] /\ unsent'[d] = unsent[d]
        BY <1>5, <2>1, <3>2 DEF WindFlags
      <4>2. Open(d)
        BY DEF WindInv
      <4>3. \A i \in DOMAIN urgent' : (\A j \in DOMAIN urgent : urgent[j].c # d) => urgent'[i].c # d
        BY <1>2
      <4>4. QED
        BY <1>1, <1>2, <1>4, <2>1, <3>2, <4>1, <4>2, <4>3 DEF Open
    <3>3. QED
      BY <3>1, <3>2
  <2>7. CountInv'
    BY <2>1, <2>2 DEF CountInv, WindInv
  <2>8. EndInv'
    BY <1>1, <1>2, <2>1, <2>2 DEF EndInv, WindInv
  <2>9. Ordered(queue)'
    BY <1>2 DEF WindInv
  <2>10. QED
    BY <2>5, <2>6, <2>7, <2>8, <2>9 DEF WindInv
<1>9. QED
  BY <1>7, <1>8

\* A task that tells nobody and is followed by others that tell nobody.
LEMMA TakenAfter ==
  ASSUME WindBounds, WindInv, NEW do, do \in {"unwind", "review", "ping"}, NEW c, Wind!IsTask(do, c),
         NEW more, Quiet(more), NEW urgents \in Seq(UTask), Wind!Then(more, urgents)
  PROVE  /\ urgent = <<>> /\ urgent' = urgents /\ queue' \in Seq(QTask) /\ Ordered(queue)'
         /\ ToTell(queue) = {} /\ ToTell(queue)' = {}
         /\ do # "unwind" /\ Unwinds(queue) => Unwinds(queue)'
         /\ Unwinds(more) => Unwinds(queue)'
<1>1. WindFields /\ do # "ready"
  BY DEF WindInv
<1>2. urgent = <<>> /\ queue # <<>> /\ Head(queue) = Wind!Task(do, c) /\ queue' = Tail(queue) \o more /\ urgent' = urgents
  BY <1>1, TakenQueued
<1>3. queue \in Seq(QTask) /\ Ordered(queue)
  BY DEF WindInv, WindFields
<1>4. PICK r : r = Tail(queue) \o more
  OBVIOUS
<1>5. Head(queue).do = do
  BY <1>2 DEF Wind!Task
<1>6. /\ r \in Seq(QTask) /\ Ordered(r)
      /\ Head(queue).do # "shutdown" => ToTell(queue) = {} /\ ToTell(r) = {}
      /\ Unwinds(queue) /\ Head(queue).do # "unwind" => Unwinds(r)
      /\ Unwinds(more) => Unwinds(r)
  BY <1>2, <1>3, <1>4, TakenFrom
<1>7. queue' = r
  BY <1>2, <1>4
<1>8. QED
  BY <1>2, <1>5, <1>6, <1>7

\* What a connection is known for, when nobody is told and the urgent tasks are done.
LEMMA OpenAfter ==
  ASSUME WindInv, urgent = <<>>, ToTell(queue)' = {}, urgent' \in Seq(UTask),
         links' = links, closing' = closing, counted' = counted,
         NEW d \in Wind!Fd, ~open[d] => ~open'[d], unsent'[d] \in {0, unsent[d]},
         open'[d] => unsent'[d] = unsent[d],
         armed[d] /\ open'[d] => armed'[d] \/ \E i \in DOMAIN urgent' : urgent'[i] = Wind!Task("ready", d),
         ToTell(queue) = {}
  PROVE  Open(d)'
<1>1. Open(d)
  BY DEF WindInv
<1>2. ~\E i \in DOMAIN urgent : urgent[i] = Wind!Task("ready", d)
  OBVIOUS
<1>3. open'[d] => counted[d] \/ d \in links
  BY <1>1 DEF Open
<1>4. open'[d] /\ counted[d] => closing[d] /\ unsent'[d] > 0 /\ armed[d]
  BY <1>1, <1>2 DEF Open
<1>5. (counted[d] => d \notin links) /\ (d \in links => unsent'[d] = 0)
  BY <1>1 DEF Open
<1>6. QED
  BY <1>3, <1>4, <1>5 DEF Open

\* A task that closes some connections and tells nobody.
LEMMA ClosedAfter ==
  ASSUME WindBounds, WindFlags, WindInv,
         urgent = <<>>, urgent' \in Seq(UTask), queue' \in Seq(QTask), Ordered(queue)',
         ToTell(queue) = {}, ToTell(queue)' = {}, Unwinds(queue) => Unwinds(queue)',
         NEW S \in SUBSET Wind!Fd, \A c \in S : open[c], Wind!Closed(S, count),
         links' = links, closing' = closing, counted' = counted, stage' = stage, cut' = cut,
         age' \in [Wind!Fd -> 0..Grace + 1],
         \A d \in Wind!Fd : armed[d] /\ open'[d] =>
             armed'[d] \/ \E i \in DOMAIN urgent' : urgent'[i] = Wind!Task("ready", d)
  PROVE  WindInv'
<1>1. /\ open' = [d \in Wind!Fd |-> open[d] /\ d \notin S]
      /\ unsent' = [d \in Wind!Fd |-> IF d \in S THEN 0 ELSE unsent[d]]
  BY DEF Wind!Closed
<1>2. WindFields /\ CountInv /\ EndInv /\ \A c \in Wind!Fd : Open(c)
  BY DEF WindInv
<1>3. WindFields'
  <2>1. unsent' \in [Wind!Fd -> 0..MaxUnsent]
    BY <1>1, <1>2 DEF WindFields, WindBounds
  <2>2. QED
    BY <1>2, <2>1 DEF WindFields
<1>4. CountInv' /\ Waiting' = Waiting \ S /\ (stray => stray')
  BY <1>2, ClosedKeeps
<1>5. ASSUME NEW d \in Wind!Fd PROVE Open(d)'
  <2>1. (~open[d] => ~open'[d]) /\ (open'[d] => unsent'[d] = unsent[d]) /\ unsent'[d] \in {0, unsent[d]}
    BY <1>1
  <2>2. QED
    BY <2>1, OpenAfter
<1>6. EndInv'
  BY <1>2, <1>4 DEF EndInv
<1>7. QED
  BY <1>3, <1>4, <1>5, <1>6 DEF WindInv

\* fio_cycle_unwind: those that hung up are closed, those with room get a task.
LEMMA CycleStep ==
  ASSUME WindBounds, WindFlags, WindInv, NEW tick \in 0..1, Wind!Cycle(tick)
  PROVE  WindInv'
<1>1. PICK more : more = (IF need_review /\ (new_second \/ tick = 1) THEN <<Wind!Task("review", 0)>> ELSE <<>>)
                           \o <<Wind!Task("unwind", 0)>>
  OBVIOUS
<1>2. PICK urgents : urgents = Wind!AsTasks("ready", Wind!Writable)
  OBVIOUS
<1>3. /\ Wind!IsTask("unwind", 0) /\ Wind!Then(more, urgents) /\ Wind!Closed(Wind!HangUps, count)
      /\ age' = [c \in Wind!Fd |-> Wind!Min({age[c] + tick, Grace + 1})]
      /\ armed' = [c \in Wind!Fd |-> armed[c] /\ c \notin Wind!Writable]
      /\ UNCHANGED <<links, closing, counted, stage, cut>>
  BY <1>1, <1>2 DEF Wind!Cycle
<1>4. Quiet(more) /\ Unwinds(more)
  <2>1. Wind!Task("review", 0) \in QTask /\ Wind!Task("unwind", 0) \in QTask
    BY DEF Wind!Task, QTask, WindBounds
  <2>2. Quiet(<<Wind!Task("review", 0)>>) /\ Quiet(<<Wind!Task("unwind", 0)>>) /\ Unwinds(<<Wind!Task("unwind", 0)>>)
    BY <2>1, QuietOne DEF Wind!Task
  <2>3. PICK x : x = (IF need_review /\ (new_second \/ tick = 1) THEN <<Wind!Task("review", 0)>> ELSE <<>>)
    OBVIOUS
  <2>4. Quiet(x)
    BY <2>2, <2>3, NothingQuiet, Zenon
  <2>5. more = x \o <<Wind!Task("unwind", 0)>>
    BY <1>1, <2>3, Zenon
  <2>6. Quiet(x \o <<Wind!Task("unwind", 0)>>) /\ Unwinds(x \o <<Wind!Task("unwind", 0)>>)
    BY <2>2, <2>4, QuietJoined
  <2>7. QED
    BY <2>5, <2>6, Zenon
<1>5. Wind!Writable \in SUBSET Wind!Fd /\ Wind!HangUps \in SUBSET Wind!Fd /\ \A c \in Wind!HangUps : open[c]
  BY DEF Wind!Writable, Wind!HangUps
<1>6. urgents \in Seq(UTask) /\ \A c \in Wind!Writable : \E i \in DOMAIN urgents : urgents[i] = Wind!Task("ready", c)
  <2>1. urgents \in Seq([do : {"ready"}, c : Wind!Writable])
    BY <1>2, <1>5, AsTasksIs, Zenon
  <2>2. [do : {"ready"}, c : Wind!Writable] \subseteq UTask
    BY <1>5 DEF UTask
  <2>3. \A X, Y : X \subseteq Y => \A s \in Seq(X) : s \in Seq(Y)
    OBVIOUS
  <2>4. urgents \in Seq(UTask)
    BY <2>1, <2>2, <2>3, Zenon
  <2>5. \A c \in Wind!Writable : \E i \in DOMAIN urgents : urgents[i] = Wind!Task("ready", c)
    <3>1. \A c \in Wind!Writable : \E i \in DOMAIN Wind!AsTasks("ready", Wind!Writable) :
              Wind!AsTasks("ready", Wind!Writable)[i] = Wind!Task("ready", c)
      BY <1>5, AsTasksIs
    <3>2. QED
      BY <1>2, <3>1, Zenon
  <2>6. QED
    BY <2>4, <2>5
<1>7. /\ urgent = <<>> /\ urgent' = urgents /\ queue' \in Seq(QTask) /\ Ordered(queue)'
      /\ ToTell(queue) = {} /\ ToTell(queue)' = {} /\ Unwinds(queue)'
  BY <1>3, <1>4, <1>6, TakenAfter
<1>8. age' \in [Wind!Fd -> 0..Grace + 1]
  <2>1. \A c \in Wind!Fd : age[c] \in 0..Grace + 1
    BY DEF WindInv, WindFields
  <2>2. ASSUME NEW c \in Wind!Fd PROVE Wind!Min({age[c] + tick, Grace + 1}) \in 0..Grace + 1
    <3>1. PICK a : a = age[c] + tick
      OBVIOUS
    <3>2. PICK g : g = Grace + 1
      OBVIOUS
    <3>3. a \in Nat /\ g \in Nat
      BY <2>1, <3>1, <3>2 DEF WindBounds
    <3>4. Wind!Min({a, g}) \in 0..g
      BY <3>3, MinIs
    <3>5. QED
      BY <3>1, <3>2, <3>4, Zenon
  <2>3. QED
    BY <1>3, <2>2
<1>9. \A d \in Wind!Fd : armed[d] /\ open'[d] =>
          armed'[d] \/ \E i \in DOMAIN urgent' : urgent'[i] = Wind!Task("ready", d)
  <2>1. TAKE d \in Wind!Fd
  <2>2. CASE d \in Wind!Writable
    BY <1>6, <1>7, <2>2
  <2>3. CASE d \notin Wind!Writable
    BY <1>3, <2>3
  <2>4. QED
    BY <2>2, <2>3
<1>10. QED
  BY <1>3, <1>5, <1>6, <1>7, <1>8, <1>9, ClosedAfter

\* fio_cycle_unwind stops only when nobody is counted.
LEMMA StopStep ==
  ASSUME WindBounds, WindFlags, WindInv, Wind!Stop
  PROVE  WindInv'
<1>1. /\ Wind!IsTask("unwind", 0) /\ count = 0 /\ Wind!Then(<<>>, <<>>)
      /\ UNCHANGED <<links, open, unsent, closing, counted, age, armed, count, stray, stage, cut>>
  BY DEF Wind!Stop, Wind!connVars
<1>2. /\ urgent = <<>> /\ urgent' = <<>> /\ queue' \in Seq(QTask) /\ Ordered(queue)'
      /\ ToTell(queue) = {} /\ ToTell(queue)' = {}
  BY <1>1, TakenAfter, NothingQuiet
<1>3. WindFields /\ CountInv /\ EndInv
  BY DEF WindInv
<1>4. WindFields'
  BY <1>1, <1>2, <1>3, NothingQuiet DEF WindFields
<1>5. Waiting' = Waiting /\ Counted' = Counted
  BY <1>1 DEF Waiting, Counted
<1>6. ~stray => Waiting = {}
  <2>1. IsFiniteSet(Waiting)
    BY FdFinite DEF Waiting
  <2>2. QED
    BY <1>1, <1>3, <2>1, FS_EmptySet DEF CountInv
<1>7. CountInv' /\ EndInv'
  BY <1>1, <1>2, <1>3, <1>5, <1>6 DEF CountInv, EndInv
<1>8. ASSUME NEW d \in Wind!Fd PROVE Open(d)'
  BY <1>1, <1>2, NothingQuiet, OpenAfter
<1>9. QED
  BY <1>2, <1>4, <1>7, <1>8 DEF WindInv

\* A task that closes nobody and tells nobody.
LEMMA ReviewStep ==
  ASSUME WindBounds, WindFlags, WindInv, NEW c \in 0..MaxFd, Wind!Review(c)
  PROVE  WindInv'
<1> DEFINE next == Wind!NextOpen(c)
<1>1. PICK more : more = (IF Wind!Expired(c) THEN <<Wind!Task("ping", c)>> ELSE <<>>)
                          \o (IF next # {} THEN <<Wind!Task("review", Wind!Min(next))>> ELSE <<>>)
  OBVIOUS
<1>2. /\ Wind!IsTask("review", c) /\ Wind!Then(more, <<>>)
      /\ UNCHANGED <<links, open, unsent, closing, counted, age, armed, count, stray, stage, cut>>
  BY <1>1 DEF Wind!Review, Wind!connVars
<1>3. Quiet(more)
  <2>1. next # {} => Wind!Min(next) \in 0..MaxFd
    <3>1. next \in SUBSET Nat /\ next \subseteq 0..MaxFd
      BY DEF Wind!NextOpen, Wind!Fd, WindBounds
    <3>2. QED
      BY <3>1, MinOf
  <2>2. PICK m : m = Wind!Min(next)
    OBVIOUS
  <2>3. Wind!Task("ping", c) \in QTask /\ (next # {} => Wind!Task("review", m) \in QTask)
    BY <2>1, <2>2 DEF Wind!Task, QTask
  <2> HIDE DEF next
  <2>4. Quiet(<<Wind!Task("ping", c)>>) /\ (next # {} => Quiet(<<Wind!Task("review", m)>>))
    BY <2>3, QuietOne DEF Wind!Task
  <2>5. PICK x : x = IF Wind!Expired(c) THEN <<Wind!Task("ping", c)>> ELSE <<>>
    OBVIOUS
  <2>6. PICK y : y = IF next # {} THEN <<Wind!Task("review", m)>> ELSE <<>>
    OBVIOUS
  <2>7. Quiet(x) /\ Quiet(y)
    BY <2>4, <2>5, <2>6, NothingQuiet, Zenon
  <2>8. Quiet(x \o y)
    BY <2>7, QuietJoined
  <2>9. more = x \o y
    BY <1>1, <2>2, <2>5, <2>6, Zenon
  <2>10. QED
    BY <2>8, <2>9, Zenon
<1>4. /\ urgent = <<>> /\ urgent' = <<>> /\ queue' \in Seq(QTask) /\ Ordered(queue)'
      /\ ToTell(queue) = {} /\ ToTell(queue)' = {} /\ (Unwinds(queue) => Unwinds(queue)')
  BY <1>2, <1>3, TakenAfter, NothingQuiet
<1>5. WindFields /\ CountInv /\ EndInv
  BY DEF WindInv
<1>6. WindFields'
  BY <1>2, <1>4, <1>5, NothingQuiet DEF WindFields
<1>7. Waiting' = Waiting /\ Counted' = Counted
  BY <1>2 DEF Waiting, Counted
<1>8. CountInv' /\ EndInv'
  BY <1>2, <1>4, <1>5, <1>7 DEF CountInv, EndInv
<1>9. ASSUME NEW d \in Wind!Fd PROVE Open(d)'
  BY <1>2, <1>4, NothingQuiet, OpenAfter
<1>10. QED
  BY <1>4, <1>6, <1>8, <1>9 DEF WindInv

\* deferred_ping closes who has not been touched in time.
LEMMA PingStep ==
  ASSUME WindBounds, WindFlags, WindInv, NEW c \in Wind!Fd, Wind!Ping(c)
  PROVE  WindInv'
<1>1. PICK S : S = IF open[c] /\ age[c] >= Grace THEN {c} ELSE {}
  OBVIOUS
<1>2. /\ Wind!IsTask("ping", c) /\ Wind!Then(<<>>, <<>>) /\ Wind!Closed(S, count)
      /\ UNCHANGED <<links, closing, counted, age, armed, stage, cut>>
  BY <1>1 DEF Wind!Ping
<1>3. S \in SUBSET Wind!Fd /\ \A d \in S : open[d]
  BY <1>1
<1>4. /\ urgent = <<>> /\ urgent' = <<>> /\ queue' \in Seq(QTask) /\ Ordered(queue)'
      /\ ToTell(queue) = {} /\ ToTell(queue)' = {} /\ (Unwinds(queue) => Unwinds(queue)')
  BY <1>2, TakenAfter, NothingQuiet
<1>5. age' \in [Wind!Fd -> 0..Grace + 1]
  BY <1>2 DEF WindInv, WindFields
<1>6. QED
  BY <1>2, <1>3, <1>4, <1>5, NothingQuiet, ClosedAfter

\* When the tasks are done, a connection that is open is a link, or a link has been
\* counted down.
LEMMA WindFinishStep ==
  ASSUME WindBounds, WindFlags, WindInv, Wind!Finish
  PROVE  WindInv'
<1> DEFINE S == {c \in Wind!Fd : open[c]}
<1>1. /\ Wind!Tasks = <<>> /\ stage' = "closed" /\ cut' = {c \in Wind!Fd : open[c] /\ unsent[c] > 0}
      /\ Wind!Closed(S, count) /\ UNCHANGED <<links, closing, counted, age, armed, queue, urgent>>
  BY DEF Wind!Finish
<1>2. WindFields /\ CountInv /\ EndInv /\ \A c \in Wind!Fd : Open(c)
  BY DEF WindInv
<1>3. queue = <<>> /\ urgent = <<>>
  BY <1>1, <1>2 DEF Wind!Tasks, WindFields
<1>4. ToTell(queue) = {} /\ (stray \/ Waiting = {})
  BY <1>2, <1>3 DEF EndInv, Unwinds
<1>5. CountInv' /\ Waiting' = Waiting \ S /\ (stray => stray')
  BY <1>1, <1>2, <1>4, ClosedKeeps
<1>6. /\ open' = [d \in Wind!Fd |-> open[d] /\ d \notin S]
      /\ unsent' = [d \in Wind!Fd |-> IF d \in S THEN 0 ELSE unsent[d]]
  BY <1>1 DEF Wind!Closed
<1>7. WindFields'
  <2>1. unsent' \in [Wind!Fd -> 0..MaxUnsent]
    BY <1>2, <1>6 DEF WindFields, WindBounds
  <2>2. QED
    BY <1>1, <1>2, <2>1 DEF WindFields
<1>8. ASSUME NEW d \in Wind!Fd PROVE Open(d)'
  <2>1. unsent'[d] \in {0, unsent[d]} /\ ~open'[d]
    BY <1>6
  <2>2. Open(d) /\ ToTell(queue') = {} /\ counted' = counted /\ links' = links
    BY <1>1, <1>2, <1>4
  <2>3. QED
    BY <2>1, <2>2 DEF Open
<1>9. EndInv'
  <2>1. ASSUME NEW c \in cut' PROVE stray
    <3>1. c \in Wind!Fd /\ open[c] /\ unsent[c] > 0
      BY <1>1
    <3>2. Open(c) /\ unsent[c] # 0
      BY <1>2, <3>1
    <3>3. c \in Waiting
      BY <1>4, <3>1, <3>2 DEF Open, Waiting
    <3>4. QED
      BY <1>4, <3>3
  <2>2. Waiting' = {}
    BY <1>5 DEF Waiting
  <2>3. ToTell(queue') = {}
    BY <1>1, <1>4
  <2>4. QED
    BY <1>5, <2>1, <2>2, <2>3 DEF EndInv
<1>10. Ordered(queue)'
  BY <1>1 DEF WindInv
<1>11. QED
  BY <1>5, <1>7, <1>8, <1>9, <1>10 DEF WindInv

----------------------------------------------------------------------------
\* Every step keeps the invariant.
LEMMA WindStep == ASSUME WindBounds, WindFlags, WindInv, [Wind!Next]_Wind!windVars PROVE WindInv'
<1>1. CASE UNCHANGED Wind!windVars
  BY <1>1 DEF Wind!windVars, WindInv, WindFields, Open, ToTell, Counted, Waiting, CountInv, EndInv
<1>2. ASSUME NEW c \in Wind!Fd, Wind!Reads(c) \/ Wind!HangsUp(c) PROVE WindInv'
  <2>1. UNCHANGED <<links, open, unsent, closing, counted, age, armed, count, stray, queue, urgent, stage, cut>>
    BY <1>2 DEF Wind!Reads, Wind!HangsUp, Wind!connVars
  <2>2. QED
    BY <2>1 DEF WindInv, WindFields, Open, ToTell, Counted, Waiting, CountInv, EndInv
<1>3. CASE Wind!Performed
  BY <1>3, ShutdownStep, ReadyStep, PingStep, ReviewStep, CycleStep, StopStep, WindFinishStep DEF Wind!Performed
<1>4. QED
  BY <1>1, <1>2, <1>3 DEF Wind!Next

\* It holds when fio_worker_cleanup begins.
LEMMA WindFlagsInit == ASSUME Wind!Init PROVE WindFlags
<1>1. \A p, q : [c \in Wind!Fd |-> FALSE] \in [Wind!Fd -> BOOLEAN] /\ TRUE \in BOOLEAN /\ FALSE \in BOOLEAN
  OBVIOUS
<1>2. [c \in Wind!Fd |-> unsent[c] > 0] \in [Wind!Fd -> BOOLEAN] /\ [c \in Wind!Fd |-> unsent[c] = 0] \in [Wind!Fd -> BOOLEAN]
  OBVIOUS
<1>3. QED
  BY <1>1, <1>2, Zenon DEF Wind!Init, WindFlags

\* Every open connection has its task, and fio_cycle_unwind comes after them.
LEMMA WindInit == ASSUME WindBounds, Wind!Init PROVE WindInv
<1>1. WindFlags
  BY WindFlagsInit
<1>2. PICK S : S = {c \in Wind!Fd : open[c]}
  OBVIOUS
<1>3. PICK s : s = Wind!AsTasks("shutdown", S)
  OBVIOUS
<1>4. S \in SUBSET Wind!Fd
  BY <1>2
<1>5. /\ s \in Seq([do : {"shutdown"}, c : S])
      /\ \A c \in S : \E i \in DOMAIN s : s[i] = Wind!Task("shutdown", c)
      /\ \A i, j \in DOMAIN s : i < j => s[i].c # s[j].c
  <2>1. /\ Wind!AsTasks("shutdown", S) \in Seq([do : {"shutdown"}, c : S])
        /\ \A c \in S : \E i \in DOMAIN Wind!AsTasks("shutdown", S) : Wind!AsTasks("shutdown", S)[i] = Wind!Task("shutdown", c)
        /\ \A i, j \in DOMAIN Wind!AsTasks("shutdown", S) :
             i < j => Wind!AsTasks("shutdown", S)[i].c # Wind!AsTasks("shutdown", S)[j].c
    BY <1>4, AsTasksIs
  <2>2. QED
    BY <1>3, <2>1, Zenon
<1>6. PICK t : t = <<Wind!Task("unwind", 0)>>
  OBVIOUS
<1>7. PICK n \in Nat : n = Len(s) /\ DOMAIN s = 1..n
  BY <1>5
<1>8. s \in Seq(QTask) /\ t \in Seq(QTask)
  <2>1. [do : {"shutdown"}, c : S] \subseteq QTask
    <3>1. S \subseteq 0..MaxFd
      BY <1>4 DEF Wind!Fd, WindBounds
    <3>2. QED
      BY <3>1 DEF QTask
  <2>2. \A X, Y : X \subseteq Y => \A q \in Seq(X) : q \in Seq(Y)
    OBVIOUS
  <2>3. Wind!Task("unwind", 0) \in QTask
    BY DEF QTask, Wind!Task, WindBounds
  <2>4. s \in Seq(QTask)
    BY <1>5, <2>1, <2>2, Zenon
  <2>5. QED
    BY <1>6, <2>3, <2>4
<1>9. /\ queue \in Seq(QTask) /\ DOMAIN queue = 1..n + 1
      /\ \A i \in 1..n : queue[i] = s[i]
      /\ queue[n + 1] = Wind!Task("unwind", 0)
  <2>1. queue = s \o t
    BY <1>2, <1>3, <1>6 DEF Wind!Init
  <2>2. t[1] = Wind!Task("unwind", 0) /\ Len(t) = 1
    BY <1>6
  <2>3. /\ s \o t \in Seq(QTask) /\ Len(s \o t) = Len(s) + Len(t)
        /\ \A i \in 1..Len(s) : (s \o t)[i] = s[i]
        /\ \A i \in 1..Len(t) : (s \o t)[Len(s) + i] = t[i]
    BY <1>8, JoinedAt
  <2>4. /\ queue \in Seq(QTask) /\ Len(queue) = n + 1
        /\ \A i \in 1..n : queue[i] = s[i]
        /\ \A i \in 1..1 : queue[n + i] = t[i]
    BY <1>7, <2>1, <2>2, <2>3, Zenon
  <2>5. QED
    BY <2>2, <2>4
<1>10. \A i \in 1..n : queue[i].do = "shutdown" /\ queue[i].c \in S
  <2>1. \A i \in 1..n : s[i] \in [do : {"shutdown"}, c : S]
    <3>1. \A X : \A q \in Seq(X) : \A i \in DOMAIN q : q[i] \in X
      OBVIOUS
    <3>2. QED
      BY <1>5, <1>7, <3>1, Zenon
  <2>2. QED
    BY <1>9, <2>1
<1>11. Ordered(queue)
  <2>1. ASSUME NEW i \in 1..n + 1, NEW j \in 1..n + 1, i < j, queue[j].do = "shutdown"
        PROVE  queue[i].do = "shutdown" /\ queue[i].c # queue[j].c
    <3>1. j # n + 1
      BY <1>9, <2>1 DEF Wind!Task
    <3>2. i \in 1..n /\ j \in 1..n
      BY <2>1, <3>1
    <3>3. queue[i].do = "shutdown"
      BY <1>10, <3>2
    <3>4. queue[i].c # queue[j].c
      BY <1>5, <1>7, <1>9, <2>1, <3>2
    <3>5. QED
      BY <3>3, <3>4
  <2>2. QED
    BY <1>9, <2>1 DEF Ordered
<1>12. ToTell(queue) = S
  <2>1. ASSUME NEW c \in S PROVE c \in ToTell(queue)
    <3>1. PICK i \in 1..n : s[i] = Wind!Task("shutdown", c)
      BY <1>5, <1>7
    <3>2. i \in 1..n + 1 /\ queue[i] = Wind!Task("shutdown", c)
      BY <1>9, <3>1
    <3>3. QED
      BY <1>4, <1>9, <3>2 DEF ToTell
  <2>2. ASSUME NEW c \in ToTell(queue) PROVE c \in S
    <3>1. PICK i \in 1..n + 1 : queue[i] = Wind!Task("shutdown", c)
      BY <1>9 DEF ToTell
    <3>2. i # n + 1
      BY <1>9, <3>1 DEF Wind!Task
    <3>3. i \in 1..n
      BY <3>1, <3>2
    <3>4. QED
      BY <1>10, <3>1, <3>3 DEF Wind!Task
  <2>3. QED
    BY <2>1, <2>2
<1>13. Unwinds(queue)
  BY <1>9 DEF Unwinds, Wind!Task
<1>14. /\ closing = [c \in Wind!Fd |-> FALSE] /\ counted = [c \in Wind!Fd |-> FALSE] /\ urgent = <<>> /\ count = 0
       /\ cut = {} /\ stray = FALSE /\ stage = "unwinding" /\ links \in SUBSET {c \in Wind!Fd : open[c] /\ unsent[c] = 0}
       /\ unsent \in [Wind!Fd -> 0..MaxUnsent] /\ age \in [Wind!Fd -> {0, Grace + 1}]
  BY DEF Wind!Init
<1>15. WindFields
  <2>1. age \in [Wind!Fd -> 0..Grace + 1]
    BY <1>14 DEF WindBounds
  <2>2. QED
    BY <1>9, <1>14, <2>1, NothingQuiet DEF WindFields
<1>16. ASSUME NEW c \in Wind!Fd PROVE Open(c)
  BY <1>2, <1>12, <1>14 DEF Open
<1>17. CountInv
  <2>1. Counted = {} /\ Waiting = {}
    BY <1>14 DEF Counted, Waiting
  <2>2. Cardinality({}) = 0
    BY FS_EmptySet
  <2>3. QED
    BY <1>14, <2>1, <2>2 DEF CountInv
<1>18. EndInv
  BY <1>13, <1>14 DEF EndInv
<1>19. QED
  BY <1>11, <1>15, <1>16, <1>17, <1>18 DEF WindInv

----------------------------------------------------------------------------
\* connection_count is bounded by the connections that were counted.
LEMMA WindTypes == ASSUME WindBounds, WindFlags, WindInv PROVE Wind!TypeOK
<1>1. WindFields /\ CountInv
  BY DEF WindInv
<1>2. count \in 0..MaxFd
  <2>1. Cardinality(1..MaxFd) = MaxFd
    BY FS_Interval DEF WindBounds
  <2>2. IsFiniteSet(1..MaxFd) /\ Counted \subseteq 1..MaxFd
    BY FS_Interval DEF WindBounds, Counted, Wind!Fd
  <2>3. Cardinality(Counted) <= Cardinality(1..MaxFd)
    BY <2>2, FS_Subset
  <2>4. PICK n : n = Cardinality(Counted)
    OBVIOUS
  <2>5. n \in Nat /\ n <= MaxFd
    BY <2>1, <2>3, <2>4, FdFinite DEF Counted
  <2>6. QED
    BY <1>1, <2>4, <2>5 DEF CountInv, WindBounds
<1>3. \A i \in DOMAIN Wind!Tasks : Wind!Tasks[i].do \in {"shutdown", "ready", "unwind", "review", "ping"}
  <2> DEFINE T == [do : {"shutdown", "ready", "unwind", "review", "ping"}, c : 0..MaxFd]
  <2>1. QTask \subseteq T /\ UTask \subseteq T
    BY DEF QTask, UTask, Wind!Fd, WindBounds
  <2>2. \A X, Y : X \subseteq Y => \A q \in Seq(X) : q \in Seq(Y)
    OBVIOUS
  <2>3. queue \in Seq(T) /\ urgent \in Seq(T)
    BY <1>1, <2>1, <2>2, Zenon DEF WindFields
  <2>4. urgent \o queue \in Seq(T)
    BY <2>3, JoinedAt
  <2>5. PICK r : r = urgent \o queue
    OBVIOUS
  <2>6. \A i \in DOMAIN r : r[i].do \in {"shutdown", "ready", "unwind", "review", "ping"}
    <3>1. r \in Seq(T)
      BY <2>4, <2>5, Zenon
    <3>2. \A i \in DOMAIN r : r[i] \in T
      <4> HIDE DEF T
      <4>1. QED
        BY <3>1
    <3>3. QED
      BY <3>2
  <2>7. QED
    BY <2>5, <2>6 DEF Wind!Tasks
<1>4. /\ open \in [Wind!Fd -> BOOLEAN] /\ closing \in [Wind!Fd -> BOOLEAN] /\ counted \in [Wind!Fd -> BOOLEAN]
      /\ armed \in [Wind!Fd -> BOOLEAN] /\ room \in [Wind!Fd -> BOOLEAN] /\ hung \in [Wind!Fd -> BOOLEAN]
      /\ need_review \in BOOLEAN /\ new_second \in BOOLEAN /\ stray \in BOOLEAN
  BY Zenon DEF WindFlags
<1>5. /\ links \subseteq Wind!Fd /\ cut \subseteq Wind!Fd /\ unsent \in [Wind!Fd -> 0..MaxUnsent]
      /\ age \in [Wind!Fd -> 0..Grace + 1] /\ stage \in {"unwinding", "closed"}
  BY <1>1 DEF WindFields
<1>6. QED
  BY <1>2, <1>3, <1>4, <1>5, Zenon DEF Wind!TypeOK

\* The properties are conjuncts of the invariant.
LEMMA WindMeans == ASSUME WindBounds, WindInv PROVE Wind!AnswersSent /\ Wind!WaitsWithReason
<1>1. Wind!AnswersSent
  BY DEF WindInv, EndInv, Wind!AnswersSent
<1>2. ASSUME NEW c \in Wind!Fd, open[c], counted[c], ~armed[c] PROVE Wind!Task("ready", c) \in Wind!ToSet(urgent)
  BY <1>2 DEF WindInv, Open, Wind!ToSet
<1>3. QED
  BY <1>1, <1>2 DEF Wind!WaitsWithReason

\* So it always holds.
LEMMA WindKept == ASSUME WindBounds PROVE Wind!Spec => [](WindFlags /\ WindInv)
<1>1. ASSUME Wind!Init PROVE WindFlags /\ WindInv
  BY <1>1, WindInit, WindFlagsInit
<1>2. ASSUME WindFlags, WindInv, [Wind!Next]_Wind!windVars PROVE (WindFlags /\ WindInv)'
  BY <1>2, WindFlagsStep, WindStep
<1>3. QED
  BY <1>1, <1>2, PTL DEF Wind!Spec

\* The variables of WindDown keep their types; connection_count does not exceed the
\* number of connections.
THEOREM WindTypeOK == ASSUME WindBounds PROVE Wind!Spec => []Wind!TypeOK
<1>1. Wind!Spec => [](WindFlags /\ WindInv)
  BY WindKept
<1>2. ASSUME WindFlags, WindInv PROVE Wind!TypeOK
  BY <1>2, WindTypes
<1>3. QED
  BY <1>1, <1>2, PTL

\* fio_worker_cleanup closes no connection that has still to send, as long as no link
\* has been counted down, and the poll of a connection that waits is never lost: for any
\* number of connections, packets and seconds of grace.
THEOREM WindAnswersSent == ASSUME WindBounds PROVE Wind!Spec => [](Wind!AnswersSent /\ Wind!WaitsWithReason)
<1>1. Wind!Spec => [](WindFlags /\ WindInv)
  BY WindKept
<1>2. ASSUME WindFlags, WindInv PROVE Wind!AnswersSent /\ Wind!WaitsWithReason
  BY <1>2, WindMeans
<1>3. QED
  BY <1>1, <1>2, PTL

----------------------------------------------------------------------------
\* All of them hold in a server whose root, start and end are those of the modules.
THEOREM ServerProcessesSound ==
  ASSUME WorkersBounds, StartBounds, WindBounds
  PROVE  Procs!Spec /\ Start!Spec /\ Wind!Spec => []ProcessesSound
<1>1. Procs!Spec => [](Procs!TypeOK /\ Procs!NeverTooMany /\ Procs!NoneLeftBehind)
  BY WorkersTypeOK, WorkersNeverTooMany, WorkersNoneLeftBehind, PTL
<1>2. Start!Spec => [](Start!TypeOK /\ Start!ServesWhenAllUp /\ Start!FreedOnce)
  BY StartTypeOK, StartServesWhenAllUp, StartFreedOnce, PTL
<1>3. Wind!Spec => [](Wind!TypeOK /\ Wind!AnswersSent /\ Wind!WaitsWithReason)
  BY WindTypeOK, WindAnswersSent, PTL
<1>4. QED
  BY <1>1, <1>2, <1>3, PTL DEF ProcessesSound

----------------------------------------------------------------------------
\* The requests of a connection (Http1).

Deployable ==
    /\ Handlers # {} /\ IsFiniteSet(Handlers) /\ Nobody \notin Handlers
    /\ Limit \in Nat \ {0} /\ Throttle \in Nat

HandlerPlaces == {"idle", "try", "insist", "unschedule", "on_data", "consume", "throttle", "suspend",
           "parse", "close", "mark", "force", "unlock", "reschedule", "on_ready", "resume", "leave"}

\* on_data runs from "unschedule" to "unlock" and holds the task lock.
Inside(t) == in[t].at \in {"unschedule", "on_data", "consume", "throttle", "suspend", "parse", "close", "mark",
                           "force", "unlock"}

\* The threads that looked at the connection and may still handle a request.
Coming == {t \in Handlers : in[t].at \in {"try", "insist", "unschedule", "on_data", "consume", "parse"}}

HandlerTypes ==
    /\ pending \in Nat /\ late \in Nat
    /\ ended \in {"open", "closing", "closed"}
    /\ in \in [Handlers -> [at : HandlerPlaces, limit : 0..Limit]]

DataAlone == \A t \in Handlers : Inside(t) => task_lock = t

\* A batch starts at the throttle or below, and each response takes one from its limit.
Room ==
    /\ pending <= Throttle + Limit
    /\ \A t \in Handlers : Slow!At(t, "parse") => in[t].limit > 0 /\ pending + in[t].limit <= Throttle + Limit

\* No thread comes in once the connection is to be closed, and a thread that handles a
\* request then stops.
LateKept ==
    /\ ended = "open" => late = 0
    /\ ended # "open" => late + Cardinality(Coming) <= Cardinality(Handlers) - 1

HandlersInv == HandlerTypes /\ DataAlone /\ Room /\ LateKept

----------------------------------------------------------------------------
\* A step of t leaves the other threads where they are.
Moves(t, at) ==
    /\ in' \in [Handlers -> [at : HandlerPlaces, limit : 0..Limit]]
    /\ in'[t].at = at
    /\ \A u \in Handlers : u # t => in'[u] = in[u]

LEMMA GotoMoves ==
  ASSUME Deployable, HandlerTypes, NEW t \in Handlers, NEW at \in HandlerPlaces, Slow!Goto(t, at)
  PROVE  Moves(t, at)
BY DEF Deployable, HandlerTypes, Slow!Goto, Moves

LEMMA DoneMoves ==
  ASSUME Deployable, HandlerTypes, NEW t \in Handlers, Slow!Done(t)
  PROVE  Moves(t, "idle")
BY DEF Deployable, HandlerTypes, Slow!Done, Slow!Idle, Moves, HandlerPlaces

\* Counting goes on when nobody comes in to a connection that is to be closed.
LEMMA NobodyComesIn ==
  ASSUME Deployable, HandlerTypes, LateKept, ended' = "open" <=> ended = "open", late' = late,
         ended # "open" => Coming' \subseteq Coming
  PROVE  LateKept'
<1>1. CASE ended = "open"
  BY <1>1 DEF LateKept
<1>2. CASE ended # "open"
  <2>1. Coming' \subseteq Coming /\ Coming \subseteq Handlers
    BY <1>2 DEF Coming
  <2>2. IsFiniteSet(Handlers) /\ IsFiniteSet(Coming)
    BY <2>1, FS_Subset DEF Deployable
  <2>3. Cardinality(Coming') <= Cardinality(Coming) /\ IsFiniteSet(Coming')
    BY <2>1, <2>2, FS_Subset
  <2>4. Cardinality(Coming') \in Nat /\ Cardinality(Coming) \in Nat /\ Cardinality(Handlers) \in Nat
    BY <2>2, <2>3, FS_CardinalityType
  <2> QED BY <1>2, <2>3, <2>4 DEF LateKept, HandlerTypes
<1> QED BY <1>1, <1>2

\* A thread that moves on inside, or out, does not disturb the count.
LEMMA MoveLateKept ==
  ASSUME Deployable, HandlerTypes, LateKept, ended' = "open" <=> ended = "open", late' = late,
         NEW t \in Handlers, NEW at \in HandlerPlaces, Moves(t, at), ended # "open" => (t \in Coming' => t \in Coming)
  PROVE  LateKept'
<1>1. ended # "open" => Coming' \subseteq Coming
  <2> SUFFICES ASSUME ended # "open", NEW u \in Coming' PROVE u \in Coming
    OBVIOUS
  <2>1. CASE u = t BY <2>1
  <2>2. CASE u # t BY <2>2 DEF Coming, Moves
  <2> QED BY <2>1, <2>2
<1> QED BY <1>1, NobodyComesIn

\* The thread that handles a request of a connection that is to be closed stops, and so
\* the requests handled late and the threads that may still handle one do not grow.
LEMMA LateIsCounted ==
  ASSUME Deployable, HandlerTypes, LateKept, NEW t \in Handlers, t \in Coming,
         Coming' \subseteq Coming \ {t}, ended' # "open",
         late' = IF ended = "open" THEN late ELSE late + 1
  PROVE  LateKept'
<1>1. IsFiniteSet(Handlers) /\ Coming \subseteq Handlers
  BY DEF Deployable, Coming
<1>2. IsFiniteSet(Coming) /\ Cardinality(Coming) <= Cardinality(Handlers)
  BY <1>1, FS_Subset
<1>3. IsFiniteSet(Coming \ {t}) /\ Cardinality(Coming \ {t}) = Cardinality(Coming) - 1
  BY <1>2, FS_RemoveElement
<1>4. IsFiniteSet(Coming') /\ Cardinality(Coming') <= Cardinality(Coming) - 1
  BY <1>3, FS_Subset
<1>5. Cardinality(Coming') \in Nat /\ Cardinality(Coming) \in Nat /\ Cardinality(Handlers) \in Nat
  BY <1>1, <1>2, <1>4, FS_CardinalityType
<1> QED BY <1>2, <1>4, <1>5 DEF LateKept, HandlerTypes

\* The thread that closes the connection, or marks it, handles no more of it.
LEMMA CloserIsCounted ==
  ASSUME Deployable, HandlerTypes, LateKept, ended = "open", late' = late,
         NEW t \in Handlers, Coming' \subseteq Handlers \ {t}
  PROVE  LateKept'
<1>1. /\ IsFiniteSet(Handlers \ {t}) /\ Cardinality(Handlers \ {t}) = Cardinality(Handlers) - 1
      /\ Cardinality(Handlers) \in Nat
  BY FS_RemoveElement, FS_CardinalityType DEF Deployable
<1>2. IsFiniteSet(Coming') /\ Cardinality(Coming') <= Cardinality(Handlers) - 1
  BY <1>1, FS_Subset
<1>3. Cardinality(Coming') \in Nat /\ late = 0
  BY <1>2, FS_CardinalityType DEF LateKept
<1> QED BY <1>1, <1>2, <1>3 DEF LateKept

----------------------------------------------------------------------------
LEMMA HandlersInit ==
  ASSUME Deployable, Slow!Init
  PROVE  HandlersInv
<1>1. HandlerTypes
  BY DEF Deployable, Slow!Init, HandlerTypes, Slow!Idle, HandlerPlaces
<1>2. DataAlone /\ Room
  BY DEF Deployable, Slow!Init, DataAlone, Inside, Room, Slow!At, Slow!Idle
<1>3. LateKept
  BY DEF Slow!Init, LateKept
<1> QED BY <1>1, <1>2, <1>3 DEF HandlersInv

\* Steps that change neither what is counted nor the task lock: they preserve the
\* invariant when the thread does not come in, enter or start to parse.
LEMMA PlainMove ==
  ASSUME Deployable, HandlersInv, NEW t \in Handlers, NEW at \in HandlerPlaces, Moves(t, at),
         UNCHANGED <<pending, ended, late, task_lock>>,
         at # "parse",
         Inside(t)' => Inside(t),
         ended # "open" => (t \in Coming' => t \in Coming)
  PROVE  HandlersInv'
<1>1. HandlerTypes'
  BY DEF HandlersInv, HandlerTypes, Moves
<1>2. DataAlone'
  BY DEF HandlersInv, DataAlone, Inside, Moves
<1>3. Room'
  BY DEF HandlersInv, Room, Slow!At, Moves
<1>4. LateKept'
  BY MoveLateKept DEF HandlersInv
<1> QED BY <1>1, <1>2, <1>3, <1>4 DEF HandlersInv

----------------------------------------------------------------------------
\* The steps that only move a thread.
LEMMA TakeKeeps ==
  ASSUME Deployable, HandlersInv, NEW t \in Handlers, Slow!TakeData(t) \/ Slow!TakeForced(t)
  PROVE  HandlersInv'
<1>1. CASE ended # "open"
  BY <1>1 DEF Slow!TakeData, Slow!TakeForced, Slow!Checked, HandlersInv, HandlerTypes, DataAlone, Inside, Room, Slow!At, LateKept, Coming, Slow!Link, Slow!Traffic
<1>2. CASE ended = "open"
  <2>1. UNCHANGED <<pending, ended, late, task_lock>>
    BY DEF Slow!TakeData, Slow!TakeForced, Slow!Link
  <2>2. CASE Slow!Goto(t, "try")
    <3>1. Moves(t, "try")
      BY <2>2, GotoMoves DEF HandlersInv, HandlerPlaces
    <3> QED BY <1>2, <2>1, <3>1, PlainMove DEF HandlerPlaces, Inside, Moves
  <2>3. CASE Slow!Goto(t, "insist")
    <3>1. Moves(t, "insist")
      BY <2>3, GotoMoves DEF HandlersInv, HandlerPlaces
    <3> QED BY <1>2, <2>1, <3>1, PlainMove DEF HandlerPlaces, Inside, Moves
  <2> QED BY <1>2, <2>2, <2>3 DEF Slow!TakeData, Slow!TakeForced, Slow!Checked
<1> QED BY <1>1, <1>2

LEMMA LockKeeps ==
  ASSUME Deployable, HandlersInv, NEW t \in Handlers, Slow!TryLock(t)
  PROVE  HandlersInv'
<1>1. Moves(t, "unschedule")
  BY GotoMoves DEF Slow!TryLock, HandlersInv, HandlerPlaces
<1>2. UNCHANGED <<pending, ended, late>>
  BY DEF Slow!TryLock, Slow!Link
<1>3. HandlerTypes'
  BY <1>1, <1>2 DEF HandlersInv, HandlerTypes, Moves
<1>4. DataAlone'
  <2>1. \A u \in Handlers : ~Inside(u)
    BY DEF Slow!TryLock, HandlersInv, DataAlone, Deployable
  <2> QED BY <1>1, <2>1 DEF Slow!TryLock, DataAlone, Inside, Moves
<1>5. Room'
  BY <1>1, <1>2 DEF HandlersInv, Room, Slow!At, Moves
<1>6. LateKept'
  <2>1. t \in Coming
    BY DEF Slow!TryLock, Slow!At, Coming
  <2> QED BY <1>1, <1>2, <2>1, MoveLateKept DEF HandlersInv, HandlerPlaces
<1> QED BY <1>3, <1>4, <1>5, <1>6 DEF HandlersInv

LEMMA UnlockKeeps ==
  ASSUME Deployable, HandlersInv, NEW t \in Handlers, Slow!Unlock(t)
  PROVE  HandlersInv'
<1>1. Moves(t, "reschedule")
  BY GotoMoves DEF Slow!Unlock, HandlersInv, HandlerPlaces
<1>2. UNCHANGED <<pending, ended, late>>
  BY DEF Slow!Unlock, Slow!Link
<1>3. HandlerTypes'
  BY <1>1, <1>2 DEF HandlersInv, HandlerTypes, Moves
<1>4. DataAlone'
  <2>1. task_lock = t
    BY DEF Slow!Unlock, Slow!At, HandlersInv, DataAlone, Inside
  <2> QED BY <1>1, <2>1 DEF HandlersInv, DataAlone, Inside, Moves
<1>5. Room'
  BY <1>1, <1>2 DEF HandlersInv, Room, Slow!At, Moves
<1>6. LateKept'
  <2>1. t \notin Coming'
    BY <1>1 DEF Coming, Moves
  <2> QED BY <1>1, <1>2, <2>1, MoveLateKept DEF HandlersInv, HandlerPlaces
<1> QED BY <1>3, <1>4, <1>5, <1>6 DEF HandlersInv

\* A flush makes room and can close the connection that is to be closed.
LEMMA FlushKeeps ==
  ASSUME Deployable, HandlersInv, NEW t \in Handlers, Slow!Flush(t)
  PROVE  HandlersInv'
<1>1. /\ pending > 0 /\ pending' = pending - 1 /\ in' = in /\ task_lock' = task_lock /\ late' = late
      /\ ended' = ended \/ (ended = "closing" /\ ended' = "closed")
  BY DEF Slow!Flush, Slow!Drained
<1>2. HandlerTypes'
  BY <1>1 DEF HandlersInv, HandlerTypes
<1>3. DataAlone'
  BY <1>1 DEF HandlersInv, DataAlone, Inside
<1>4. Room'
  BY <1>1 DEF HandlersInv, Room, Slow!At, HandlerTypes, Deployable
<1>5. LateKept'
  BY <1>1 DEF HandlersInv, LateKept, Coming
<1> QED BY <1>2, <1>3, <1>4, <1>5 DEF HandlersInv

\* A batch is opened where there is room for it.
LEMMA ConsumeKeeps ==
  ASSUME Deployable, HandlersInv, NEW t \in Handlers, Slow!Consume(t)
  PROVE  HandlersInv'
<1> DEFINE next == IF Slow!TooMany THEN "throttle" ELSE IF buf = 0 THEN "unlock" ELSE "parse"
<1>1. Moves(t, next) /\ in'[t].limit = Limit
  BY DEF Slow!Consume, Moves, HandlersInv, HandlerTypes, HandlerPlaces, Deployable
<1>2. UNCHANGED <<pending, ended, late, task_lock>>
  BY DEF Slow!Consume, Slow!Link
<1>3. HandlerTypes'
  BY <1>1, <1>2 DEF HandlersInv, HandlerTypes, Moves
<1>4. DataAlone'
  <2>1. Inside(t)
    BY DEF Slow!Consume, Slow!At, Inside
  <2> QED BY <1>1, <1>2, <2>1 DEF HandlersInv, DataAlone, Inside, Moves
<1>5. Room'
  <2>1. next = "parse" => pending <= Throttle
    BY DEF Slow!TooMany, HandlersInv, HandlerTypes, Deployable
  <2>2. next = "parse" => pending + Limit <= Throttle + Limit /\ Limit > 0
    BY <2>1 DEF HandlersInv, HandlerTypes, Deployable
  <2> QED BY <1>1, <1>2, <2>2 DEF HandlersInv, Room, Slow!At, Moves
<1>6. LateKept'
  <2>1. t \in Coming
    BY DEF Slow!Consume, Slow!At, Coming
  <2> QED BY <1>1, <1>2, <2>1, MoveLateKept DEF HandlersInv, HandlerPlaces
<1> QED BY <1>3, <1>4, <1>5, <1>6 DEF HandlersInv

LEMMA ParseKeeps ==
  ASSUME Deployable, HandlersInv, NEW t \in Handlers, Slow!Parse(t)
  PROVE  HandlersInv'
<1> DEFINE kept == in[t].limit - 1
           next == IF Slow!Closes THEN "close" ELSE Slow!After(buf', kept)
<1>1. in[t].at = "parse" /\ in[t].limit \in 0..Limit /\ in[t].limit > 0 /\ pending + in[t].limit <= Throttle + Limit
  BY DEF Slow!Parse, Slow!At, HandlersInv, HandlerTypes, Room
<1>2. Moves(t, next) /\ in'[t].limit = kept
  <2>1. kept \in 0..Limit /\ next \in HandlerPlaces
    BY <1>1 DEF HandlerPlaces, Deployable, Slow!After
  <2>2. in' = [in EXCEPT ![t] = [at |-> next, limit |-> kept]]
    BY DEF Slow!Parse
  <2> HIDE DEF kept, next
  <2> QED BY <2>1, <2>2 DEF Moves, HandlersInv, HandlerTypes
<1>3. pending' \in {pending, pending + 1} /\ pending \in Nat /\ task_lock' = task_lock
  BY DEF Slow!Parse, Slow!Answered, HandlersInv, HandlerTypes
<1>4. /\ late' = (IF ended = "open" THEN late ELSE late + 1)
      /\ ended' = ended \/ (ended = "closing" /\ ended' = "closed")
  BY DEF Slow!Parse, Slow!Answered, Slow!Drained
<1>5. HandlerTypes'
  BY <1>2, <1>3, <1>4 DEF HandlersInv, HandlerTypes, Moves
<1>6. DataAlone'
  <2>1. Inside(t)
    BY <1>1 DEF Inside
  <2> QED BY <1>2, <1>3, <2>1 DEF HandlersInv, DataAlone, Inside, Moves
<1>7. Room'
  <2>1. pending' <= Throttle + Limit
    BY <1>1, <1>3 DEF Deployable
  <2>2. Slow!At(t, "parse")' => in'[t].limit > 0 /\ pending' + in'[t].limit <= Throttle + Limit
    <3>1. SUFFICES ASSUME next = "parse" PROVE kept > 0 /\ pending' + kept <= Throttle + Limit
      BY <1>2 DEF Slow!At, Moves
    <3>2. kept > 0
      BY <3>1 DEF Slow!After, Slow!More
    <3> QED BY <1>1, <1>3, <3>2 DEF Deployable
  <2>3. \A u \in Handlers : u # t => ~Slow!At(u, "parse")'
    BY <1>1, <1>2 DEF HandlersInv, DataAlone, Inside, Slow!At, Moves
  <2> QED BY <2>1, <2>2, <2>3 DEF Room
<1>8. LateKept'
  <2>1. t \in Coming
    BY <1>1 DEF Coming
  <2>2. CASE ended # "open"
    <3>1. next = "close"
      BY <2>2 DEF Slow!Closes
    <3>2. Coming' \subseteq Coming \ {t}
      BY <1>2, <3>1 DEF Coming, Moves
    <3> QED BY <1>4, <2>1, <2>2, <3>2, LateIsCounted DEF HandlersInv
  <2>3. CASE ended = "open"
    BY <1>4, <2>3 DEF HandlersInv, LateKept
  <2> QED BY <2>2, <2>3
<1> QED BY <1>5, <1>6, <1>7, <1>8 DEF HandlersInv

\* fio_close: the thread goes on without parsing, and the connection may be one that is
\* to be closed from here on.
LEMMA CloseKeeps ==
  ASSUME Deployable, HandlersInv, NEW t \in Handlers, Slow!Close(t) \/ Slow!Mark(t)
  PROVE  HandlersInv'
<1>1. /\ in[t].at \in {"close", "mark"} /\ UNCHANGED <<pending, late, task_lock>>
      /\ ended' = ended \/ ended' \in {"closing", "closed"}
  BY DEF Slow!Close, Slow!Mark, Slow!At, Slow!Traffic
<1>2. PICK at \in {"mark", "force", "unlock"} : Moves(t, at)
  <2>1. \E at \in {"mark", "force", "unlock"} : Slow!Goto(t, at)
    BY DEF Slow!Close, Slow!Mark, Slow!Closed, Slow!After, Slow!More
  <2> QED BY <2>1, GotoMoves DEF HandlersInv, HandlerPlaces
<1>3. HandlerTypes'
  BY <1>1, <1>2 DEF HandlersInv, HandlerTypes, Moves
<1>4. DataAlone'
  BY <1>1, <1>2 DEF HandlersInv, DataAlone, Inside, Moves
<1>5. Room'
  BY <1>1, <1>2 DEF HandlersInv, Room, Slow!At, Moves
<1>6. LateKept'
  <2>1. t \notin Coming' /\ at \in HandlerPlaces
    BY <1>2 DEF Coming, Moves, HandlerPlaces
  <2>2. CASE ended' = "open" <=> ended = "open"
    BY <1>1, <1>2, <2>1, <2>2, MoveLateKept DEF HandlersInv
  <2>3. CASE ended = "open"
    <3>1. Coming' \subseteq Handlers \ {t}
      BY <2>1 DEF Coming
    <3> QED BY <1>1, <2>3, <3>1, CloserIsCounted DEF HandlersInv
  <2> QED BY <1>1, <2>2, <2>3
<1> QED BY <1>3, <1>4, <1>5, <1>6 DEF HandlersInv

\* The other steps of on_data and on_ready move the thread out, or on without parsing.
Plain(t) ==
    \/ Slow!Postpone(t) \/ Slow!Unschedule(t) \/ Slow!OnData(t) \/ Slow!ThrottleClient(t) \/ Slow!Suspend(t) \/ Slow!ForceRest(t)
    \/ Slow!Reschedule(t) \/ Slow!TakeReady(t) \/ Slow!OnReady(t) \/ Slow!Resume(t) \/ Slow!Leave(t)

LEMMA PlainKeeps ==
  ASSUME Deployable, HandlersInv, NEW t \in Handlers, Plain(t)
  PROVE  HandlersInv'
<1>1. UNCHANGED <<pending, ended, late, task_lock>>
  BY DEF Plain, Slow!Postpone, Slow!Unschedule, Slow!OnData, Slow!ThrottleClient, Slow!Suspend, Slow!ForceRest, Slow!Reschedule, Slow!TakeReady,
         Slow!OnReady, Slow!Resume, Slow!Leave, Slow!Link
<1>2. CASE Slow!Postpone(t) \/ Slow!Reschedule(t) \/ Slow!Leave(t)
  <2>1. Moves(t, "idle")
    BY <1>2, DoneMoves DEF Slow!Postpone, Slow!Reschedule, Slow!Leave, HandlersInv
  <2> QED BY <1>1, <2>1, PlainMove DEF HandlerPlaces, Inside, Coming, Moves
<1>3. CASE Slow!Unschedule(t)
  <2>1. Moves(t, "on_data") /\ Inside(t) /\ t \in Coming
    BY <1>3, GotoMoves DEF Slow!Unschedule, HandlersInv, HandlerPlaces, Slow!At, Inside, Coming
  <2> QED BY <1>1, <2>1, PlainMove DEF HandlerPlaces
<1>4. CASE Slow!OnData(t)
  <2>1. Inside(t) /\ t \in Coming
    BY <1>4 DEF Slow!OnData, Slow!At, Inside, Coming
  <2>2. Moves(t, "suspend") \/ Moves(t, "consume")
    BY <1>4, GotoMoves DEF Slow!OnData, HandlersInv, HandlerPlaces
  <2> QED BY <1>1, <2>1, <2>2, PlainMove DEF HandlerPlaces
<1>5. CASE Slow!ThrottleClient(t) \/ Slow!Suspend(t) \/ Slow!ForceRest(t)
  <2>1. Inside(t)
    BY <1>5 DEF Slow!ThrottleClient, Slow!Suspend, Slow!ForceRest, Slow!At, Inside
  <2>2. Moves(t, "suspend") \/ Moves(t, "unlock")
    BY <1>5, GotoMoves DEF Slow!ThrottleClient, Slow!Suspend, Slow!ForceRest, HandlersInv, HandlerPlaces
  <2> QED BY <1>1, <2>1, <2>2, PlainMove DEF HandlerPlaces, Coming, Moves
<1>6. CASE Slow!TakeReady(t) \/ Slow!OnReady(t) \/ Slow!Resume(t)
  <2>1. Moves(t, "on_ready") \/ Moves(t, "resume") \/ Moves(t, "leave")
    BY <1>6, GotoMoves DEF Slow!TakeReady, Slow!OnReady, Slow!Resume, HandlersInv, HandlerPlaces
  <2> QED BY <1>1, <2>1, PlainMove DEF HandlerPlaces, Inside, Coming, Moves
<1> QED BY <1>2, <1>3, <1>4, <1>5, <1>6 DEF Plain

----------------------------------------------------------------------------
LEMMA HandlersStep ==
  ASSUME Deployable, HandlersInv, [Slow!Next]_Slow!vars
  PROVE  HandlersInv'
<1>1. CASE Slow!Request \/ Slow!PollRead \/ UNCHANGED Slow!vars
  <2>1. UNCHANGED <<pending, ended, late, task_lock, in>>
    BY <1>1 DEF Slow!Request, Slow!PollRead, Slow!vars, Slow!Link, Slow!Traffic
  <2> QED BY <2>1 DEF HandlersInv, HandlerTypes, DataAlone, Inside, Room, Slow!At, LateKept, Coming
<1>2. ASSUME NEW t \in Handlers, Slow!Flush(t) \/ Slow!TakeData(t) \/ Slow!TakeForced(t) \/ Slow!TakeReady(t) \/ Slow!Handler(t)
      PROVE  HandlersInv'
  <2>1. CASE Slow!Flush(t) BY <2>1, FlushKeeps
  <2>2. CASE Slow!TakeData(t) \/ Slow!TakeForced(t) BY <2>2, TakeKeeps
  <2>3. CASE Slow!TryLock(t) BY <2>3, LockKeeps
  <2>4. CASE Slow!Unlock(t) BY <2>4, UnlockKeeps
  <2>5. CASE Slow!Consume(t) BY <2>5, ConsumeKeeps
  <2>6. CASE Slow!Parse(t) BY <2>6, ParseKeeps
  <2>7. CASE Slow!Close(t) \/ Slow!Mark(t) BY <2>7, CloseKeeps
  <2>8. CASE Plain(t) BY <2>8, PlainKeeps
  <2> QED BY <1>2, <2>1, <2>2, <2>3, <2>4, <2>5, <2>6, <2>7, <2>8 DEF Slow!Handler, Plain
<1> QED BY <1>1, <1>2 DEF Slow!Next

LEMMA HandlersHold ==
  ASSUME Deployable
  PROVE  Slow!Spec => []HandlersInv
<1>1. Slow!Init => HandlersInv
  BY HandlersInit
<1>2. HandlersInv /\ [Slow!Next]_Slow!vars => HandlersInv'
  BY HandlersStep
<1> QED BY <1>1, <1>2, PTL DEF Slow!Spec

\* However many requests a client pipelines and however slowly it reads, no more than one
\* batch of responses is in memory above the throttle (http1_consume_data).
THEOREM Http1PendingBounded ==
  ASSUME Deployable
  PROVE  Slow!Spec => []PendingBounded
<1>1. HandlersInv => PendingBounded
  BY DEF HandlersInv, Room, PendingBounded, Slow!PendingBounded
<1> QED BY <1>1, HandlersHold, PTL

\* Each thread but the one that closes handles at most one request of a connection that
\* is to be closed (deferred_on_data looks at it before it has the lock).
THEOREM Http1LateBounded ==
  ASSUME Deployable
  PROVE  Slow!Spec => []Slow!LateBounded
<1>1. HandlersInv => Slow!LateBounded
  <2> SUFFICES ASSUME HandlersInv PROVE Slow!LateBounded
    OBVIOUS
  <2>1. IsFiniteSet(Handlers) /\ IsFiniteSet(Coming) /\ Cardinality(Handlers) > 0
    BY FS_Subset, FS_EmptySet, FS_CardinalityType DEF Deployable, Coming
  <2>2. Cardinality(Handlers) \in Nat /\ Cardinality(Coming) \in Nat
    BY <2>1, FS_CardinalityType
  <2>3. Slow!Cardinality(Handlers) = Cardinality(Handlers)
    BY DEF Slow!Cardinality, Cardinality
  <2> QED BY <2>1, <2>2, <2>3 DEF HandlersInv, HandlerTypes, LateKept, Slow!LateBounded
<1> QED BY <1>1, HandlersHold, PTL

----------------------------------------------------------------------------
\* What the types rest on: no request gets lost or counted twice on its way from the
\* client to its response, and a thread that parses has something to parse.
Accounts ==
    /\ sent \in Nat /\ answered \in Nat /\ wire \in Nat /\ buf \in Nat /\ pending \in Nat
    /\ sent <= MaxRequests /\ answered + wire + buf + pending <= sent
    /\ ended = "open" => sent = answered + wire + buf + pending
    /\ ended = "closed" => pending = 0
    /\ \A t \in Handlers : Slow!At(t, "parse") => buf > 0

HandlerFlags ==
    /\ stop \in BOOLEAN /\ scheduled \in BOOLEAN /\ reading \in BOOLEAN /\ drained \in BOOLEAN
    /\ task_lock \in Handlers \union {Nobody} /\ write_lock \in Handlers \union {Nobody}

TasksCounted == data \in Nat /\ events \in Nat /\ missed \subseteq {"on_ready", "close"}

\* Nobody else parses while t is in a batch.
LEMMA ParsesAlone ==
  ASSUME Deployable, HandlersInv, NEW t \in Handlers, Inside(t), NEW u \in Handlers, u # t
  PROVE  ~Slow!At(u, "parse")
BY DEF HandlersInv, DataAlone, Inside, Slow!At, Deployable

\* The steps that leave the requests where they are.
LEMMA PlainAccounts ==
  ASSUME Accounts, UNCHANGED <<Slow!Traffic, buf, pending, ended>>,
         \A t \in Handlers : (Slow!At(t, "parse"))' => Slow!At(t, "parse") \/ buf # 0
  PROVE  Accounts'
BY DEF Accounts, Slow!Traffic

LEMMA ParseAccounts ==
  ASSUME Deployable, HandlersInv, Accounts, NEW t \in Handlers, Slow!Parse(t)
  PROVE  Accounts'
<1>0. /\ sent \in Nat /\ answered \in Nat /\ wire \in Nat /\ buf \in Nat /\ pending \in Nat
      /\ answered + wire + buf + pending <= sent
  BY DEF Accounts
<1>1. /\ Slow!At(t, "parse") /\ sent' = sent /\ wire' = wire /\ buf > 0
      /\ buf' = IF Slow!Refused THEN buf ELSE buf - 1
      /\ IF Slow!Refused \/ ended = "closed" THEN UNCHANGED <<pending, answered, drained, ended>>
         ELSE Slow!Answered
  BY DEF Slow!Parse, Accounts
<1>2. \A u \in Handlers : (Slow!At(u, "parse"))' => buf' > 0
  <2>1. Inside(t)
    BY <1>1 DEF Inside, Slow!At
  <2>2. \A u \in Handlers : u # t => ~(Slow!At(u, "parse"))'
    <3>1. \A u \in Handlers : u # t => in'[u] = in[u]
      BY DEF Slow!Parse, HandlersInv, HandlerTypes
    <3> QED BY <2>1, <3>1, ParsesAlone DEF Slow!At
  <2>3. (Slow!At(t, "parse"))' => buf' > 0
    BY DEF Slow!Parse, Slow!After, Slow!More, Slow!At, HandlersInv, HandlerTypes
  <2> QED BY <2>2, <2>3
<1>3. CASE Slow!Refused
  <2>1. UNCHANGED <<Slow!Traffic, buf, pending, ended>>
    BY <1>1, <1>3 DEF Slow!Traffic
  <2> QED BY <1>2, <2>1 DEF Accounts, Slow!Traffic
<1>4. CASE ~Slow!Refused
  <2>1. /\ answered' \in Nat /\ pending' \in Nat
        /\ answered' + pending' <= answered + pending + 1
        /\ ended # "closed" => answered' + pending' = answered + pending + 1
        /\ ended' = ended \/ (ended = "closing" /\ ended' = "closed")
        /\ ended' = "closed" => pending' = 0
    <3>1. CASE ended = "closed"
      BY <1>1, <1>4, <3>1 DEF Accounts
    <3>2. CASE ended # "closed"
      BY <1>1, <1>4, <3>2 DEF Accounts, Slow!Answered, Slow!Drained
    <3> QED BY <3>1, <3>2
  <2>2. buf' = buf - 1 /\ buf' \in Nat
    BY <1>0, <1>1, <1>4
  <2>3. answered' + wire + (buf - 1) + pending' <= sent
    <3>1. \A a2, p2 \in Nat : a2 + p2 <= answered + pending + 1 => a2 + wire + (buf - 1) + p2 <= sent
      BY <1>0, <1>1
    <3> QED BY <2>1, <3>1, Zenon
  <2>4. ended' = "open" => sent = answered' + wire + (buf - 1) + pending'
    <3>1. ended' = "open" => /\ sent = answered + wire + buf + pending
                             /\ answered' + pending' = answered + pending + 1
      BY <2>1 DEF Accounts
    <3>2. \A a2, p2 \in Nat : a2 + p2 = answered + pending + 1
                                => a2 + wire + (buf - 1) + p2 = answered + wire + buf + pending
      BY <1>0
    <3> QED BY <2>1, <3>1, <3>2, Zenon
  <2>5. /\ answered' + wire' + buf' + pending' <= sent'
        /\ ended' = "open" => sent' = answered' + wire' + buf' + pending'
    BY <1>1, <2>2, <2>3, <2>4
  <2>6. sent' \in Nat /\ wire' \in Nat /\ sent' <= MaxRequests
    BY <1>1 DEF Accounts
  <2> QED BY <1>2, <2>1, <2>2, <2>5, <2>6 DEF Accounts
<1> QED BY <1>3, <1>4

\* What is left in the buffer is dropped with the connection.
LEMMA CloseAccounts ==
  ASSUME Deployable, HandlersInv, Accounts, NEW t \in Handlers, Slow!Close(t) \/ Slow!Mark(t)
  PROVE  Accounts'
<1>1. /\ sent' = sent /\ answered' = answered /\ wire' = wire /\ pending' = pending
      /\ (buf' = buf /\ ended' = ended) \/ (buf' = 0 /\ ended' # "open")
      /\ ended' = "closed" => pending = 0
  BY DEF Slow!Close, Slow!Mark, Slow!Closed, Slow!Traffic, Accounts
<1>2. \A u \in Handlers : ~(Slow!At(u, "parse"))'
  <2>1. Inside(t) /\ ~Slow!At(t, "parse")
    BY DEF Slow!Close, Slow!Mark, Inside, Slow!At
  <2>2. \E at \in {"mark", "force", "unlock"} : Slow!Goto(t, at)
    BY DEF Slow!Close, Slow!Mark, Slow!Closed, Slow!After, Slow!More
  <2>3. \A u \in Handlers : (Slow!At(u, "parse"))' => Slow!At(u, "parse")
    BY <2>2 DEF Slow!Goto, Slow!At, HandlersInv, HandlerTypes
  <2> QED BY <2>1, <2>3, ParsesAlone
<1>3. buf' \in Nat /\ answered' + wire' + buf' + pending' <= sent'
  BY <1>1 DEF Accounts
<1> QED BY <1>1, <1>2, <1>3 DEF Accounts

LEMMA FlushAccounts ==
  ASSUME Accounts, NEW t \in Handlers, Slow!Flush(t)
  PROVE  Accounts'
<1>1. /\ pending > 0 /\ pending' = pending - 1 /\ answered' = answered + 1
      /\ sent' = sent /\ wire' = wire /\ buf' = buf /\ in' = in
      /\ ended' = ended \/ (ended' = "closed" /\ pending = 1)
  <2>1. pending > 1 \/ pending = 1
    BY DEF Slow!Flush, Accounts
  <2> QED BY <2>1 DEF Slow!Flush, Slow!Drained
<1>2. pending' \in Nat /\ answered' \in Nat /\ answered' + wire + buf + pending' = answered + wire + buf + pending
  BY <1>1 DEF Accounts
<1>3. ended' = "open" => ended = "open"
  BY <1>1
<1>4. ended' = "closed" => pending' = 0
  BY <1>1 DEF Accounts
<1> QED BY <1>1, <1>2, <1>3, <1>4 DEF Accounts, Slow!At

LEMMA NextAccounts ==
  ASSUME Deployable, MaxRequests \in Nat, HandlersInv, Accounts, [Slow!Next]_Slow!vars
  PROVE  Accounts'
<1>1. CASE UNCHANGED Slow!vars
  BY <1>1, PlainAccounts DEF Slow!vars, Slow!Link, Slow!At
<1>2. CASE Slow!Request
  <2>1. /\ sent' = sent + 1 /\ wire' = wire + 1 /\ sent < MaxRequests /\ answered' = answered
        /\ buf' = buf /\ pending' = pending /\ ended' = ended /\ in' = in
    BY <1>2 DEF Slow!Request, Slow!Link
  <2>2. /\ sent' \in Nat /\ wire' \in Nat /\ sent' <= MaxRequests
        /\ answered + wire' + buf + pending = (answered + wire + buf + pending) + 1
    <3>1. /\ sent \in Nat /\ answered \in Nat /\ wire \in Nat /\ buf \in Nat /\ pending \in Nat
          /\ MaxRequests \in Nat
      BY DEF Accounts
    <3>2. sent' \in Nat /\ wire' \in Nat /\ sent' <= MaxRequests
      BY <2>1, <3>1
    <3> QED BY <2>1, <3>1, <3>2
  <2>3. answered' + wire' + buf' + pending' = (answered + wire + buf + pending) + 1
    BY <2>1, <2>2
  <2>4. answered' + wire' + buf' + pending' <= sent'
    BY <2>1, <2>3 DEF Accounts
  <2>5. ended' = "open" => sent' = answered' + wire' + buf' + pending'
    BY <2>1, <2>3 DEF Accounts
  <2> QED BY <2>1, <2>2, <2>4, <2>5 DEF Accounts, Slow!At
<1>3. CASE Slow!PollRead
  BY <1>3, PlainAccounts DEF Slow!PollRead, Slow!Link, Slow!At
<1>4. ASSUME NEW t \in Handlers, Slow!Flush(t) PROVE Accounts'
  BY <1>4, FlushAccounts
<1>5. ASSUME NEW t \in Handlers, Slow!TakeData(t) \/ Slow!TakeForced(t) \/ Slow!TakeReady(t) PROVE Accounts'
  <2>1. UNCHANGED <<Slow!Traffic, buf, pending, ended>>
    BY <1>5 DEF Slow!TakeData, Slow!TakeForced, Slow!TakeReady, Slow!Link
  <2>2. in' = in \/ \E at \in {"try", "insist", "on_ready"} : Slow!Goto(t, at)
    BY <1>5 DEF Slow!TakeData, Slow!TakeForced, Slow!TakeReady, Slow!Checked
  <2>3. \A u \in Handlers : (Slow!At(u, "parse"))' => Slow!At(u, "parse")
    BY <2>2 DEF Slow!Goto, Slow!At, HandlersInv, HandlerTypes
  <2> QED BY <2>1, <2>3, PlainAccounts
<1>6. ASSUME NEW t \in Handlers, Slow!OnData(t) PROVE Accounts'
  <2>1. /\ Slow!At(t, "on_data") /\ sent' = sent /\ answered' = answered /\ pending' = pending /\ ended' = ended
        /\ (buf' = buf /\ wire' = wire) \/ (buf' = buf + wire /\ wire' = 0)
        /\ \E at \in {"suspend", "consume"} : Slow!Goto(t, at)
    <3>1. CASE stop
      BY <1>6, <3>1 DEF Slow!OnData, Slow!Link
    <3>2. CASE ~stop
      BY <1>6, <3>2 DEF Slow!OnData, Slow!ReadInto, Slow!Link
    <3> QED BY <3>1, <3>2
  <2>2. \A u \in Handlers : (Slow!At(u, "parse"))' => Slow!At(u, "parse")
    BY <2>1 DEF Slow!Goto, Slow!At, HandlersInv, HandlerTypes
  <2>3. \A u \in Handlers : ~(Slow!At(u, "parse"))'
    <3>1. Inside(t) /\ ~Slow!At(t, "parse")
      BY <2>1 DEF Inside, Slow!At
    <3> QED BY <2>2, <3>1, ParsesAlone
  <2>4. /\ buf' \in Nat /\ wire' \in Nat
        /\ answered + wire' + buf' + pending = answered + wire + buf + pending
    BY <2>1 DEF Accounts
  <2> QED BY <2>1, <2>3, <2>4 DEF Accounts
<1>7. ASSUME NEW t \in Handlers, Slow!Consume(t) PROVE Accounts'
  <2>1. UNCHANGED <<Slow!Traffic, buf, pending, ended>>
    BY <1>7 DEF Slow!Consume, Slow!Link
  <2>2. \A u \in Handlers : (Slow!At(u, "parse"))' => Slow!At(u, "parse") \/ buf # 0
    BY <1>7 DEF Slow!Consume, Slow!At, HandlersInv, HandlerTypes
  <2> QED BY <2>1, <2>2, PlainAccounts
<1>8. ASSUME NEW t \in Handlers, Slow!Parse(t) \/ Slow!Close(t) \/ Slow!Mark(t) PROVE Accounts'
  BY <1>8, ParseAccounts, CloseAccounts
<1>9. ASSUME NEW t \in Handlers,
             \/ Slow!TryLock(t) \/ Slow!Postpone(t) \/ Slow!Unschedule(t) \/ Slow!ThrottleClient(t) \/ Slow!Suspend(t)
             \/ Slow!ForceRest(t) \/ Slow!Unlock(t) \/ Slow!Reschedule(t) \/ Slow!OnReady(t) \/ Slow!Resume(t) \/ Slow!Leave(t)
      PROVE  Accounts'
  <2>1. UNCHANGED <<Slow!Traffic, buf, pending, ended>>
    BY <1>9 DEF Slow!TryLock, Slow!Postpone, Slow!Unschedule, Slow!ThrottleClient, Slow!Suspend, Slow!ForceRest, Slow!Unlock,
                Slow!Reschedule, Slow!OnReady, Slow!Resume, Slow!Leave, Slow!Link
  <2>2. \/ Slow!Done(t)
        \/ \E at \in {"unschedule", "on_data", "suspend", "unlock", "reschedule", "resume", "leave"} : Slow!Goto(t, at)
    BY <1>9 DEF Slow!TryLock, Slow!Postpone, Slow!Unschedule, Slow!ThrottleClient, Slow!Suspend, Slow!ForceRest, Slow!Unlock,
                Slow!Reschedule, Slow!OnReady, Slow!Resume, Slow!Leave
  <2>3. \A u \in Handlers : (Slow!At(u, "parse"))' => Slow!At(u, "parse")
    BY <2>2 DEF Slow!Goto, Slow!Done, Slow!Idle, Slow!At, HandlersInv, HandlerTypes
  <2> QED BY <2>1, <2>3, PlainAccounts
<1> QED BY <1>1, <1>2, <1>3, <1>4, <1>5, <1>6, <1>7, <1>8, <1>9 DEF Slow!Next, Slow!Handler

LEMMA NextHandlerFlags ==
  ASSUME HandlerFlags, [Slow!Next]_Slow!vars
  PROVE  HandlerFlags'
<1>1. CASE UNCHANGED Slow!vars
  BY <1>1, Zenon DEF Slow!vars, Slow!Queue, HandlerFlags
<1>2. CASE Slow!Request
  BY <1>2, Zenon DEF Slow!Request, Slow!Queue, HandlerFlags
<1>3. CASE Slow!PollRead
  BY <1>3, Zenon DEF Slow!PollRead, HandlerFlags
<1>4. ASSUME NEW t \in Handlers,
             \/ Slow!Flush(t) \/ Slow!TakeData(t) \/ Slow!TakeForced(t) \/ Slow!TakeReady(t) \/ Slow!OnData(t)
             \/ Slow!Consume(t) \/ Slow!Parse(t) \/ Slow!Close(t) \/ Slow!Mark(t)
      PROVE  HandlerFlags'
  <2>1. CASE Slow!Flush(t)
    BY <2>1, Zenon DEF Slow!Flush, Slow!Drained, HandlerFlags
  <2>2. CASE Slow!TakeData(t)
    BY <2>2, Zenon DEF Slow!TakeData, HandlerFlags
  <2>3. CASE Slow!TakeForced(t)
    BY <2>3, Zenon DEF Slow!TakeForced, HandlerFlags
  <2>4. CASE Slow!TakeReady(t)
    BY <2>4, Zenon DEF Slow!TakeReady, HandlerFlags
  <2>5. CASE Slow!OnData(t)
    BY <2>5, Zenon DEF Slow!OnData, Slow!Queue, HandlerFlags
  <2>6. CASE Slow!Consume(t)
    BY <2>6, Zenon DEF Slow!Consume, Slow!Queue, HandlerFlags
  <2>7. CASE Slow!Parse(t)
    BY <2>7, Zenon DEF Slow!Parse, Slow!Answered, Slow!Drained, HandlerFlags
  <2>8. CASE Slow!Close(t)
    BY <2>8, Zenon DEF Slow!Close, Slow!Queue, HandlerFlags
  <2>9. CASE Slow!Mark(t)
    BY <2>9, Zenon DEF Slow!Mark, HandlerFlags
  <2> QED BY <1>4, <2>1, <2>2, <2>3, <2>4, <2>5, <2>6, <2>7, <2>8, <2>9
<1>5. ASSUME NEW t \in Handlers,
             \/ Slow!TryLock(t) \/ Slow!Postpone(t) \/ Slow!Unschedule(t) \/ Slow!ThrottleClient(t) \/ Slow!Suspend(t)
             \/ Slow!ForceRest(t) \/ Slow!Unlock(t) \/ Slow!Reschedule(t) \/ Slow!OnReady(t) \/ Slow!Resume(t) \/ Slow!Leave(t)
      PROVE  HandlerFlags'
  <2>1. CASE Slow!TryLock(t)
    BY <2>1, Zenon DEF Slow!TryLock, Slow!Queue, HandlerFlags
  <2>2. CASE Slow!Postpone(t)
    BY <2>2, Zenon DEF Slow!Postpone, HandlerFlags
  <2>3. CASE Slow!Unschedule(t)
    BY <2>3, Zenon DEF Slow!Unschedule, Slow!Queue, HandlerFlags
  <2>4. CASE Slow!ThrottleClient(t)
    BY <2>4, Zenon DEF Slow!ThrottleClient, Slow!Queue, HandlerFlags
  <2>5. CASE Slow!Suspend(t)
    BY <2>5, Zenon DEF Slow!Suspend, Slow!Queue, HandlerFlags
  <2>6. CASE Slow!ForceRest(t)
    BY <2>6, Zenon DEF Slow!ForceRest, Slow!ForceEvent, HandlerFlags
  <2>7. CASE Slow!Unlock(t)
    BY <2>7, Zenon DEF Slow!Unlock, Slow!Queue, HandlerFlags
  <2>8. CASE Slow!Reschedule(t)
    BY <2>8, Zenon DEF Slow!Reschedule, Slow!Queue, HandlerFlags
  <2>9. CASE Slow!OnReady(t)
    BY <2>9, Zenon DEF Slow!OnReady, Slow!Resumed, Slow!Queue, HandlerFlags
  <2>10. CASE Slow!Resume(t)
    BY <2>10, Zenon DEF Slow!Resume, Slow!ForceEvent, HandlerFlags
  <2>11. CASE Slow!Leave(t)
    BY <2>11, Zenon DEF Slow!Leave, Slow!Queue, HandlerFlags
  <2> QED BY <1>5, <2>1, <2>2, <2>3, <2>4, <2>5, <2>6, <2>7, <2>8, <2>9, <2>10, <2>11
<1> QED BY <1>1, <1>2, <1>3, <1>4, <1>5 DEF Slow!Next, Slow!Handler

LEMMA NextTasksCounted ==
  ASSUME TasksCounted, [Slow!Next]_Slow!vars
  PROVE  TasksCounted'
<1>1. \/ data' = data /\ events' = events
      \/ data' = data + 1 /\ events' = events
      \/ data > 0 /\ data' = data - 1 /\ events' = events
      \/ events' = events + 1 /\ data' = data
      \/ events > 0 /\ events' = events - 1 /\ data' = data
  BY DEF Slow!Next, Slow!Handler, Slow!vars, Slow!Queue, Slow!Request, Slow!PollRead, Slow!Flush, Slow!TakeData, Slow!TakeForced, Slow!TakeReady,
         Slow!TryLock, Slow!Postpone, Slow!Unschedule, Slow!OnData, Slow!Consume, Slow!ThrottleClient, Slow!Suspend, Slow!Parse, Slow!Close,
         Slow!Mark, Slow!ForceRest, Slow!ForceEvent, Slow!Unlock, Slow!Reschedule, Slow!OnReady, Slow!Resume,
         Slow!Leave
<1>2. missed' = missed \/ missed' = missed \union {"on_ready"} \/ missed' = missed \union {"close"}
  BY DEF Slow!Next, Slow!Handler, Slow!vars, Slow!Link, Slow!Request, Slow!PollRead, Slow!Flush, Slow!TakeData,
         Slow!TakeForced, Slow!TakeReady, Slow!TryLock, Slow!Postpone, Slow!Unschedule, Slow!OnData, Slow!Consume,
         Slow!ThrottleClient, Slow!Suspend, Slow!Parse, Slow!Close, Slow!Mark, Slow!ForceRest, Slow!Unlock,
         Slow!Reschedule, Slow!OnReady, Slow!Resume, Slow!Leave
<1>3. data' \in Nat /\ events' \in Nat
  BY <1>1 DEF TasksCounted
<1>4. missed' \subseteq {"on_ready", "close"}
  BY <1>2 DEF TasksCounted
<1> QED BY <1>3, <1>4 DEF TasksCounted

\* Types of an HTTP/1.1 connection. While it is open each request the client has sent is
\* answered, unread, unparsed or pending, and a connection is gone only with its packets.
THEOREM Http1TypeOK ==
  ASSUME Deployable, MaxRequests \in Nat
  PROVE  Slow!Spec => []Slow!TypeOK
<1>1. Slow!Init => Accounts /\ HandlerFlags /\ TasksCounted
  <2>1. Slow!Init => Accounts
    BY DEF Slow!Init, Accounts, Slow!At, Slow!Idle
  <2>2. Slow!Init => HandlerFlags
    BY Zenon DEF Slow!Init, HandlerFlags
  <2>3. Slow!Init => TasksCounted
    BY DEF Slow!Init, TasksCounted
  <2> QED BY <2>1, <2>2, <2>3
<1>2. HandlersInv /\ Accounts /\ HandlerFlags /\ TasksCounted /\ [Slow!Next]_Slow!vars => (Accounts /\ HandlerFlags /\ TasksCounted)'
  BY NextAccounts, NextHandlerFlags, NextTasksCounted
<1>3. HandlersInv /\ Accounts /\ HandlerFlags /\ TasksCounted => Slow!TypeOK
  <2> SUFFICES ASSUME HandlersInv, Accounts, HandlerFlags, TasksCounted PROVE Slow!TypeOK
    OBVIOUS
  <2>1. {sent, answered, wire, buf, pending} \subseteq 0..MaxRequests
    BY DEF Accounts
  <2>2. \A t \in Handlers : in[t].limit \in 0..Limit
    BY DEF HandlersInv, HandlerTypes
  <2>3. ended \in {"open", "closing", "closed"}
    BY DEF HandlersInv, HandlerTypes
  <2> QED BY <2>1, <2>2, <2>3 DEF Accounts, HandlerFlags, TasksCounted, Slow!TypeOK
<1> QED BY <1>1, <1>2, <1>3, HandlersHold, PTL DEF Slow!Spec
=============================================================================
