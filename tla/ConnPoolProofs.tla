--------------------------- MODULE ConnPoolProofs ---------------------------
(***************************************************************************)
(* What is proved of the connection pool for every number of threads and   *)
(* of connections, as long as there is a connection for each thread.       *)
(*                                                                         *)
(* The unlocked test is enough only because of a counting argument: the    *)
(* index is the number of threads that have been lent a connection, so     *)
(* while a thread is still asking it is at most the number of the others.  *)
(* The rest of the invariant says that the slots from the index on hold    *)
(* distinct connections that nobody has, with one exception: while the     *)
(* owner of the mutex is between its two writes, the slot at the index is  *)
(* already taken, or not yet filled.                                       *)
(*                                                                         *)
(* The second part is about pools of any size, also too small ones.        *)
(***************************************************************************)
EXTENDS ConnPool, FiniteSetTheorems, TLAPS

\* The threads counted by the stack index.
Lent == {t \in Threads : pc[t] \in {"run", "leave", "relock", "dec"}}

\* The threads whose local holds a connection that is theirs.
Has(t) == pc[t] \in {"inc", "run", "leave", "relock", "dec", "store"}

\* The owner of the mutex has taken the slot at the index and not counted it,
\* or uncounted it and not filled it.
Busy == \E t \in Threads : pc[t] \in {"inc", "store"}

FreeSlot(i) == i \in Conn /\ available <= i /\ (i = available => ~Busy)

LockInv ==
  \A t \in Threads : pc[t] \in {"read", "inc", "dec", "store"} <=> lock = t

CountInv == available = Cardinality(Lent)

RunningInv == \A t \in Threads : pc[t] \notin {"refused", "dead"}

HasInv ==
  \A t \in Threads : Has(t) =>
    /\ conn[t] \in Conn
    /\ \A u \in Threads : u # t /\ Has(u) => conn[u] # conn[t]

SlotInv ==
  \A i \in Conn : FreeSlot(i) =>
    /\ connections[i] \in Conn
    /\ \A t \in Threads : Has(t) => conn[t] # connections[i]
    /\ \A j \in Conn : j # i /\ FreeSlot(j) => connections[j] # connections[i]

IInv ==
  /\ TypeOK
  /\ LockInv
  /\ CountInv
  /\ RunningInv
  /\ HasInv
  /\ SlotInv

-----------------------------------------------------------------------------
(***************************************************************************)
(* Counting.                                                               *)
(***************************************************************************)
LEMMA LentFinite == IsFiniteSet(Lent) /\ Cardinality(Lent) \in Nat
<1>1. IsFiniteSet(Threads) /\ Lent \subseteq Threads
  BY PoolAssumption DEF Lent
<1>2. QED
  BY <1>1, FS_Subset, FS_CardinalityType

\* A thread that is not counted leaves room: the index is inside the array.
LEMMA RoomForOneMore ==
  ASSUME Provisioned, CountInv, NEW t \in Threads, t \notin Lent
  PROVE  available \in Conn
<1>1. IsFiniteSet(Threads \ {t})
      /\ Cardinality(Threads \ {t}) = Cardinality(Threads) - 1
  BY PoolAssumption, FS_RemoveElement
<1>2. Lent \subseteq Threads \ {t}
  BY DEF Lent
<1>3. Cardinality(Lent) <= Cardinality(Threads) - 1
  BY <1>1, <1>2, FS_Subset
<1>4. Cardinality(Threads) \in Nat
  BY PoolAssumption, FS_CardinalityType
<1>5. QED
  BY <1>3, <1>4, LentFinite, PoolAssumption DEF Provisioned, CountInv, Conn

LEMMA ConnInWords == Conn \subseteq Words
BY PoolAssumption, FS_CardinalityType DEF Conn, Words

\* A counted thread: the index is not zero.
LEMMA LentIsPositive ==
  ASSUME CountInv, NEW t \in Threads, t \in Lent
  PROVE  available > 0
<1>1. Cardinality(Lent) # 0
  BY LentFinite, FS_EmptySet
<1>2. QED
  BY <1>1, LentFinite DEF CountInv

-----------------------------------------------------------------------------
(***************************************************************************)
(* IInv is inductive.  Three of the actions cannot be taken at all with a  *)
(* connection for each thread: CheckFull, the null word of Increment, and  *)
(* Fault.                                                                  *)
(***************************************************************************)
LEMMA InitIInv == Init => IInv
<1> SUFFICES ASSUME Init PROVE IInv
  OBVIOUS
<1>1. TypeOK
  BY PoolAssumption DEF Init, TypeOK, PC
<1>2. LockInv
  BY PoolAssumption DEF Init, LockInv
<1>3. CountInv
  <2>1. Lent = {}
    BY DEF Init, Lent
  <2>2. QED
    BY <2>1, FS_EmptySet DEF Init, CountInv
<1>4. RunningInv
  BY DEF Init, RunningInv
<1>5. HasInv
  BY DEF Init, HasInv, Has
<1>6. SlotInv
  <2>1. \A i \in Conn : connections[i] = i
    BY ConnInWords DEF Init
  <2>2. \A t \in Threads : ~Has(t)
    BY DEF Init, Has
  <2>3. QED
    BY <2>1, <2>2 DEF SlotInv
<1>7. QED
  BY <1>1, <1>2, <1>3, <1>4, <1>5, <1>6 DEF IInv

\* A step that moves t between places that the index does not count, or
\* between places that it does, and leaves the index alone.
LEMMA CountKept ==
  ASSUME CountInv, Lent' = Lent, available' = available
  PROVE  CountInv'
BY DEF CountInv

\* The steps before the mutex: nothing but pc, retries and conn moves, of a
\* thread that has nothing yet and does not hold the mutex.
LEMMA OutsideStep ==
  ASSUME IInv, NEW t \in Threads, NEW l \in {"check", "lock"},
         pc[t] \in {"idle", "refused", "check"},
         Goto(t, l),
         conn' \in [Threads -> Conn \cup {NULL, Wild}],
         retries' \in [Threads -> 0..PoolRetry],
         \A u \in Threads \ {t} : conn'[u] = conn[u],
         UNCHANGED <<connections, available, lock>>
  PROVE  IInv'
<1> USE DEF IInv
<1>1. /\ \A u \in Threads \ {t} : pc'[u] = pc[u]
      /\ pc'[t] = l
      /\ pc' \in [Threads -> PC]
  BY DEF TypeOK, Goto, PC
<1>2. TypeOK'
  BY <1>1 DEF TypeOK
<1>3. LockInv'
  BY <1>1 DEF LockInv
<1>4. CountInv'
  <2>1. Lent' = Lent
    BY <1>1 DEF Lent
  <2>2. QED
    BY <2>1, CountKept
<1>5. RunningInv'
  BY <1>1 DEF RunningInv
<1>6. HasInv'
  BY <1>1 DEF HasInv, Has
<1>7. SlotInv'
  BY <1>1 DEF SlotInv, FreeSlot, Busy, Has
<1>8. QED
  BY <1>2, <1>3, <1>4, <1>5, <1>6, <1>7

\* The steps of a thread that holds a connection and does not hold the mutex.
LEMMA LentStep ==
  ASSUME IInv, NEW t \in Threads, NEW l \in {"leave", "relock"},
         pc[t] \in {"run", "leave"},
         Goto(t, l),
         UNCHANGED <<connections, available, lock, retries, conn>>
  PROVE  IInv'
<1> USE DEF IInv
<1>1. /\ \A u \in Threads \ {t} : pc'[u] = pc[u]
      /\ pc'[t] = l
      /\ pc' \in [Threads -> PC]
  BY DEF TypeOK, Goto, PC
<1>2. TypeOK'
  BY <1>1 DEF TypeOK
<1>3. LockInv'
  BY <1>1 DEF LockInv
<1>4. CountInv'
  <2>1. Lent' = Lent
    BY <1>1 DEF Lent
  <2>2. QED
    BY <2>1, CountKept
<1>5. RunningInv'
  BY <1>1 DEF RunningInv
<1>6. HasInv'
  BY <1>1 DEF HasInv, Has
<1>7. SlotInv'
  BY <1>1 DEF SlotInv, FreeSlot, Busy, Has
<1>8. QED
  BY <1>2, <1>3, <1>4, <1>5, <1>6, <1>7

\* pthread_mutex_lock.
LEMMA LockStep ==
  ASSUME IInv, NEW t \in Threads, Lock(t)
  PROVE  IInv'
<1> USE DEF IInv, Lock
<1>1. /\ \A u \in Threads \ {t} : pc'[u] = pc[u]
      /\ pc'[t] = IF pc[t] = "lock" THEN "read" ELSE "dec"
      /\ pc' \in [Threads -> PC]
  BY DEF TypeOK, Goto, PC
<1>2. TypeOK'
  BY <1>1 DEF TypeOK
<1>3. LockInv'
  BY <1>1, PoolAssumption DEF LockInv
<1>4. CountInv'
  <2>1. Lent' = Lent
    BY <1>1 DEF Lent
  <2>2. QED
    BY <2>1, CountKept
<1>5. RunningInv'
  BY <1>1 DEF RunningInv
<1>6. HasInv'
  BY <1>1 DEF HasInv, Has
<1>7. SlotInv'
  BY <1>1 DEF SlotInv, FreeSlot, Busy, Has
<1>8. QED
  BY <1>2, <1>3, <1>4, <1>5, <1>6, <1>7

\* The slot at the index is free, since its reader holds the mutex and so
\* nobody is between its two writes.
LEMMA ReadSlotStep ==
  ASSUME Provisioned, IInv, NEW t \in Threads, ReadSlot(t)
  PROVE  IInv'
<1> USE DEF IInv, ReadSlot
<1>1. /\ \A u \in Threads \ {t} : pc'[u] = pc[u] /\ conn'[u] = conn[u]
      /\ pc'[t] = "inc"
      /\ pc' \in [Threads -> PC]
      /\ conn'[t] = connections[available]
  BY DEF TypeOK, Goto, PC
<1>2. available \in Conn
  BY RoomForOneMore DEF Lent
<1>3. ~Busy
  BY DEF Busy, LockInv
<1>4. FreeSlot(available)
  BY <1>2, <1>3 DEF FreeSlot, Conn
<1>5. /\ conn'[t] \in Conn
      /\ \A u \in Threads : Has(u) => conn[u] # conn'[t]
      /\ \A j \in Conn : j # available /\ FreeSlot(j)
                          => connections[j] # conn'[t]
  BY <1>1, <1>2, <1>4 DEF SlotInv
<1>6. TypeOK'
  BY <1>1, <1>5 DEF TypeOK
<1>7. LockInv'
  BY <1>1 DEF LockInv
<1>8. CountInv'
  <2>1. Lent' = Lent
    BY <1>1 DEF Lent
  <2>2. QED
    BY <2>1, CountKept
<1>9. RunningInv'
  BY <1>1 DEF RunningInv
<1>10. HasInv'
  BY <1>1, <1>5 DEF HasInv, Has
<1>11. SlotInv'
  <2>1. ASSUME NEW i \in Conn, FreeSlot(i)'
        PROVE  FreeSlot(i) /\ i # available
    BY <2>1, <1>1, <1>3 DEF FreeSlot, Busy
  <2>2. \A u \in Threads \ {t} : Has(u)' <=> Has(u)
    BY <1>1 DEF Has
  <2>3. QED
    BY <1>1, <1>5, <2>1, <2>2 DEF SlotInv
<1>12. QED
  BY <1>6, <1>7, <1>8, <1>9, <1>10, <1>11

LEMMA IncrementStep ==
  ASSUME Provisioned, IInv, NEW t \in Threads, Increment(t)
  PROVE  IInv'
<1> USE DEF IInv, Increment
<1>1. conn[t] \in Conn /\ conn[t] # NULL
  BY PoolAssumption DEF HasInv, Has, Conn
<1>2. /\ \A u \in Threads \ {t} : pc'[u] = pc[u]
      /\ pc'[t] = "run"
      /\ pc' \in [Threads -> PC]
      /\ UNCHANGED retries
  BY <1>1 DEF TypeOK, Goto, PC
<1>3. TypeOK'
  BY <1>2 DEF TypeOK
<1>4. LockInv'
  BY <1>2, PoolAssumption DEF LockInv
<1>5. CountInv'
  <2>1. Lent' = Lent \cup {t} /\ t \notin Lent
    BY <1>2 DEF Lent
  <2>2. QED
    BY <2>1, LentFinite, FS_AddElement DEF CountInv
<1>6. RunningInv'
  BY <1>2 DEF RunningInv
<1>7. HasInv'
  BY <1>2 DEF HasInv, Has
<1>8. SlotInv'
  <2>1. \A i \in Conn : FreeSlot(i)' => FreeSlot(i)
    BY DEF FreeSlot, Conn, TypeOK
  <2>2. \A u \in Threads : Has(u)' <=> Has(u)
    BY <1>2 DEF Has
  <2>3. QED
    BY <2>1, <2>2 DEF SlotInv
<1>9. QED
  BY <1>3, <1>4, <1>5, <1>6, <1>7, <1>8

LEMMA DecrementStep ==
  ASSUME Provisioned, IInv, NEW t \in Threads, Decrement(t)
  PROVE  IInv'
<1> USE DEF IInv, Decrement
<1>1. /\ \A u \in Threads \ {t} : pc'[u] = pc[u]
      /\ pc'[t] = "store"
      /\ pc' \in [Threads -> PC]
  BY DEF TypeOK, Goto, PC
<1>2. t \in Lent /\ available > 0
  BY LentIsPositive DEF Lent
<1>3. TypeOK'
  BY <1>1, <1>2 DEF TypeOK
<1>4. LockInv'
  BY <1>1 DEF LockInv
<1>5. CountInv'
  <2>1. Lent' = Lent \ {t}
    BY <1>1 DEF Lent
  <2>2. QED
    BY <1>2, <2>1, LentFinite, FS_RemoveElement DEF CountInv
<1>6. RunningInv'
  BY <1>1 DEF RunningInv
<1>7. HasInv'
  BY <1>1 DEF HasInv, Has
<1>8. SlotInv'
  <2>1. ASSUME NEW i \in Conn, FreeSlot(i)'
        PROVE  FreeSlot(i)
    <3>1. Busy'
      BY <1>1 DEF Busy
    <3>2. available' < i
      BY <2>1, <3>1 DEF FreeSlot, Conn, TypeOK
    <3>3. ~Busy
      BY DEF Busy, LockInv
    <3>4. QED
      BY <3>2, <3>3 DEF FreeSlot, Conn, TypeOK
  <2>2. \A u \in Threads : Has(u)' <=> Has(u)
    BY <1>1 DEF Has
  <2>3. QED
    BY <2>1, <2>2 DEF SlotInv
<1>9. QED
  BY <1>3, <1>4, <1>5, <1>6, <1>7, <1>8

LEMMA StoreStep ==
  ASSUME Provisioned, IInv, NEW t \in Threads, Store(t)
  PROVE  IInv'
<1> USE DEF IInv, Store
<1>1. /\ \A u \in Threads \ {t} : pc'[u] = pc[u]
      /\ pc'[t] = "idle"
      /\ pc' \in [Threads -> PC]
  BY DEF TypeOK, Goto, PC
<1>2. available \in Conn /\ available \in Words
  BY RoomForOneMore, ConnInWords DEF Lent
<1>3. /\ conn[t] \in Conn
      /\ \A u \in Threads \ {t} : Has(u) => conn[u] # conn[t]
  BY DEF HasInv, Has
<1>4. /\ connections'[available] = conn[t]
      /\ \A i \in Words \ {available} : connections'[i] = connections[i]
  BY <1>2 DEF TypeOK
<1>5. TypeOK'
  BY <1>1, <1>2, <1>3 DEF TypeOK
<1>6. LockInv'
  BY <1>1, PoolAssumption DEF LockInv
<1>7. CountInv'
  <2>1. Lent' = Lent
    BY <1>1 DEF Lent
  <2>2. QED
    BY <2>1, CountKept
<1>8. RunningInv'
  BY <1>1 DEF RunningInv
<1>9. HasInv'
  BY <1>1 DEF HasInv, Has
<1>10. SlotInv'
  <2>1. \A i \in Conn \ {available} : FreeSlot(i)' => FreeSlot(i)
    BY DEF FreeSlot, Conn, TypeOK
  <2>2. \A u \in Threads : Has(u)' <=> Has(u) /\ u # t
    BY <1>1 DEF Has
  <2>3. \A i \in Conn \ {available} :
          FreeSlot(i) => /\ connections[i] \in Conn
                         /\ connections[i] # conn[t]
    BY DEF SlotInv, Has
  <2>4. ASSUME NEW i \in Conn, FreeSlot(i)'
        PROVE  /\ connections'[i] \in Conn
               /\ \A u \in Threads : Has(u)' => conn'[u] # connections'[i]
               /\ \A j \in Conn : j # i /\ FreeSlot(j)'
                                   => connections'[j] # connections'[i]
    <3>1. CASE i = available
      BY <3>1, <2>1, <2>2, <2>3, <1>3, <1>4, ConnInWords
    <3>2. CASE i # available
      BY <3>2, <2>1, <2>2, <2>3, <2>4, <1>3, <1>4, ConnInWords DEF SlotInv
    <3>3. QED
      BY <3>1, <3>2
  <2>5. QED
    BY <2>4 DEF SlotInv
<1>11. QED
  BY <1>5, <1>6, <1>7, <1>8, <1>9, <1>10

LEMMA NextIInv ==
  ASSUME Provisioned, IInv, [Next]_vars
  PROVE  IInv'
<1>1. CASE UNCHANGED vars
  BY <1>1 DEF vars, IInv, TypeOK, LockInv, CountInv, Lent, RunningInv, HasInv,
              Has, SlotInv, FreeSlot, Busy
<1>2. ASSUME NEW t \in Threads, Enter(t) \/ Step(t)
      PROVE  IInv'
  <2>1. CASE Enter(t)
    BY <2>1, OutsideStep, PoolAssumption DEF Enter, IInv, TypeOK
  <2>2. CASE pc[t] = "check" /\ CheckFull(t)
    <3>1. available \in Conn
      BY <2>2, RoomForOneMore DEF IInv, CheckFull, Lent
    <3>2. QED
      BY <2>2, <3>1, PoolAssumption DEF CheckFull, Conn
  <2>3. CASE pc[t] = "check" /\ CheckFree(t)
    BY <2>3, OutsideStep DEF CheckFree, IInv, TypeOK
  <2>4. CASE Lock(t)
    BY <2>4, LockStep
  <2>5. CASE ReadSlot(t)
    BY <2>5, ReadSlotStep
  <2>6. CASE Increment(t)
    BY <2>6, IncrementStep
  <2>7. CASE pc[t] = "run" /\ Query(t)
    BY <2>7, LentStep DEF Query
  <2>8. CASE pc[t] = "run" /\ Fault(t)
    BY <2>8, PoolAssumption DEF Fault, IInv, HasInv, Has, Conn
  <2>9. CASE Leave(t)
    <3>1. available # 0
      BY <2>9, LentIsPositive DEF IInv, Leave, Lent
    <3>2. QED
      BY <2>9, <3>1, LentStep DEF Leave
  <2>10. CASE Decrement(t)
    BY <2>10, DecrementStep
  <2>11. CASE Store(t)
    BY <2>11, StoreStep
  <2>12. QED
    BY <1>2, <2>1, <2>2, <2>3, <2>4, <2>5, <2>6, <2>7, <2>8, <2>9, <2>10,
       <2>11 DEF Step, Check, Run
<1>3. QED
  BY <1>1, <1>2 DEF Next

-----------------------------------------------------------------------------
(***************************************************************************)
(* The theorems.                                                           *)
(***************************************************************************)

\* The invariant holds at every step of every run of a provisioned pool.
THEOREM PoolInvariant == ASSUME Provisioned PROVE Spec => []IInv
<1>1. Provisioned /\ IInv /\ [Next]_vars => IInv'
  BY NextIInv
<1>2. QED
  BY <1>1, InitIInv, PTL DEF Spec

\* The pool's fields and the locals of db_exec keep their types.
THEOREM PoolTypeOK == ASSUME Provisioned PROVE Spec => []TypeOK
<1>1. IInv => TypeOK
  BY DEF IInv
<1>2. QED
  BY <1>1, PoolInvariant, PTL

\* README.md:85: with a connection for each thread, a thread that runs a query
\* has a connection of its own.
THEOREM PoolOneConnPerThread ==
  ASSUME Provisioned PROVE Spec => []OneConnPerThread
<1>1. IInv => OneConnPerThread
  BY DEF IInv, HasInv, Has, OneConnPerThread, Owns
<1>2. QED
  BY <1>1, PoolInvariant, PTL

\* The array is never indexed past its end or before its start, although
\* neither function tests the index under the mutex.
THEOREM PoolIndexInBounds == ASSUME Provisioned PROVE Spec => []IndexInBounds
<1>1. IInv => IndexInBounds
  BY RoomForOneMore DEF IInv, IndexInBounds, Lent
<1>2. QED
  BY <1>1, PoolInvariant, PTL

\* db_exec never gives up for lack of a connection, so the retry loop never
\* turns more than once.
THEOREM PoolNeverRefused == ASSUME Provisioned PROVE Spec => []NeverRefused
<1>1. IInv => NeverRefused
  BY DEF IInv, RunningInv, NeverRefused
<1>2. QED
  BY <1>1, PoolInvariant, PTL

\* The early return of db_return_conn_postgres never drops a connection.
THEOREM PoolConnComesBack == ASSUME Provisioned PROVE Spec => []ConnComesBack
<1>1. IInv => ConnComesBack
  BY LentIsPositive DEF IInv, ConnComesBack, Lent
<1>2. QED
  BY <1>1, PoolInvariant, PTL

\* With every call ended no slot is taken, and as many distinct connections as
\* there are slots are all of them: the pool is whole again.
THEOREM PoolIsWholeAgain == ASSUME Provisioned PROVE Spec => []PoolWholeAgain
<1>1. ASSUME IInv, \A t \in Threads : pc[t] \in {"idle", "refused"}
      PROVE  available = 0 /\ {connections[i] : i \in Conn} = Conn
  <2>1. available = 0
    <3>1. Lent = {}
      BY <1>1 DEF Lent
    <3>2. QED
      BY <1>1, <3>1, FS_EmptySet DEF IInv, CountInv
  <2>2. \A i \in Conn : FreeSlot(i)
    BY <1>1, <2>1 DEF FreeSlot, Busy, Conn
  <2> DEFINE f == [i \in Conn |-> connections[i]]
  <2>3. f \in Injection(Conn, Conn)
    BY <1>1, <2>2 DEF IInv, SlotInv, Injection, IsInjective
  <2>4. IsFiniteSet(Conn)
    BY PoolAssumption, FS_Interval DEF Conn
  <2>5. f \in Surjection(Conn, Conn)
    BY <2>3, <2>4, FS_Injection
  <2>6. \A c \in Conn : \E i \in Conn : f[i] = c
    BY <2>5 DEF Surjection
  <2>7. QED
    BY <1>1, <2>1, <2>2, <2>6 DEF IInv, SlotInv
<1>2. IInv => PoolWholeAgain
  BY <1>1 DEF PoolWholeAgain
<1>3. QED
  BY <1>2, PoolInvariant, PTL

\* The detailed pool implements the abstract one: the increment under the
\* mutex is the grant, the store under the mutex gives the connection back,
\* and no other step shows.
THEOREM PoolImplementsLease ==
  ASSUME Provisioned PROVE Spec => ImplementsLease
<1> DEFINE L == [t \in Threads |-> IF Owns(t) THEN conn[t] ELSE NULL]
<1>1. Init => Lease!Init
  BY DEF Init, Lease!Init, Owns
<1>2. ASSUME IInv, IInv', [Next]_vars
      PROVE  [Lease!Next]_L
  <2>1. CASE UNCHANGED vars
    BY <2>1 DEF vars, Owns
  <2>2. ASSUME NEW t \in Threads, Enter(t) \/ Step(t)
        PROVE  [Lease!Next]_L
    <3> DEFINE Moves(l) == /\ pc'[t] = l
                           /\ \A u \in Threads \ {t} : pc'[u] = pc[u]
    <3>1. ASSUME NEW l \in PC, Goto(t, l) PROVE Moves(l)
      BY <1>2, <3>1 DEF IInv, TypeOK, Goto
    <3>2. CASE Increment(t)
      <4>1. conn[t] \in Conn /\ conn[t] # NULL
        BY <1>2, <3>2, PoolAssumption DEF IInv, HasInv, Has, Conn, Increment
      <4>2. Moves("run")
        BY <3>1, <3>2, <4>1 DEF Increment, PC
      <4>3. \A u \in Threads : L[u] # conn[t]
        BY <1>2, <3>2, <4>1 DEF IInv, HasInv, Has, Owns, Increment
      <4>4. L[t] = NULL
        BY <3>2 DEF Owns, Increment
      <4>5. L' = [L EXCEPT ![t] = conn[t]]
        BY <3>2, <4>2 DEF Owns, Increment
      <4>6. Lease!Grant(t)
        BY <4>1, <4>3, <4>4, <4>5 DEF Lease!Grant, Lease!Free
      <4>7. QED
        BY <4>6 DEF Lease!Next
    <3>3. CASE Store(t)
      <4>1. conn[t] \in Conn /\ conn[t] # NULL
        BY <1>2, <3>3, PoolAssumption DEF IInv, HasInv, Has, Conn, Store
      <4>2. Moves("idle")
        BY <3>1, <3>3 DEF Store, PC
      <4>3. L[t] # NULL
        BY <3>3, <4>1 DEF Owns, Store
      <4>4. L' = [L EXCEPT ![t] = NULL]
        BY <3>3, <4>2 DEF Owns, Store
      <4>5. Lease!GiveBack(t)
        BY <4>3, <4>4 DEF Lease!GiveBack
      <4>6. QED
        BY <4>5 DEF Lease!Next
    <3>4. CASE ~Increment(t) /\ ~Store(t)
      <4>1. /\ \A u \in Threads : Owns(u)' <=> Owns(u)
            /\ \A u \in Threads : Owns(u) => conn'[u] = conn[u]
        <5>1. CASE Enter(t)
          BY <1>2, <3>1, <5>1 DEF Enter, Owns, IInv, TypeOK, PC
        <5>2. CASE pc[t] = "check" /\ CheckFull(t)
          BY <1>2, <5>2, RoomForOneMore, PoolAssumption
             DEF CheckFull, Conn, IInv, Lent
        <5>3. CASE pc[t] = "check" /\ CheckFree(t)
          BY <3>1, <5>3 DEF CheckFree, Owns, PC
        <5>4. CASE Lock(t)
          BY <3>1, <5>4 DEF Lock, Owns, PC
        <5>5. CASE ReadSlot(t)
          BY <1>2, <3>1, <5>5 DEF ReadSlot, Owns, PC, IInv, TypeOK
        <5>6. CASE pc[t] = "run" /\ Query(t)
          BY <3>1, <5>6 DEF Query, Owns, PC
        <5>7. CASE pc[t] = "run" /\ Fault(t)
          BY <1>2, <5>7, PoolAssumption DEF Fault, IInv, HasInv, Has, Conn
        <5>8. CASE Leave(t)
          BY <1>2, <3>1, <5>8, LentIsPositive
             DEF Leave, Owns, PC, IInv, Lent
        <5>9. CASE Decrement(t)
          BY <3>1, <5>9 DEF Decrement, Owns, PC
        <5>10. QED
          BY <2>2, <3>4, <5>1, <5>2, <5>3, <5>4, <5>5, <5>6, <5>7, <5>8, <5>9
             DEF Step, Check, Run
      <4>2. QED
        BY <4>1
    <3>5. QED
      BY <3>2, <3>3, <3>4
  <2>3. QED
    BY <1>2, <2>1, <2>2 DEF Next
<1>3. QED
  BY <1>1, <1>2, PoolInvariant, PTL DEF Spec, ImplementsLease, Lease!Spec

---------------------------------------------------------------------------
(***************************************************************************)
(* What is proved of the connection pool when there may be fewer           *)
(* connections than threads: the unlocked tests let the index run past the *)
(* array, and still no connection is ever in use by two threads.           *)
(*                                                                         *)
(* The index is no longer the number of threads that were lent something:  *)
(* a null word behind the array is counted and never returned.  What is    *)
(* left of the counting is that the index never falls below that number,   *)
(* and passes the end of the array by no more than the threads that were   *)
(* past the test.  The words from the index on may repeat null and wild    *)
(* words, but no connection.                                               *)
(***************************************************************************)

\* The threads past the unlocked test.
Asking == {t \in Threads : pc[t] \in {"lock", "read", "inc"}}

FreeWord(i) == i \in Words /\ available <= i /\ (i = available => ~Busy)

\* PQexec on a wild word ended the process.
Dead == \A t \in Threads : pc[t] = "dead"

SmallRunningInv == \A t \in Threads : pc[t] # "dead"

RetryInv ==
  \A t \in Threads :
    pc[t] \in {"check", "lock", "read", "inc"} => retries[t] > 0

SmallCountInv ==
  /\ Cardinality(Lent) <= available
  /\ available + Cardinality(Asking) < ConnectionsCount + Cardinality(Threads)

SmallHasInv ==
  \A t, u \in Threads :
    t # u /\ Has(t) /\ Has(u) /\ conn[t] \in Conn => conn[u] # conn[t]

WordInv ==
  \A i \in Words : FreeWord(i) /\ connections[i] \in Conn =>
    /\ \A t \in Threads : Has(t) => conn[t] # connections[i]
    /\ \A j \in Words : j # i /\ FreeWord(j) =>
                          connections[j] # connections[i]

Alive ==
  /\ LockInv
  /\ SmallRunningInv
  /\ RetryInv
  /\ SmallCountInv
  /\ SmallHasInv
  /\ WordInv

SmallIInv == TypeOK /\ (Dead \/ Alive)

-----------------------------------------------------------------------------
(***************************************************************************)
(* Counting.                                                               *)
(***************************************************************************)
LEMMA Counts ==
  /\ IsFiniteSet(Lent) /\ Cardinality(Lent) \in Nat
  /\ IsFiniteSet(Asking) /\ Cardinality(Asking) \in Nat
  /\ Cardinality(Threads) \in Nat
  /\ Cardinality(Asking) <= Cardinality(Threads)
<1>1. IsFiniteSet(Threads) /\ Lent \subseteq Threads /\ Asking \subseteq Threads
  BY PoolAssumption DEF Lent, Asking
<1>2. QED
  BY <1>1, FS_Subset, FS_CardinalityType

LEMMA CountsNext ==
  /\ IsFiniteSet(Lent') /\ Cardinality(Lent') \in Nat
  /\ IsFiniteSet(Asking') /\ Cardinality(Asking') \in Nat
<1>1. IsFiniteSet(Threads) /\ Lent' \subseteq Threads
      /\ Asking' \subseteq Threads
  BY PoolAssumption DEF Lent, Asking
<1>2. QED
  BY <1>1, FS_Subset, FS_CardinalityType

\* Wherever the mutex is held, the index is a word that can be reached.
LEMMA IndexReachable ==
  ASSUME TypeOK, SmallCountInv
  PROVE  available \in Words
BY Counts, PoolAssumption DEF TypeOK, SmallCountInv, Words

LEMMA SmallLentIsPositive ==
  ASSUME TypeOK, SmallCountInv, NEW t \in Threads, t \in Lent
  PROVE  available > 0
<1>1. Cardinality(Lent) # 0
  BY Counts, FS_EmptySet
<1>2. QED
  BY <1>1, Counts DEF TypeOK, SmallCountInv

\* One more thread past the test still leaves the index inside the words.
LEMMA RoomToAsk ==
  ASSUME TypeOK, available < ConnectionsCount,
         NEW t \in Threads, t \notin Asking
  PROVE  available + Cardinality(Asking) + 1
           < ConnectionsCount + Cardinality(Threads)
<1>1. IsFiniteSet(Threads \ {t})
      /\ Cardinality(Threads \ {t}) = Cardinality(Threads) - 1
  BY PoolAssumption, FS_RemoveElement
<1>2. Asking \subseteq Threads \ {t}
  BY DEF Asking
<1>3. Cardinality(Asking) <= Cardinality(Threads) - 1
  BY <1>1, <1>2, FS_Subset
<1>4. QED
  BY <1>3, Counts, PoolAssumption DEF TypeOK

-----------------------------------------------------------------------------
(***************************************************************************)
(* Every step of a process that is alive, one lemma for each action.       *)
(***************************************************************************)
LEMMA SmallInitIInv == Init => SmallIInv
<1> SUFFICES ASSUME Init PROVE SmallIInv
  OBVIOUS
<1>1. TypeOK
  BY PoolAssumption DEF Init, TypeOK, PC
<1>2. LockInv /\ SmallRunningInv /\ RetryInv
  BY PoolAssumption DEF Init, LockInv, SmallRunningInv, RetryInv
<1>3. SmallCountInv
  <2>1. Lent = {} /\ Asking = {}
    BY DEF Init, Lent, Asking
  <2>2. Cardinality(Lent) = 0 /\ Cardinality(Asking) = 0
    BY <2>1, FS_EmptySet
  <2>3. QED
    BY <2>2, Counts, PoolAssumption DEF Init, SmallCountInv
<1>4. SmallHasInv
  BY DEF Init, SmallHasInv, Has
<1>5. WordInv
  <2>1. ASSUME NEW i \in Words, connections[i] \in Conn
        PROVE  i \in Conn /\ connections[i] = i
    BY <2>1, PoolAssumption DEF Init, Conn
  <2>2. \A t \in Threads : ~Has(t)
    BY DEF Init, Has
  <2>3. QED
    BY <2>1, <2>2 DEF WordInv
<1>6. QED
  BY <1>1, <1>2, <1>3, <1>4, <1>5 DEF SmallIInv, Alive

\* A step of t that moves nothing but its program counter and its retries.
LEMMA QuietStep ==
  ASSUME TypeOK, Alive, NEW t \in Threads, NEW l \in PC \ {"dead"},
         Goto(t, l), l \in {"inc", "store"} <=> pc[t] \in {"inc", "store"},
         Has(t) <=> Has(t)',
         retries' \in [Threads -> 0..PoolRetry],
         \A u \in Threads \ {t} : retries'[u] = retries[u],
         l \in {"check", "lock", "read", "inc"} => retries'[t] > 0,
         LockInv', SmallCountInv',
         lock' \in Threads \cup {NULL},
         UNCHANGED <<connections, available>>,
         conn' \in [Threads -> Conn \cup {NULL, Wild}],
         \A u \in Threads : Has(u) => conn'[u] = conn[u]
  PROVE  TypeOK' /\ Alive'
<1> USE DEF Alive
<1>1. /\ \A u \in Threads \ {t} : pc'[u] = pc[u]
      /\ pc'[t] = l
      /\ pc' \in [Threads -> PC]
  BY DEF TypeOK, Goto, PC
<1>2. TypeOK'
  BY <1>1 DEF TypeOK
<1>3. SmallRunningInv'
  BY <1>1 DEF SmallRunningInv
<1>4. RetryInv'
  BY <1>1 DEF RetryInv
<1>5. \A u \in Threads : Has(u)' <=> Has(u)
  BY <1>1 DEF Has
<1>6. SmallHasInv'
  BY <1>5 DEF SmallHasInv
<1>7. Busy' <=> Busy
  BY <1>1 DEF Busy
<1>8. \A i : FreeWord(i)' <=> FreeWord(i)
  BY <1>7 DEF FreeWord
<1>9. WordInv'
  BY <1>5, <1>8 DEF WordInv
<1>10. QED
  BY <1>2, <1>3, <1>4, <1>6, <1>9

\* A step outside the critical section keeps the counts when it moves neither
\* into nor out of the places they count.
LEMMA SameCounts ==
  ASSUME SmallCountInv, Lent' = Lent, Asking' = Asking, available' = available
  PROVE  SmallCountInv'
BY DEF SmallCountInv

LEMMA EnterStep ==
  ASSUME TypeOK, Alive, NEW t \in Threads, Enter(t)
  PROVE  TypeOK' /\ Alive'
<1> USE DEF Enter
<1>1. /\ \A u \in Threads \ {t} : pc'[u] = pc[u]
      /\ pc'[t] = "check"
  BY DEF TypeOK, Goto
<1>2. LockInv'
  BY <1>1 DEF Alive, LockInv
<1>3. SmallCountInv'
  <2>1. Lent' = Lent /\ Asking' = Asking
    BY <1>1 DEF Lent, Asking
  <2>2. QED
    BY <2>1, SameCounts DEF Alive
<1>4. Has(t) <=> Has(t)'
  BY <1>1 DEF Has
<1>5. /\ retries' \in [Threads -> 0..PoolRetry]
      /\ retries'[t] > 0
      /\ \A u \in Threads \ {t} : retries'[u] = retries[u]
  BY PoolAssumption DEF TypeOK
<1>6. /\ conn' \in [Threads -> Conn \cup {NULL, Wild}]
      /\ \A u \in Threads : Has(u) => conn'[u] = conn[u]
  BY DEF TypeOK, Has
<1>7. QED
  BY <1>2, <1>3, <1>4, <1>5, <1>6, QuietStep DEF PC, TypeOK

\* The test that finds nothing free, and the retry it costs.
LEMMA CheckFullStep ==
  ASSUME TypeOK, Alive, NEW t \in Threads, pc[t] = "check", CheckFull(t)
  PROVE  TypeOK' /\ Alive'
<1> USE DEF CheckFull, Retry
<1> DEFINE l == IF retries[t] = 1 THEN "refused" ELSE "check"
<1>1. /\ \A u \in Threads \ {t} : pc'[u] = pc[u]
      /\ pc'[t] = l
  BY DEF TypeOK, Goto
<1>2. LockInv'
  BY <1>1 DEF Alive, LockInv
<1>3. SmallCountInv'
  <2>1. Lent' = Lent /\ Asking' = Asking
    BY <1>1 DEF Lent, Asking
  <2>2. QED
    BY <2>1, SameCounts DEF Alive
<1>4. Has(t) <=> Has(t)'
  BY <1>1 DEF Has
<1>5. retries[t] \in 0..PoolRetry /\ retries[t] > 0
  BY DEF TypeOK, Alive, RetryInv
<1>6. /\ retries' \in [Threads -> 0..PoolRetry]
      /\ l = "check" => retries'[t] > 0
      /\ \A u \in Threads \ {t} : retries'[u] = retries[u]
  BY <1>5, PoolAssumption DEF TypeOK
<1>7. QED
  BY <1>2, <1>3, <1>4, <1>6, QuietStep DEF PC, TypeOK

LEMMA CheckFreeStep ==
  ASSUME TypeOK, Alive, NEW t \in Threads, pc[t] = "check", CheckFree(t)
  PROVE  TypeOK' /\ Alive'
<1> USE DEF CheckFree
<1>1. /\ \A u \in Threads \ {t} : pc'[u] = pc[u]
      /\ pc'[t] = "lock"
  BY DEF TypeOK, Goto
<1>2. LockInv'
  BY <1>1 DEF Alive, LockInv
<1>3. SmallCountInv'
  <2>1. Lent' = Lent
    BY <1>1 DEF Lent
  <2>2. t \notin Asking /\ Asking' = Asking \cup {t}
    BY <1>1 DEF Asking
  <2>3. Cardinality(Asking') = Cardinality(Asking) + 1
    BY <2>2, Counts, FS_AddElement
  <2>4. QED
    BY <2>1, <2>2, <2>3, RoomToAsk, Counts DEF Alive, SmallCountInv, TypeOK
<1>4. Has(t) <=> Has(t)'
  BY <1>1 DEF Has
<1>5. retries[t] > 0
  BY DEF Alive, RetryInv
<1>6. QED
  BY <1>2, <1>3, <1>4, <1>5, QuietStep DEF PC, TypeOK

LEMMA SmallLockStep ==
  ASSUME TypeOK, Alive, NEW t \in Threads, Lock(t)
  PROVE  TypeOK' /\ Alive'
<1> USE DEF Lock
<1> DEFINE l == IF pc[t] = "lock" THEN "read" ELSE "dec"
<1>1. /\ \A u \in Threads \ {t} : pc'[u] = pc[u]
      /\ pc'[t] = l
  BY DEF TypeOK, Goto
<1>2. LockInv'
  BY <1>1, PoolAssumption DEF Alive, LockInv
<1>3. SmallCountInv'
  <2>1. Lent' = Lent /\ Asking' = Asking
    BY <1>1 DEF Lent, Asking
  <2>2. QED
    BY <2>1, SameCounts DEF Alive
<1>4. Has(t) <=> Has(t)'
  BY <1>1 DEF Has
<1>5. l = "read" => retries[t] > 0
  BY DEF Alive, RetryInv
<1>6. QED
  BY <1>2, <1>3, <1>4, <1>5, QuietStep DEF PC, TypeOK

\* PQexec answers, or the unlocked test of a return.
LEMMA SmallLentStep ==
  ASSUME TypeOK, Alive, NEW t \in Threads, NEW l \in {"leave", "relock"},
         pc[t] \in {"run", "leave"},
         Goto(t, l),
         UNCHANGED <<connections, available, lock, retries, conn>>
  PROVE  TypeOK' /\ Alive'
<1>1. /\ \A u \in Threads \ {t} : pc'[u] = pc[u]
      /\ pc'[t] = l
  BY DEF TypeOK, Goto
<1>2. LockInv'
  BY <1>1 DEF Alive, LockInv
<1>3. SmallCountInv'
  <2>1. Lent' = Lent /\ Asking' = Asking
    BY <1>1 DEF Lent, Asking
  <2>2. QED
    BY <2>1, SameCounts DEF Alive
<1>4. Has(t) <=> Has(t)'
  BY <1>1 DEF Has
<1>5. QED
  BY <1>2, <1>3, <1>4, QuietStep DEF PC, TypeOK

\* The word read belongs to its reader from now on: the index still points at
\* it, and whoever comes next waits for the mutex.
LEMMA SmallReadSlotStep ==
  ASSUME TypeOK, Alive, NEW t \in Threads, ReadSlot(t)
  PROVE  TypeOK' /\ Alive'
<1> USE DEF Alive, ReadSlot
<1>1. /\ \A u \in Threads \ {t} : pc'[u] = pc[u] /\ conn'[u] = conn[u]
      /\ pc'[t] = "inc"
      /\ pc' \in [Threads -> PC]
      /\ conn'[t] = connections[available]
  BY DEF TypeOK, Goto, PC
<1>2. available \in Words
  BY IndexReachable
<1>3. ~Busy
  BY DEF Busy, LockInv
<1>4. FreeWord(available)
  BY <1>2, <1>3 DEF FreeWord, TypeOK
<1>5. conn'[t] \in Conn =>
        /\ \A u \in Threads : Has(u) => conn[u] # conn'[t]
        /\ \A j \in Words : j # available /\ FreeWord(j)
                              => connections[j] # conn'[t]
  BY <1>1, <1>2, <1>4 DEF WordInv
<1>6. TypeOK'
  BY <1>1, <1>2 DEF TypeOK
<1>7. LockInv' /\ SmallRunningInv' /\ RetryInv'
  BY <1>1 DEF LockInv, SmallRunningInv, RetryInv
<1>8. SmallCountInv'
  <2>1. Lent' = Lent /\ Asking' = Asking
    BY <1>1 DEF Lent, Asking
  <2>2. QED
    BY <2>1, SameCounts
<1>9. \A u \in Threads : Has(u)' <=> Has(u) \/ u = t
  BY <1>1 DEF Has
<1>10. ~Has(t)
  BY DEF Has
<1>11. SmallHasInv'
  BY <1>1, <1>5, <1>9, <1>10 DEF SmallHasInv
<1>12. WordInv'
  <2>1. ASSUME NEW i \in Words, FreeWord(i)'
        PROVE  FreeWord(i) /\ i # available
    BY <2>1, <1>1, <1>3 DEF FreeWord, Busy
  <2>2. QED
    BY <1>1, <1>5, <1>9, <2>1 DEF WordInv
<1>13. QED
  BY <1>6, <1>7, <1>8, <1>11, <1>12

\* The word is counted; a null one is counted too, and the thread tries again.
LEMMA SmallIncrementStep ==
  ASSUME TypeOK, Alive, NEW t \in Threads, Increment(t)
  PROVE  TypeOK' /\ Alive'
<1> USE DEF Alive, Increment
<1> DEFINE l == IF conn[t] = NULL
                  THEN IF retries[t] = 1 THEN "refused" ELSE "check"
                  ELSE "run"
<1>1. /\ \A u \in Threads \ {t} : pc'[u] = pc[u]
      /\ pc'[t] = l
      /\ pc' \in [Threads -> PC]
  BY DEF TypeOK, Goto, PC, Retry
<1>2. retries[t] \in 0..PoolRetry /\ retries[t] > 0
  BY DEF TypeOK, RetryInv
<1>3. /\ retries' \in [Threads -> 0..PoolRetry]
      /\ l = "check" => retries'[t] > 0
      /\ \A u \in Threads \ {t} : retries'[u] = retries[u]
  BY <1>2, PoolAssumption DEF TypeOK, Retry
<1>4. TypeOK'
  BY <1>1, <1>3 DEF TypeOK
<1>5. LockInv' /\ SmallRunningInv' /\ RetryInv'
  BY <1>1, <1>3, PoolAssumption DEF LockInv, SmallRunningInv, RetryInv
<1>6. SmallCountInv'
  <2>1. t \in Asking /\ Asking' = Asking \ {t}
    BY <1>1 DEF Asking
  <2>2. Cardinality(Asking') = Cardinality(Asking) - 1
    BY <2>1, Counts, FS_RemoveElement
  <2>3. t \notin Lent /\ (Lent' = Lent \/ Lent' = Lent \cup {t})
    BY <1>1 DEF Lent
  <2>4. Cardinality(Lent \cup {t}) = Cardinality(Lent) + 1
    BY <2>3, Counts, FS_AddElement
  <2>5. Cardinality(Lent') <= Cardinality(Lent) + 1
    <3>1. CASE Lent' = Lent
      BY <3>1, Counts
    <3>2. CASE Lent' = Lent \cup {t}
      BY <3>2, <2>4, Counts
    <3>3. QED
      BY <2>3, <3>1, <3>2
  <2>6. QED
    BY <2>2, <2>5, Counts, CountsNext, PoolAssumption DEF SmallCountInv, TypeOK
<1>7. \A u \in Threads : Has(u)' => Has(u)
  BY <1>1 DEF Has
<1>8. SmallHasInv'
  BY <1>7 DEF SmallHasInv
<1>9. WordInv'
  <2>1. \A i \in Words : FreeWord(i)' => FreeWord(i)
    BY PoolAssumption, Counts DEF FreeWord, TypeOK, Words
  <2>2. QED
    BY <1>7, <2>1 DEF WordInv
<1>10. QED
  BY <1>4, <1>5, <1>6, <1>8, <1>9

LEMMA SmallDecrementStep ==
  ASSUME TypeOK, Alive, NEW t \in Threads, Decrement(t)
  PROVE  TypeOK' /\ Alive'
<1> USE DEF Alive, Decrement
<1>1. /\ \A u \in Threads \ {t} : pc'[u] = pc[u]
      /\ pc'[t] = "store"
      /\ pc' \in [Threads -> PC]
  BY DEF TypeOK, Goto, PC
<1>2. t \in Lent /\ available > 0
  BY SmallLentIsPositive DEF Lent
<1>3. TypeOK'
  BY <1>1, <1>2 DEF TypeOK
<1>4. LockInv' /\ SmallRunningInv' /\ RetryInv'
  BY <1>1 DEF LockInv, SmallRunningInv, RetryInv
<1>5. SmallCountInv'
  <2>1. Lent' = Lent \ {t} /\ Asking' = Asking
    BY <1>1 DEF Lent, Asking
  <2>2. Cardinality(Lent') = Cardinality(Lent) - 1
    BY <1>2, <2>1, Counts, FS_RemoveElement
  <2>3. QED
    BY <2>1, <2>2, Counts, PoolAssumption DEF SmallCountInv, TypeOK
<1>6. \A u \in Threads : Has(u)' <=> Has(u)
  BY <1>1 DEF Has
<1>7. SmallHasInv'
  BY <1>6 DEF SmallHasInv
<1>8. WordInv'
  <2>1. ASSUME NEW i \in Words, FreeWord(i)'
        PROVE  FreeWord(i)
    <3>1. Busy'
      BY <1>1 DEF Busy
    <3>2. i \in Int /\ available' < i
      BY <2>1, <3>1, PoolAssumption, Counts DEF FreeWord, Words, TypeOK
    <3>3. ~Busy
      BY DEF Busy, LockInv
    <3>4. QED
      BY <3>2, <3>3 DEF FreeWord, TypeOK
  <2>2. QED
    BY <1>6, <2>1 DEF WordInv
<1>9. QED
  BY <1>3, <1>4, <1>5, <1>7, <1>8

LEMMA SmallStoreStep ==
  ASSUME TypeOK, Alive, NEW t \in Threads, Store(t)
  PROVE  TypeOK' /\ Alive'
<1> USE DEF Alive, Store
<1>1. /\ \A u \in Threads \ {t} : pc'[u] = pc[u]
      /\ pc'[t] = "idle"
      /\ pc' \in [Threads -> PC]
  BY DEF TypeOK, Goto, PC
<1>2. available \in Words
  BY IndexReachable
<1>3. /\ connections'[available] = conn[t]
      /\ \A i \in Words \ {available} : connections'[i] = connections[i]
  BY <1>2 DEF TypeOK
<1>4. TypeOK'
  BY <1>1, <1>2 DEF TypeOK
<1>5. LockInv' /\ SmallRunningInv' /\ RetryInv'
  BY <1>1, PoolAssumption DEF LockInv, SmallRunningInv, RetryInv
<1>6. SmallCountInv'
  <2>1. Lent' = Lent /\ Asking' = Asking
    BY <1>1 DEF Lent, Asking
  <2>2. QED
    BY <2>1, SameCounts
<1>7. Has(t) /\ \A u \in Threads : Has(u)' <=> Has(u) /\ u # t
  BY <1>1 DEF Has
<1>8. SmallHasInv'
  BY <1>7 DEF SmallHasInv
<1>9. \A i \in Words \ {available} : FreeWord(i)' => FreeWord(i)
  BY DEF FreeWord
<1>10. \A i \in Words \ {available} :
         FreeWord(i) /\ connections[i] \in Conn => connections[i] # conn[t]
  BY <1>7 DEF WordInv
<1>11. WordInv'
  <2>1. ASSUME NEW i \in Words, FreeWord(i)', connections'[i] \in Conn
        PROVE  /\ \A u \in Threads : Has(u)' => conn'[u] # connections'[i]
               /\ \A j \in Words : j # i /\ FreeWord(j)'
                                    => connections'[j] # connections'[i]
    <3>1. CASE i = available
      <4>1. \A u \in Threads : Has(u)' => conn'[u] # connections'[i]
        BY <3>1, <2>1, <1>3, <1>7 DEF SmallHasInv
      <4>2. \A j \in Words : j # i /\ FreeWord(j)'
                               => connections'[j] # connections'[i]
        BY <3>1, <2>1, <1>3, <1>9, <1>10
      <4>3. QED
        BY <4>1, <4>2
    <3>2. CASE i # available
      <4>1. FreeWord(i) /\ connections'[i] = connections[i]
        BY <3>2, <2>1, <1>3, <1>9
      <4>2. \A u \in Threads : Has(u)' => conn'[u] # connections'[i]
        BY <4>1, <2>1, <1>7 DEF WordInv
      <4>3. \A j \in Words : j # i /\ FreeWord(j)'
                               => connections'[j] # connections'[i]
        BY <4>1, <3>2, <2>1, <1>3, <1>9, <1>10 DEF WordInv
      <4>4. QED
        BY <4>2, <4>3
    <3>3. QED
      BY <3>1, <3>2
  <2>2. QED
    BY <2>1 DEF WordInv
<1>12. QED
  BY <1>4, <1>5, <1>6, <1>8, <1>11

LEMMA SmallNextIInv ==
  ASSUME SmallIInv, [Next]_vars
  PROVE  SmallIInv'
<1>1. CASE UNCHANGED vars
  BY <1>1 DEF vars, SmallIInv, TypeOK, Dead, Alive, LockInv, SmallRunningInv, RetryInv,
              SmallCountInv, Lent, Asking, SmallHasInv, Has, WordInv, FreeWord, Busy
<1>2. ASSUME NEW t \in Threads, Enter(t) \/ Step(t)
      PROVE  SmallIInv'
  <2>1. TypeOK /\ Alive
    BY <1>2 DEF SmallIInv, Dead, Step, Enter, Check, Lock, ReadSlot, Increment, Run, Leave,
                Decrement, Store
  <2>2. CASE Enter(t)
    BY <2>1, <2>2, EnterStep DEF SmallIInv
  <2>3. CASE pc[t] = "check" /\ CheckFull(t)
    BY <2>1, <2>3, CheckFullStep DEF SmallIInv
  <2>4. CASE pc[t] = "check" /\ CheckFree(t)
    BY <2>1, <2>4, CheckFreeStep DEF SmallIInv
  <2>5. CASE Lock(t)
    BY <2>1, <2>5, SmallLockStep DEF SmallIInv
  <2>6. CASE ReadSlot(t)
    BY <2>1, <2>6, SmallReadSlotStep DEF SmallIInv
  <2>7. CASE Increment(t)
    BY <2>1, <2>7, SmallIncrementStep DEF SmallIInv
  <2>8. CASE pc[t] = "run" /\ Query(t)
    BY <2>1, <2>8, SmallLentStep DEF SmallIInv, Query
  <2>9. CASE pc[t] = "run" /\ Fault(t)
    BY <2>1, <2>9 DEF SmallIInv, Fault, TypeOK, PC, Dead
  <2>10. CASE Leave(t)
    <3>1. available # 0
      BY <2>1, <2>10, SmallLentIsPositive DEF Alive, Leave, Lent
    <3>2. QED
      BY <2>1, <2>10, <3>1, SmallLentStep DEF SmallIInv, Leave
  <2>11. CASE Decrement(t)
    BY <2>1, <2>11, SmallDecrementStep DEF SmallIInv
  <2>12. CASE Store(t)
    BY <2>1, <2>12, SmallStoreStep DEF SmallIInv
  <2>13. QED
    BY <1>2, <2>2, <2>3, <2>4, <2>5, <2>6, <2>7, <2>8, <2>9, <2>10, <2>11,
       <2>12 DEF Step, Check, Run
<1>3. QED
  BY <1>1, <1>2 DEF Next

-----------------------------------------------------------------------------
(***************************************************************************)
(* The theorems, for every number of threads and of connections.           *)
(***************************************************************************)

\* The types of the fields and the locals of db_exec, whatever the size of
\* the pool: among them, that the index never goes below zero.
THEOREM SmallPoolTypeOK == Spec => []TypeOK
<1>1. SmallIInv => TypeOK
  BY DEF SmallIInv
<1>2. QED
  BY <1>1, SmallInitIInv, SmallNextIInv, PTL DEF Spec

\* Two threads never use the same connection, although neither function tests
\* the index under the mutex and a pool may have fewer connections than
\* threads.
THEOREM PoolNoSharedConn == Spec => []NoSharedConn
<1>1. SmallIInv => NoSharedConn
  BY DEF SmallIInv, Dead, Alive, SmallHasInv, Has, NoSharedConn, Owns
<1>2. QED
  BY <1>1, SmallInitIInv, SmallNextIInv, PTL DEF Spec
=============================================================================
