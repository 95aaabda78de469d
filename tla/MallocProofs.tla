---------------------------- MODULE MallocProofs ----------------------------
(***************************************************************************)
(* What is proved of facil.io's allocator, for any number of threads,      *)
(* arenas and chunks, any number of blocks in a chunk and slices in a      *)
(* block, and pieces of any size that fits a block.                        *)
(*                                                                         *)
(* MallocInv says who may still touch a block: it is in the pool, on its   *)
(* way there, or counted once for each of its pieces, each arena that      *)
(* slices it and each fio_free under way (Counting), and a chunk for each  *)
(* of its blocks that is out of the pool.  With that no block is wiped or  *)
(* given back while something in it is in use.                             *)
(***************************************************************************)
EXTENDS Malloc, FiniteSetTheorems, TLAPS

\* fio_malloc sends what is too big for a block to big_alloc, so a piece fits one; the
\* threads and the arenas are finitely many, and a null pointer is none of the others.
MallocBounds ==
    /\ PerChunk \in Nat \ {0} /\ Slices \in Nat \ {0} /\ Sizes \subseteq 1..Slices
    /\ IsFiniteSet(Thread) /\ IsFiniteSet(Arena)
    /\ None \notin Blocks /\ None \notin Thread /\ None \notin Arena

----------------------------------------------------------------------------
\* A chunk that a thread is about to give back; a block that is in use or about to be
\* wiped; and the three kinds of holders that its counter counts: pieces, arenas that
\* have not given it up, and frees on their way.
Parting(c) == \E t \in Thread : At(t, "unmap") /\ pc[t].b[1] = c
Used(b) == b \notin InPool /\ b[1] \in mapped /\ ~Parting(b[1])
Held == live \union Returned

Holds(a) == block[a] # None /\ (lock[a] # None => pc[lock[a]].at \in {"take", "unref", "exit"})
Frees(t) == At(t, "unref") /\ pc[t].arena = None

PiecesIn(b) == {p \in Held : p.b = b}
ArenasOn(b) == {a \in Arena : block[a] = b /\ Holds(a)}
FreesOf(b) == {t \in Thread : Frees(t) /\ pc[t].b = b}
Holders(b) == Cardinality(PiecesIn(b)) + Cardinality(ArenasOn(b)) + Cardinality(FreesOf(b))

Wipes(t) == At(t, "wipe") \/ At(t, "pool")
BlocksOut(c) == BlocksOf(c) \ InPool

----------------------------------------------------------------------------
PieceType == [b : Blocks \union {None}, at : Nat, n : Nat]
CallType ==
    [at : {"idle", "new", "take", "unref", "wipe", "pool", "unmap", "empty", "exit"},
     arena : Arena \union {None}, n : Nat, b : Blocks \union {None},
     then : {"idle", "new", "empty"}, mem : PieceType]

Types ==
    /\ mapped \subseteq Chunk /\ available \in Seq(Blocks) /\ IsInjective(available)
    /\ root_ref \in [Chunk -> Int] /\ ref \in [Blocks -> Int] /\ pos \in [Blocks -> 0..Slices]
    /\ block \in [Arena -> Blocks \union {None}] /\ lock \in [Arena -> Thread \union {None}]
    /\ IsFiniteSet(live)
    /\ pc \in [Thread -> CallType]

\* Where a thread can be in fio_free, and in fio_malloc.
CallOK(t) ==
    LET p == pc[t] IN
    /\ p.at = "idle" => p = Idle
    /\ p.at \in {"unref", "wipe", "pool", "unmap"} => p.b \in Blocks
    /\ p.arena = None =>
         p.then = "idle" /\ p.mem = NoPiece /\ p.at \in {"idle", "unref", "wipe", "pool", "unmap"}
    /\ p.arena # None =>
         /\ lock[p.arena] = t /\ p.n \in Sizes
         /\ p.at \in {"new", "take"} => p.mem = NoPiece
         /\ p.at = "take" => block[p.arena] # None /\ pos[block[p.arena]] + p.n <= Slices
         /\ p.at \in {"unref", "wipe", "pool", "unmap"} =>
              p.then \in {"new", "empty"} /\ (p.then = "empty" <=> p.mem # NoPiece)
         /\ p.at = "unref" => block[p.arena] = p.b
         /\ p.at \in {"empty", "exit"} => p.mem # NoPiece
Calls == \A t \in Thread : CallOK(t)
Locks == \A a \in Arena : lock[a] # None => pc[lock[a]].arena = a

\* Pieces are apart; nobody has one that is in the program too.
PieceOK(p) ==
    p.b \in Blocks /\ p.n \in Sizes /\ p.at \in Nat /\ p.at + p.n <= pos[p.b] /\ Used(p.b)
Pieces ==
    /\ \A p \in Held : PieceOK(p)
    /\ \A p, q \in Held : p # q /\ p.b = q.b => p.at + p.n <= q.at \/ q.at + q.n <= p.at
    /\ \A t \in Thread : pc[t].mem # NoPiece =>
          pc[t].mem \notin live /\ \A u \in Thread : u # t => pc[u].mem # pc[t].mem

\* Who holds a block, wipes it or gives its chunk back is not disturbed.
Holding ==
    /\ \A a \in Arena : Holds(a) => Used(block[a])
    /\ \A a, d \in Arena : a # d /\ Holds(a) /\ Holds(d) => block[a] # block[d]
    /\ \A t \in Thread : Frees(t) => Used(pc[t].b)
Wiping ==
    \A t \in Thread : Wipes(t) =>
        /\ Used(pc[t].b) /\ ref[pc[t].b] = 0
        /\ \A u \in Thread : u # t /\ Wipes(u) => pc[u].b # pc[t].b
Giving ==
    \A t \in Thread : At(t, "unmap") =>
        /\ pc[t].b[1] \in mapped
        /\ \A u \in Thread : u # t /\ At(u, "unmap") => pc[u].b[1] # pc[t].b[1]
        /\ \A b \in InPool : b[1] # pc[t].b[1]

\* The counters count.
Counting ==
    /\ \A b \in Blocks : ref[b] >= 0
    /\ \A b \in Blocks : Used(b) =>
         /\ ref[b] = Holders(b)
         /\ ref[b] = 0 => \E t \in Thread : Wipes(t) /\ pc[t].b = b
    /\ \A c \in mapped : ~Parting(c) => root_ref[c] = Cardinality(BlocksOut(c)) /\ root_ref[c] >= 1
    /\ \A b \in InPool : b[1] \in mapped

\* What is written is in a piece that was cut off, and wiped before the block is in
\* the pool.
Written ==
    /\ \A b \in Blocks, i \in Int : <<b, i>> \in dirty =>
         /\ i \in 0..pos[b] - 1 /\ Used(b)
         /\ \A t \in Thread : At(t, "pool") => pc[t].b # b
    /\ \A t \in Thread : \A s \in SlicesOf(pc[t].mem) : s \notin dirty

MallocInv == Types /\ Calls /\ Locks /\ Pieces /\ Holding /\ Wiping /\ Giving /\ Counting /\ Written

----------------------------------------------------------------------------
\* The blocks of a chunk, and the one at its start.
LEMMA BlockFacts ==
  ASSUME MallocBounds
  PROVE  /\ \A b \in Blocks : b[1] \in Chunk /\ b \in BlocksOf(b[1])
         /\ \A c \in Chunk : /\ BlocksOf(c) \subseteq Blocks /\ Root(c) \in BlocksOf(c)
                              /\ \A b \in BlocksOf(c) : b[1] = c
         /\ \A c : IsFiniteSet(BlocksOf(c))
<1>1. \A c : IsFiniteSet(BlocksOf(c))
  <2>1. IsFiniteSet(0..PerChunk - 1)
    BY FS_Interval DEF MallocBounds
  <2>2. \A c : IsFiniteSet({c})
    BY FS_Singleton
  <2>3. QED
    BY <2>1, <2>2, FS_Product DEF BlocksOf
<1>2. \A b \in Blocks : b[1] \in Chunk /\ b \in BlocksOf(b[1])
  BY DEF Blocks, BlocksOf
<1>3. \A c \in Chunk : BlocksOf(c) \subseteq Blocks /\ \A b \in BlocksOf(c) : b[1] = c
  BY DEF Blocks, BlocksOf
<1>4. \A c \in Chunk : Root(c) \in BlocksOf(c)
  BY DEF MallocBounds, BlocksOf, Root
<1>5. QED
  BY <1>1, <1>2, <1>3, <1>4

\* A size that is asked for fits a block.
LEMMA SizesFit == ASSUME MallocBounds PROVE \A n \in Sizes : n \in Nat /\ n >= 1 /\ n <= Slices
BY DEF MallocBounds

\* The holders of a block can be counted.
LEMMA HoldersFinite ==
  ASSUME MallocBounds, Types, NEW b
  PROVE  /\ IsFiniteSet(PiecesIn(b)) /\ IsFiniteSet(ArenasOn(b)) /\ IsFiniteSet(FreesOf(b))
         /\ Cardinality(PiecesIn(b)) \in Nat /\ (PiecesIn(b) # {} => Cardinality(PiecesIn(b)) > 0)
         /\ Cardinality(ArenasOn(b)) \in Nat /\ (ArenasOn(b) # {} => Cardinality(ArenasOn(b)) > 0)
         /\ Cardinality(FreesOf(b)) \in Nat /\ (FreesOf(b) # {} => Cardinality(FreesOf(b)) > 0)
<1> DEFINE mems == {pc[t].mem : t \in Thread}
           f == [t \in Thread |-> pc[t].mem]
<1>1. IsFiniteSet(Thread) /\ IsFiniteSet(Arena) /\ IsFiniteSet(live)
  BY DEF MallocBounds, Types
<1>2. IsFiniteSet(mems)
  <2>1. f \in Surjection(Thread, mems)
    BY DEF Surjection
  <2> HIDE DEF f, mems
  <2>2. QED
    BY <2>1, <1>1, FS_Surjection
<1>3. IsFiniteSet(live \union mems)
  BY <1>1, <1>2, FS_Union
<1>4. IsFiniteSet(PiecesIn(b))
  <2>1. PiecesIn(b) \in SUBSET (live \union mems)
    BY DEF PiecesIn, Held, Returned
  <2>2. QED
    BY <2>1, <1>3, FS_Subset
<1>5. IsFiniteSet(ArenasOn(b))
  <2>1. ArenasOn(b) \in SUBSET Arena
    BY DEF ArenasOn
  <2>2. QED
    BY <2>1, <1>1, FS_Subset
<1>6. IsFiniteSet(FreesOf(b))
  <2>1. FreesOf(b) \in SUBSET Thread
    BY DEF FreesOf
  <2>2. QED
    BY <2>1, <1>1, FS_Subset
<1>7. \A S : IsFiniteSet(S) => Cardinality(S) \in Nat /\ (S # {} => Cardinality(S) > 0)
  <2>1. ASSUME NEW S, IsFiniteSet(S) PROVE Cardinality(S) \in Nat /\ (S # {} => Cardinality(S) > 0)
    <3>1. Cardinality(S) \in Nat
      BY <2>1, FS_CardinalityType
    <3>2. Cardinality(S) = 0 <=> S = {}
      BY <2>1, FS_EmptySet
    <3>3. QED
      BY <3>1, <3>2
  <2>2. QED
    BY <2>1
<1>8. QED
  BY <1>4, <1>5, <1>6, <1>7

\* Nobody holds a block that is being wiped, and one that is held is used.
LEMMA WipedUnheld ==
  ASSUME MallocBounds, MallocInv, NEW t \in Thread, Wipes(t)
  PROVE  /\ pc[t].b \in Blocks
         /\ PiecesIn(pc[t].b) = {} /\ ArenasOn(pc[t].b) = {} /\ FreesOf(pc[t].b) = {}
<1> DEFINE b == pc[t].b
<1>1. b \in Blocks
  BY DEF MallocInv, Calls, CallOK, Wipes, At
<1>2. ref[b] = 0 /\ ref[b] = Holders(b)
  BY <1>1 DEF MallocInv, Wiping, Counting
<1>3. Types
  BY DEF MallocInv
<1> HIDE DEF b
<1>4. /\ PiecesIn(b) = {} /\ ArenasOn(b) = {} /\ FreesOf(b) = {}
  <2>1. /\ Cardinality(PiecesIn(b)) \in Nat /\ (PiecesIn(b) # {} => Cardinality(PiecesIn(b)) > 0)
        /\ Cardinality(ArenasOn(b)) \in Nat /\ (ArenasOn(b) # {} => Cardinality(ArenasOn(b)) > 0)
        /\ Cardinality(FreesOf(b)) \in Nat /\ (FreesOf(b) # {} => Cardinality(FreesOf(b)) > 0)
    BY <1>3, HoldersFinite
  <2>2. QED
    BY <2>1, <1>2 DEF Holders
<1>5. QED
  BY <1>1, <1>4 DEF b

\* block_free wipes a block that nobody holds.
LEMMA MallocWipe ==
  ASSUME MallocBounds, MallocInv, NEW t \in Thread, Wipe(t)
  PROVE  MallocInv'
<1> DEFINE b == pc[t].b
<1>1. /\ pc' \in [Thread -> CallType] /\ pc[t] \in CallType /\ pc[t].at = "wipe"
      /\ \A u \in Thread : u # t => pc'[u] = pc[u]
      /\ pc'[t] = [pc[t] EXCEPT !.at = "pool"]
  <2>1. pc \in [Thread -> CallType] /\ pc[t].at = "wipe" /\ pc' = [pc EXCEPT ![t].at = "pool"]
    BY DEF MallocInv, Types, Wipe, Goto, At
  <2>2. [pc[t] EXCEPT !.at = "pool"] \in CallType
    BY <2>1 DEF CallType
  <2>3. QED
    BY <2>1, <2>2
<1>2. /\ pc'[t].at = "pool" /\ pc'[t].arena = pc[t].arena /\ pc'[t].n = pc[t].n /\ pc'[t].b = b
      /\ pc'[t].then = pc[t].then /\ pc'[t].mem = pc[t].mem
  BY <1>1 DEF CallType
<1>3. UNCHANGED <<mapped, root_ref, ref, pos, block, lock, live, available>> /\ dirty' = dirty \ Wiped(b)
  BY DEF Wipe
<1> HIDE DEF b
<1>4. Types'
  BY <1>1, <1>3 DEF MallocInv, Types
<1>5. Held' = Held /\ InPool' = InPool
  <2>1. \A u \in Thread : pc'[u].mem = pc[u].mem
    BY <1>1, <1>2
  <2>2. QED
    BY <2>1, <1>3 DEF Held, Returned, InPool
<1>6. \A c : Parting(c)' <=> Parting(c)
  BY <1>1, <1>2 DEF Parting, At
<1>7. \A x : Used(x)' <=> Used(x)
  BY <1>3, <1>5, <1>6 DEF Used
<1>8. Calls'
  <2>1. ASSUME NEW u \in Thread, u # t PROVE CallOK(u)'
    BY <2>1, <1>1, <1>3 DEF MallocInv, Calls, CallOK
  <2>2. CallOK(t)'
    BY <1>1, <1>2, <1>3 DEF MallocInv, Calls, CallOK
  <2>3. QED
    BY <2>1, <2>2 DEF Calls
<1>9. Locks'
  <2>1. \A u \in Thread : pc'[u].arena = pc[u].arena
    BY <1>1, <1>2
  <2>2. QED
    BY <2>1, <1>3 DEF MallocInv, Types, Locks, MallocBounds
<1>10. \A a \in Arena : Holds(a)' <=> Holds(a)
  BY <1>1, <1>2, <1>3 DEF Holds, MallocInv, Types
<1>11. \A u \in Thread : /\ Frees(u)' <=> Frees(u)
                         /\ Wipes(u)' <=> Wipes(u)
                         /\ At(u, "unmap")' <=> At(u, "unmap")
                         /\ At(u, "pool")' <=> (At(u, "pool") \/ u = t)
                         /\ pc'[u].b = pc[u].b /\ pc'[u].mem = pc[u].mem
  BY <1>1, <1>2 DEF Frees, Wipes, At, b
<1>12. Pieces'
  BY <1>3, <1>5, <1>7, <1>11 DEF MallocInv, Pieces, PieceOK
<1>13. Holding'
  BY <1>3, <1>7, <1>10, <1>11 DEF MallocInv, Holding
<1>14. Wiping' /\ Giving'
  BY <1>3, <1>7, <1>11, <1>5 DEF MallocInv, Wiping, Giving
<1>15. \A x \in Blocks : Holders(x)' = Holders(x)
  BY <1>3, <1>5, <1>10, <1>11 DEF Holders, PiecesIn, ArenasOn, FreesOf
<1>16. Counting'
  BY <1>3, <1>5, <1>6, <1>7, <1>11, <1>15 DEF MallocInv, Counting, BlocksOut
<1>17. Written'
  <2>1. \A i \in Int : <<b, i>> \notin dirty'
    <3>1. pos[b] \in 0..Slices /\ b \in Blocks
      BY <1>1 DEF MallocInv, Types, Calls, CallOK, b
    <3>2. \A i \in 0..Slices - 1 : <<b, i>> \notin dirty'
      BY <1>3 DEF Wiped
    <3>3. QED
      BY <3>1, <3>2, <1>3 DEF MallocInv, Written, MallocBounds
  <2>2. dirty' \subseteq dirty
    BY <1>3
  <2>3. \A x \in Blocks, i \in Int : <<x, i>> \in dirty' =>
         i \in 0..pos'[x] - 1 /\ Used(x)' /\ \A u \in Thread : At(u, "pool")' => pc'[u].b # x
    BY <2>1, <2>2, <1>3, <1>7, <1>11 DEF MallocInv, Written, b
  <2>4. \A u \in Thread : \A e \in SlicesOf(pc'[u].mem) : e \notin dirty'
    BY <2>2, <1>11 DEF MallocInv, Written
  <2>5. QED
    BY <2>3, <2>4 DEF Written
<1>18. QED
  BY <1>4, <1>8, <1>9, <1>12, <1>13, <1>14, <1>16, <1>17 DEF MallocInv

\* block_slice lets its arena drop a block that is used up.
LEMMA MallocEmpty ==
  ASSUME MallocBounds, MallocInv, NEW t \in Thread, Empty(t)
  PROVE  MallocInv'
<1>0. PICK a : a = pc[t].arena
  OBVIOUS
<1>1. /\ pc' \in [Thread -> CallType] /\ pc[t] \in CallType /\ pc[t].at = "empty"
      /\ \A u \in Thread : u # t => pc'[u] = pc[u]
      /\ pc'[t] = [pc[t] EXCEPT !.at = "exit"]
  <2>1. pc \in [Thread -> CallType] /\ pc[t].at = "empty" /\ pc' = [pc EXCEPT ![t].at = "exit"]
    BY DEF MallocInv, Types, Empty, Goto, At
  <2>2. [pc[t] EXCEPT !.at = "exit"] \in CallType
    BY <2>1 DEF CallType
  <2>3. QED
    BY <2>1, <2>2
<1>2. /\ pc'[t].at = "exit" /\ pc'[t].arena = a /\ pc'[t].n = pc[t].n /\ pc'[t].b = pc[t].b
      /\ pc'[t].then = pc[t].then /\ pc'[t].mem = pc[t].mem
  BY <1>0, <1>1 DEF CallType
<1>3. UNCHANGED <<mapped, root_ref, ref, pos, lock, live, available, dirty>>
  BY <1>0 DEF Empty
<1>4. a \in Arena /\ lock[a] = t /\ a # None
  BY <1>0, <1>1 DEF MallocInv, Calls, CallOK, CallType
<1>5. block' = [block EXCEPT ![a] = None]
  BY <1>0 DEF Empty
<1>6. Types'
  BY <1>1, <1>3, <1>4, <1>5 DEF MallocInv, Types
<1>7. Held' = Held /\ InPool' = InPool
  <2>1. \A u \in Thread : pc'[u].mem = pc[u].mem
    BY <1>1, <1>2
  <2>2. QED
    BY <2>1, <1>3 DEF Held, Returned, InPool
<1>8. \A c : Parting(c)' <=> Parting(c)
  BY <1>1, <1>2 DEF Parting, At
<1>9. \A x : Used(x)' <=> Used(x)
  BY <1>3, <1>7, <1>8 DEF Used
<1>10. \A d \in Arena : d # a => block'[d] = block[d]
  BY <1>5 DEF MallocInv, Types
<1>20. block'[a] = None
  BY <1>4, <1>5 DEF MallocInv, Types
<1>11. Calls'
  <2>1. ASSUME NEW u \in Thread, u # t PROVE CallOK(u)'
    <3>1. CallOK(u) /\ pc'[u] = pc[u] /\ lock' = lock /\ pos' = pos
      BY <2>1, <1>1, <1>3 DEF MallocInv, Calls
    <3>2. pc[u].arena # None => pc[u].arena # a /\ pc[u].arena \in Arena
      BY <2>1, <3>1, <1>4 DEF CallOK, MallocInv, Types, CallType
    <3>3. QED
      BY <3>1, <3>2, <1>10 DEF CallOK
  <2>2. CallOK(t)'
    BY <1>0, <1>1, <1>2, <1>3, <1>4 DEF MallocInv, Calls, CallOK
  <2>3. QED
    BY <2>1, <2>2 DEF Calls
<1>12. Locks'
  <2>1. \A u \in Thread : pc'[u].arena = pc[u].arena
    BY <1>0, <1>1, <1>2
  <2>2. QED
    BY <2>1, <1>3 DEF MallocInv, Types, Locks, MallocBounds
<1>13. \A d \in Arena : /\ Holds(d)' <=> Holds(d)
                        /\ Holds(d) => block'[d] = block[d]
  <2>4. ~Holds(a)
    BY <1>1, <1>4 DEF Holds, MallocBounds
  <2>1. ~Holds(a)'
    BY <1>20 DEF Holds
  <2>2. ASSUME NEW d \in Arena, d # a PROVE Holds(d)' <=> Holds(d)
    <3>1. lock[d] # t
      BY <1>0, <2>2, <1>4, <1>1 DEF MallocInv, Locks, MallocBounds
    <3>2. lock[d] # None => pc'[lock[d]] = pc[lock[d]]
      BY <3>1, <1>1 DEF MallocInv, Types
    <3>3. QED
      BY <3>2, <2>2, <1>3, <1>10 DEF Holds
  <2>3. QED
    BY <2>1, <2>2, <2>4, <1>10, Zenon
<1>14. \A u \in Thread : /\ Frees(u)' <=> Frees(u)
                         /\ Wipes(u)' <=> Wipes(u)
                         /\ At(u, "unmap")' <=> At(u, "unmap")
                         /\ At(u, "pool")' <=> At(u, "pool")
                         /\ pc'[u].b = pc[u].b /\ pc'[u].mem = pc[u].mem
  BY <1>0, <1>1, <1>2 DEF Frees, Wipes, At
<1>15. Pieces'
  BY <1>3, <1>7, <1>9, <1>14 DEF MallocInv, Pieces, PieceOK
<1>16. Holding'
  BY <1>3, <1>9, <1>13, <1>14 DEF MallocInv, Holding
<1>17. Wiping' /\ Giving'
  BY <1>3, <1>7, <1>9, <1>14 DEF MallocInv, Wiping, Giving
<1>18. \A x \in Blocks : Holders(x)' = Holders(x)
  <2>1. \A x \in Blocks : ArenasOn(x)' = ArenasOn(x)
    BY <1>13, <1>20, <1>10, <1>4 DEF ArenasOn, MallocBounds
  <2>2. QED
    BY <2>1, <1>7, <1>14 DEF Holders, PiecesIn, FreesOf
<1>19. Counting'
  BY <1>3, <1>7, <1>8, <1>9, <1>14, <1>18 DEF MallocInv, Counting, BlocksOut
<1>21. Written'
  BY <1>3, <1>9, <1>14 DEF MallocInv, Written
<1>22. QED
  BY <1>6, <1>11, <1>12, <1>15, <1>16, <1>17, <1>19, <1>21 DEF MallocInv

\* fio_malloc lets go of its arena, and its caller may write into the piece.
LEMMA MallocExit ==
  ASSUME MallocBounds, MallocInv, NEW t \in Thread, Exit(t)
  PROVE  MallocInv'
<1>0. PICK a, p : a = pc[t].arena /\ p = pc[t].mem
  OBVIOUS
<1>1. /\ pc' \in [Thread -> CallType] /\ pc[t] \in CallType /\ pc[t].at = "exit"
      /\ \A u \in Thread : u # t => pc'[u] = pc[u]
      /\ pc'[t] = Idle
  <2>1. pc \in [Thread -> CallType] /\ pc[t].at = "exit" /\ pc' = [pc EXCEPT ![t] = Idle]
    BY DEF MallocInv, Types, Exit, At
  <2>2. Idle \in CallType
    BY DEF CallType, Idle, NoPiece, Piece, PieceType
  <2>3. QED
    BY <2>1, <2>2
<1>2. /\ pc'[t].at = "idle" /\ pc'[t].arena = None /\ pc'[t].n = 0 /\ pc'[t].b = None
      /\ pc'[t].then = "idle" /\ pc'[t].mem = NoPiece
  BY <1>1 DEF Idle
<1>3. UNCHANGED <<mapped, root_ref, ref, pos, block, available>>
  BY <1>0 DEF Exit
<1>4. /\ a \in Arena /\ lock[a] = t /\ a # None
      /\ p # NoPiece /\ p \in Held /\ p \in Returned /\ PieceOK(p)
  BY <1>0, <1>1 DEF MallocInv, Calls, CallOK, CallType, Held, Returned, Pieces
<1>5. lock' = [lock EXCEPT ![a] = None] /\ live' = live \union {p} /\ dirty' = dirty \union SlicesOf(p)
  BY <1>0 DEF Exit
<1>6. Types'
  <2>1. IsFiniteSet(live')
    BY <1>5, FS_AddElement DEF MallocInv, Types
  <2>2. QED
    BY <2>1, <1>1, <1>3, <1>4, <1>5 DEF MallocInv, Types
<1>7. Held' = Held /\ InPool' = InPool
  <2>1. Returned' = Returned \ {p}
    BY <1>0, <1>1, <1>2, <1>4 DEF Returned, MallocInv, Pieces
  <2>2. QED
    BY <2>1, <1>3, <1>4, <1>5 DEF Held, InPool
<1>8. \A c : Parting(c)' <=> Parting(c)
  BY <1>1, <1>2 DEF Parting, At
<1>9. \A x : Used(x)' <=> Used(x)
  BY <1>3, <1>7, <1>8 DEF Used
<1>10. lock'[a] = None /\ \A d \in Arena : d # a => lock'[d] = lock[d]
  BY <1>4, <1>5 DEF MallocInv, Types
<1>11. Calls'
  <2>1. ASSUME NEW u \in Thread, u # t PROVE CallOK(u)'
    <3>1. CallOK(u) /\ pc'[u] = pc[u] /\ block' = block /\ pos' = pos
      BY <2>1, <1>1, <1>3 DEF MallocInv, Calls
    <3>2. pc[u].arena # None => pc[u].arena # a /\ pc[u].arena \in Arena
      BY <2>1, <3>1, <1>4 DEF CallOK, MallocInv, Types, CallType
    <3>3. QED
      BY <3>1, <3>2, <1>10 DEF CallOK
  <2>2. CallOK(t)'
    BY <1>1, <1>2 DEF CallOK
  <2>3. QED
    BY <2>1, <2>2 DEF Calls
<1>12. Locks'
  <2>1. \A d \in Arena : d # a => lock[d] # t
    BY <1>0, <1>4, <1>1 DEF MallocInv, Locks, MallocBounds
  <2>2. \A d \in Arena : lock[d] # None => lock[d] \in Thread /\ pc[lock[d]].arena = d
    BY DEF MallocInv, Types, Locks
  <2>3. QED
    BY <2>1, <2>2, <1>10, <1>1 DEF Locks
<1>13. \A d \in Arena : Holds(d)' <=> Holds(d)
  <2>4. Holds(a) <=> block[a] # None
    BY <1>1, <1>4 DEF Holds
  <2>5. Holds(a)' <=> block'[a] # None
    BY <1>10 DEF Holds
  <2>1. Holds(a)' <=> Holds(a)
    BY <2>4, <2>5, <1>3, Zenon
  <2>2. ASSUME NEW d \in Arena, d # a PROVE Holds(d)' <=> Holds(d)
    <3>1. lock[d] # t
      BY <1>0, <2>2, <1>4, <1>1 DEF MallocInv, Locks, MallocBounds
    <3>2. lock[d] # None => pc'[lock[d]] = pc[lock[d]]
      BY <3>1, <1>1 DEF MallocInv, Types
    <3>3. QED
      BY <3>2, <2>2, <1>3, <1>10 DEF Holds
  <2>3. QED
    BY <2>1, <2>2, Zenon
<1>14. \A u \in Thread : /\ Frees(u)' <=> Frees(u)
                         /\ Wipes(u)' <=> Wipes(u)
                         /\ At(u, "unmap")' <=> At(u, "unmap")
                         /\ At(u, "pool")' <=> At(u, "pool")
                         /\ u # t => pc'[u].b = pc[u].b /\ pc'[u].mem = pc[u].mem
  BY <1>1, <1>2 DEF Frees, Wipes, At
<1>23. ~Frees(t) /\ ~Wipes(t) /\ ~At(t, "unmap")
  BY <1>1 DEF Frees, Wipes, At
<1>15. Pieces'
  <2>1. \A u \in Thread : pc'[u].mem # NoPiece =>
          pc'[u].mem \notin live' /\ \A v \in Thread : v # u => pc'[v].mem # pc'[u].mem
    BY <1>0, <1>2, <1>5, <1>14, <1>4 DEF MallocInv, Pieces
  <2>2. QED
    BY <2>1, <1>3, <1>7, <1>9 DEF MallocInv, Pieces, PieceOK
<1>16. Holding'
  BY <1>3, <1>9, <1>13, <1>14, <1>23 DEF MallocInv, Holding
<1>17. Wiping' /\ Giving'
  BY <1>3, <1>7, <1>9, <1>14, <1>23 DEF MallocInv, Wiping, Giving
<1>18. \A x \in Blocks : Holders(x)' = Holders(x)
  BY <1>3, <1>7, <1>13, <1>14, <1>23 DEF Holders, PiecesIn, FreesOf, ArenasOn
<1>19. Counting'
  BY <1>3, <1>7, <1>8, <1>9, <1>14, <1>18, <1>23 DEF MallocInv, Counting, BlocksOut
<1>21. Written'
  <2>1. ASSUME NEW x \in Blocks, NEW i \in Int, <<x, i>> \in SlicesOf(p)
        PROVE  /\ i \in 0..pos[x] - 1 /\ Used(x)
               /\ \A u \in Thread : At(u, "pool") => pc[u].b # x
    <3>1. x = p.b /\ i \in p.at..p.at + p.n - 1
      BY <2>1 DEF SlicesOf
    <3>2. i \in 0..pos[x] - 1 /\ Used(x)
      <4>1. /\ p.at \in Nat /\ p.n \in Int /\ pos[x] \in Int /\ p.at + p.n <= pos[x] /\ Used(x)
        <5>1. PieceOK(p) /\ x = p.b
          BY <3>1, <1>4
        <5>2. pos[x] \in Int
          BY DEF MallocInv, Types, MallocBounds
        <5>3. p.n \in Int
          BY <5>1, SizesFit DEF PieceOK
        <5>4. QED
          BY <5>1, <5>2, <5>3 DEF PieceOK
      <4>2. QED
        BY <4>1, <3>1
    <3>3. p \in PiecesIn(x)
      BY <3>1, <1>4 DEF PiecesIn
    <3>4. QED
      <4>1. ASSUME NEW u \in Thread, At(u, "pool"), pc[u].b = x PROVE FALSE
        <5>1. PiecesIn(x) = {}
          BY <4>1, WipedUnheld DEF Wipes
        <5>2. QED
          BY <5>1, <3>3
      <4>2. QED
        BY <3>2, <4>1
  <2>2. \A u \in Thread : \A e \in SlicesOf(pc'[u].mem) : e \notin dirty'
    <3>1. ASSUME NEW u \in Thread, u # t, pc[u].mem # NoPiece, NEW e \in SlicesOf(pc[u].mem)
          PROVE  e \notin SlicesOf(p)
      <4>1. pc[u].mem \in Held /\ pc[u].mem # p
        BY <1>0, <3>1, <1>4 DEF Held, Returned, MallocInv, Pieces
      <4>2. /\ PieceOK(pc[u].mem) /\ PieceOK(p)
            /\ pc[u].mem.b = p.b => \/ pc[u].mem.at + pc[u].mem.n <= p.at
                                   \/ p.at + p.n <= pc[u].mem.at
        BY <4>1, <1>4 DEF MallocInv, Pieces
      <4>3. \A q \in {p, pc[u].mem} : q.at \in Nat /\ q.n \in Nat
        BY <4>2, SizesFit DEF PieceOK
      <4>4. ASSUME e \in SlicesOf(p) PROVE FALSE
        <5>1. PICK i \in p.at..p.at + p.n - 1 : e = <<p.b, i>>
          BY <4>4 DEF SlicesOf
        <5>2. PICK j \in pc[u].mem.at..pc[u].mem.at + pc[u].mem.n - 1 : e = <<pc[u].mem.b, j>>
          BY <3>1 DEF SlicesOf
        <5>3. i = j /\ p.b = pc[u].mem.b
          BY <5>1, <5>2
        <5>4. QED
          BY <5>3, <4>2, <4>3
      <4>5. QED
        BY <4>4
    <3>2. SlicesOf(NoPiece) = {}
      BY DEF SlicesOf, NoPiece, Piece
    <3>3. QED
      BY <3>1, <3>2, <1>5, <1>14, <1>2 DEF MallocInv, Written
  <2>3. QED
    BY <2>1, <2>2, <1>3, <1>5, <1>9, <1>14, <1>23 DEF MallocInv, Written, Wipes
<1>22. QED
  BY <1>6, <1>11, <1>12, <1>15, <1>16, <1>17, <1>19, <1>21 DEF MallocInv

\* fio_free takes a piece from its user.
LEMMA MallocFreePiece ==
  ASSUME MallocBounds, MallocInv, NEW t \in Thread, NEW p \in live, FreePiece(t, p)
  PROVE  MallocInv'
<1>0. p \in Held /\ PieceOK(p) /\ p \notin Returned /\ p.b \in Blocks
  BY DEF Held, Returned, MallocInv, Pieces, PieceOK
<1>1. /\ pc' \in [Thread -> CallType] /\ pc[t] = Idle
      /\ \A u \in Thread : u # t => pc'[u] = pc[u]
      /\ pc'[t] = [Idle EXCEPT !.at = "unref", !.b = p.b]
  BY <1>0 DEF MallocInv, Types, FreePiece, CallType, Idle
<1>2. /\ pc'[t].at = "unref" /\ pc'[t].arena = None /\ pc'[t].b = p.b
      /\ pc'[t].then = "idle" /\ pc'[t].mem = NoPiece
      /\ pc[t].at = "idle" /\ pc[t].arena = None /\ pc[t].mem = NoPiece
  BY <1>1 DEF Idle
<1>3. UNCHANGED <<mapped, root_ref, ref, pos, block, lock, available, dirty>> /\ live' = live \ {p}
  BY DEF FreePiece
<1>4. Types'
  <2>1. IsFiniteSet(live')
    BY <1>3, FS_RemoveElement DEF MallocInv, Types
  <2>2. QED
    BY <2>1, <1>1, <1>3 DEF MallocInv, Types
<1>5. Held' = Held \ {p} /\ InPool' = InPool
  <2>1. \A u \in Thread : pc'[u].mem = pc[u].mem
    BY <1>1, <1>2
  <2>2. QED
    BY <2>1, <1>0, <1>3 DEF Held, Returned, InPool
<1>6. \A c : Parting(c)' <=> Parting(c)
  BY <1>1, <1>2 DEF Parting, At
<1>7. \A x : Used(x)' <=> Used(x)
  BY <1>3, <1>5, <1>6 DEF Used
<1>8. Calls'
  <2>1. ASSUME NEW u \in Thread, u # t PROVE CallOK(u)'
    BY <2>1, <1>1, <1>3 DEF MallocInv, Calls, CallOK
  <2>2. CallOK(t)'
    BY <1>0, <1>2 DEF CallOK
  <2>3. QED
    BY <2>1, <2>2 DEF Calls
<1>9. Locks'
  <2>1. \A u \in Thread : pc'[u].arena = pc[u].arena
    BY <1>1, <1>2
  <2>2. QED
    BY <2>1, <1>3 DEF MallocInv, Types, Locks, MallocBounds
<1>10. \A a \in Arena : Holds(a)' <=> Holds(a)
  <2>1. \A a \in Arena : lock[a] # None => lock[a] \in Thread /\ lock[a] # t
    BY <1>2 DEF MallocInv, Types, Locks, MallocBounds
  <2>2. QED
    BY <2>1, <1>1, <1>3 DEF Holds
<1>11. \A u \in Thread : /\ Frees(u)' <=> Frees(u) \/ u = t
                         /\ Wipes(u)' <=> Wipes(u)
                         /\ At(u, "unmap")' <=> At(u, "unmap")
                         /\ At(u, "pool")' <=> At(u, "pool")
                         /\ u # t => pc'[u].b = pc[u].b
                         /\ pc'[u].mem = pc[u].mem
  BY <1>1, <1>2 DEF Frees, Wipes, At
<1>12. ~Frees(t) /\ ~Wipes(t) /\ ~At(t, "unmap") /\ ~At(t, "pool")
  BY <1>2 DEF Frees, Wipes, At
<1>13. Pieces'
  BY <1>3, <1>5, <1>7, <1>11 DEF MallocInv, Pieces, PieceOK
<1>14. Holding'
  BY <1>0, <1>2, <1>3, <1>7, <1>10, <1>11 DEF MallocInv, Holding, PieceOK
<1>15. Wiping' /\ Giving'
  BY <1>3, <1>7, <1>11, <1>12, <1>5 DEF MallocInv, Wiping, Giving
<1>16. \A x \in Blocks : Holders(x)' = Holders(x)
  <2>1. \A x \in Blocks : ArenasOn(x)' = ArenasOn(x)
    BY <1>3, <1>10 DEF ArenasOn
  <2>2. \A x \in Blocks : x # p.b => PiecesIn(x)' = PiecesIn(x) /\ FreesOf(x)' = FreesOf(x)
    BY <1>2, <1>5, <1>11, <1>12 DEF PiecesIn, FreesOf
  <2>3. /\ PiecesIn(p.b)' = PiecesIn(p.b) \ {p} /\ p \in PiecesIn(p.b)
        /\ FreesOf(p.b)' = FreesOf(p.b) \union {t} /\ t \notin FreesOf(p.b)
    BY <1>0, <1>2, <1>5, <1>11, <1>12 DEF PiecesIn, FreesOf
  <2>4. Holders(p.b)' = Holders(p.b)
    <3>1. Types
      BY DEF MallocInv
    <3>2. /\ IsFiniteSet(PiecesIn(p.b)) /\ Cardinality(PiecesIn(p.b)) \in Nat
          /\ IsFiniteSet(FreesOf(p.b)) /\ Cardinality(FreesOf(p.b)) \in Nat
          /\ Cardinality(ArenasOn(p.b)) \in Nat
      BY <3>1, HoldersFinite
    <3>3. Cardinality(PiecesIn(p.b) \ {p}) = Cardinality(PiecesIn(p.b)) - 1
      BY <2>3, <3>2, FS_RemoveElement
    <3>4. Cardinality(FreesOf(p.b) \union {t}) = Cardinality(FreesOf(p.b)) + 1
      BY <2>3, <3>2, FS_AddElement
    <3>5. QED
      BY <1>0, <2>1, <2>3, <3>2, <3>3, <3>4 DEF Holders
  <2>5. QED
    BY <2>1, <2>2, <2>4 DEF Holders
<1>17. Counting'
  BY <1>3, <1>5, <1>6, <1>7, <1>11, <1>12, <1>16 DEF MallocInv, Counting, BlocksOut
<1>18. Written'
  BY <1>3, <1>7, <1>11, <1>12 DEF MallocInv, Written
<1>19. QED
  BY <1>4, <1>8, <1>9, <1>13, <1>14, <1>15, <1>17, <1>18 DEF MallocInv

\* fio_malloc takes an arena.
LEMMA MallocMalloc ==
  ASSUME MallocBounds, MallocInv, NEW t \in Thread, NEW n \in Sizes, Malloc(t, n)
  PROVE  MallocInv'
<1>0. PICK a \in Arena :
        LET asks == [Idle EXCEPT !.arena = a, !.n = n] IN
        /\ lock[a] = None
        /\ lock' = [lock EXCEPT ![a] = t]
        /\ pc' = [pc EXCEPT ![t] =
                    IF block[a] = None THEN [asks EXCEPT !.at = "new"]
                    ELSE IF Fits(block[a], n) THEN [asks EXCEPT !.at = "take"]
                    ELSE [asks EXCEPT !.at = "unref", !.b = block[a], !.then = "new"]]
  BY DEF Malloc
<1>1. /\ pc[t] = Idle /\ pc \in [Thread -> CallType] /\ n \in Nat
      /\ block[a] \in Blocks \union {None} /\ t # None /\ a # None
  BY SizesFit DEF MallocInv, Types, Malloc, MallocBounds
<1>2. PICK X \in CallType :
        /\ pc' = [pc EXCEPT ![t] = X]
        /\ X.at = IF block[a] = None THEN "new" ELSE IF Fits(block[a], n) THEN "take" ELSE "unref"
        /\ X.arena = a /\ X.n = n /\ X.mem = NoPiece
        /\ X.at = "unref" => X.b = block[a] /\ X.then = "new"
  <2> DEFINE asks == [Idle EXCEPT !.arena = a, !.n = n]
  <2>2. NoPiece \in PieceType
    BY DEF NoPiece, Piece, PieceType
  <2>1. /\ asks \in CallType /\ asks.arena = a /\ asks.n = n /\ asks.mem = NoPiece
    BY <1>1, <2>2 DEF CallType, Idle
  <2>7. pc' = [pc EXCEPT ![t] =
                IF block[a] = None THEN [asks EXCEPT !.at = "new"]
                ELSE IF Fits(block[a], n) THEN [asks EXCEPT !.at = "take"]
                ELSE [asks EXCEPT !.at = "unref", !.b = block[a], !.then = "new"]]
    BY <1>0
  <2> HIDE DEF asks
  <2>3. CASE block[a] = None
    <3> DEFINE X == [asks EXCEPT !.at = "new"]
    <3>1. /\ X \in CallType /\ X.at = "new" /\ X.arena = a /\ X.n = n /\ X.mem = NoPiece
      BY <1>1, <2>1, <2>3 DEF CallType
    <3>2. pc' = [pc EXCEPT ![t] = X]
      BY <2>3, <2>7
    <3> HIDE DEF X
    <3>3. QED
      BY <2>3, <3>1, <3>2
  <2>4. CASE block[a] # None /\ Fits(block[a], n)
    <3> DEFINE X == [asks EXCEPT !.at = "take"]
    <3>1. /\ X \in CallType /\ X.at = "take" /\ X.arena = a /\ X.n = n /\ X.mem = NoPiece
      BY <1>1, <2>1, <2>4 DEF CallType
    <3>2. pc' = [pc EXCEPT ![t] = X]
      BY <2>4, <2>7
    <3> HIDE DEF X
    <3>3. QED
      BY <2>4, <3>1, <3>2
  <2>5. CASE block[a] # None /\ ~Fits(block[a], n)
    <3> DEFINE X == [asks EXCEPT !.at = "unref", !.b = block[a], !.then = "new"]
    <3>1. /\ X \in CallType /\ X.at = "unref" /\ X.arena = a /\ X.n = n /\ X.mem = NoPiece /\ X.b = block[a] /\ X.then = "new"
      BY <1>1, <2>1, <2>5 DEF CallType
    <3>2. pc' = [pc EXCEPT ![t] = X]
      BY <2>5, <2>7
    <3> HIDE DEF X
    <3>3. QED
      BY <2>5, <3>1, <3>2
  <2>6. QED
    BY <2>3, <2>4, <2>5
<1>3. UNCHANGED <<mapped, root_ref, ref, pos, available, block, dirty, live>>
  BY DEF Malloc
<1>4. /\ pc' \in [Thread -> CallType] /\ pc'[t] = X
      /\ \A u \in Thread : u # t => pc'[u] = pc[u]
      /\ pc[t].at = "idle" /\ pc[t].arena = None /\ pc[t].mem = NoPiece
  BY <1>1, <1>2 DEF Idle
<1>5. lock'[a] = t /\ lock[a] = None /\ \A d \in Arena : d # a => lock'[d] = lock[d]
  BY <1>0 DEF MallocInv, Types
<1>6. Types'
  BY <1>0, <1>3, <1>4 DEF MallocInv, Types
<1>7. Held' = Held /\ InPool' = InPool
  <2>1. \A u \in Thread : pc'[u].mem = pc[u].mem
    BY <1>2, <1>4
  <2>2. QED
    BY <2>1, <1>3 DEF Held, Returned, InPool
<1>20. X.at \in {"new", "take", "unref"}
  BY <1>2
<1>8. \A c : Parting(c)' <=> Parting(c)
  BY <1>20, <1>4 DEF Parting, At
<1>9. \A x : Used(x)' <=> Used(x)
  BY <1>3, <1>7, <1>8 DEF Used
<1>11. Calls'
  <2>1. ASSUME NEW u \in Thread, u # t PROVE CallOK(u)'
    <3>1. CallOK(u) /\ pc'[u] = pc[u] /\ block' = block /\ pos' = pos
      BY <2>1, <1>3, <1>4 DEF MallocInv, Calls
    <3>2. pc[u].arena # None => pc[u].arena # a /\ pc[u].arena \in Arena
      BY <2>1, <3>1, <1>5 DEF CallOK, MallocInv, Types, CallType, MallocBounds
    <3>3. QED
      BY <3>1, <3>2, <1>5 DEF CallOK
  <2>2. CallOK(t)'
    <3>1. X.at = "take" => block[a] # None /\ pos[block[a]] + n <= Slices
      BY <1>2 DEF Fits
    <3>2. X.at = "unref" => X.b \in Blocks
      BY <1>1, <1>2
    <3>3. QED
      BY <1>1, <1>2, <1>3, <1>4, <1>5, <1>20, <3>1, <3>2 DEF CallOK
  <2>3. QED
    BY <2>1, <2>2 DEF Calls
<1>12. Locks'
  <2>1. \A d \in Arena : lock[d] # None => lock[d] \in Thread /\ pc[lock[d]].arena = d /\ lock[d] # t
    BY <1>4 DEF MallocInv, Types, Locks, MallocBounds
  <2>3. QED
    BY <2>1, <1>4, <1>5, <1>2 DEF Locks
<1>13. \A d \in Arena : Holds(d)' <=> Holds(d)
  <2>1. Holds(a)' <=> Holds(a)
    <3>1. Holds(a) <=> block[a] # None
      BY <1>5 DEF Holds
    <3>2. Holds(a)' <=> block[a] # None
      BY <1>1, <1>2, <1>3, <1>4, <1>5 DEF Holds
    <3>3. QED
      BY <3>1, <3>2, Zenon
  <2>2. ASSUME NEW d \in Arena, d # a PROVE Holds(d)' <=> Holds(d)
    <3>1. lock[d] # None => lock[d] \in Thread /\ lock[d] # t
      BY <1>4 DEF MallocInv, Types, Locks, MallocBounds
    <3>2. QED
      BY <3>1, <2>2, <1>3, <1>4, <1>5 DEF Holds
  <2>3. QED
    BY <2>1, <2>2, Zenon
<1>14. \A u \in Thread : /\ Frees(u)' <=> Frees(u)
                         /\ Wipes(u)' <=> Wipes(u)
                         /\ At(u, "unmap")' <=> At(u, "unmap")
                         /\ At(u, "pool")' <=> At(u, "pool")
                         /\ u # t => pc'[u].b = pc[u].b
                         /\ pc'[u].mem = pc[u].mem
  BY <1>1, <1>2, <1>4, <1>20 DEF Frees, Wipes, At
<1>23. ~Frees(t) /\ ~Wipes(t) /\ ~At(t, "unmap") /\ ~At(t, "pool")
  BY <1>4 DEF Frees, Wipes, At
<1>15. Pieces'
  BY <1>3, <1>7, <1>9, <1>14 DEF MallocInv, Pieces, PieceOK
<1>16. Holding'
  BY <1>3, <1>9, <1>13, <1>14, <1>23 DEF MallocInv, Holding
<1>17. Wiping' /\ Giving'
  BY <1>3, <1>7, <1>9, <1>14, <1>23 DEF MallocInv, Wiping, Giving
<1>18. \A x \in Blocks : Holders(x)' = Holders(x)
  BY <1>3, <1>7, <1>13, <1>14, <1>23 DEF Holders, PiecesIn, FreesOf, ArenasOn
<1>19. Counting'
  BY <1>3, <1>7, <1>8, <1>9, <1>14, <1>18, <1>23 DEF MallocInv, Counting, BlocksOut
<1>21. Written'
  BY <1>3, <1>9, <1>14, <1>23 DEF MallocInv, Written
<1>22. QED
  BY <1>6, <1>11, <1>12, <1>15, <1>16, <1>17, <1>19, <1>21 DEF MallocInv

\* block_slice cuts a piece off the arena's block and counts it.
LEMMA MallocTake ==
  ASSUME MallocBounds, MallocInv, NEW t \in Thread, Take(t)
  PROVE  MallocInv'
<1>0. PICK a, b, n, p : a = pc[t].arena /\ b = block[a] /\ n = pc[t].n /\ p = Piece(b, pos[b], n)
  OBVIOUS
<1>1. /\ pc[t] \in CallType /\ pc[t].at = "take" /\ pc[t].mem = NoPiece /\ pc[t].arena = a /\ pc[t].n = n
      /\ a \in Arena /\ a # None /\ lock[a] = t /\ t # None /\ b \in Blocks /\ b # None /\ n \in Sizes
      /\ pos[b] + n <= Slices /\ pos[b] \in 0..Slices /\ pos[b] \in Nat /\ n \in Nat /\ n >= 1 /\ Slices \in Nat
      /\ ref[b] \in Int
  <2>1. pc[t] \in CallType /\ pc[t].at = "take" /\ CallOK(t)
    BY DEF Take, At, MallocInv, Types, Calls
  <2>2. a \in Arena /\ a # None /\ lock[a] = t /\ t # None /\ pc[t].mem = NoPiece /\ n \in Sizes
    BY <1>0, <2>1 DEF CallOK, CallType, MallocBounds
  <2>3. b \in Blocks /\ b # None /\ pos[b] + n <= Slices
    BY <1>0, <2>1, <2>2 DEF CallOK, MallocInv, Types, MallocBounds
  <2>4. pos[b] \in 0..Slices /\ Slices \in Nat /\ ref[b] \in Int
    BY <2>3 DEF MallocInv, Types, MallocBounds
  <2>5. QED
    BY <1>0, <2>1, <2>2, <2>3, <2>4, SizesFit
<1>2. /\ p \in PieceType /\ p.b = b /\ p.at = pos[b] /\ p.n = n /\ p # NoPiece
  BY <1>0, <1>1 DEF Piece, PieceType, NoPiece
<1>3. UNCHANGED <<mapped, root_ref, available, block, lock, dirty, live>>
  BY DEF Take
<1>4. /\ ref' = [ref EXCEPT ![b] = @ + 1]
      /\ pos' = [pos EXCEPT ![b] = pos[b] + n]
  BY <1>0 DEF Take, Mine
<1>5. PICK X \in CallType :
        /\ pc' = [pc EXCEPT ![t] = X]
        /\ X.at \in {"unref", "exit"} /\ X.arena = a /\ X.n = n /\ X.mem = p
        /\ X.at = "unref" => X.b = b /\ X.then = "empty"
  <2> DEFINE cut == [pc[t] EXCEPT !.mem = p]
  <2>1. cut \in CallType /\ cut.arena = a /\ cut.n = n /\ cut.mem = p
    BY <1>1, <1>2 DEF CallType
  <2>2. pc' = [pc EXCEPT ![t] = IF pos[b] + n >= Slices
                                  THEN [cut EXCEPT !.at = "unref", !.b = b, !.then = "empty"]
                                  ELSE [cut EXCEPT !.at = "exit"]]
    BY <1>0 DEF Take, Mine
  <2> HIDE DEF cut
  <2>3. CASE pos[b] + n >= Slices
    <3> DEFINE X == [cut EXCEPT !.at = "unref", !.b = b, !.then = "empty"]
    <3>1. /\ X \in CallType /\ X.at = "unref" /\ X.arena = a /\ X.n = n /\ X.mem = p
          /\ X.b = b /\ X.then = "empty"
      BY <1>1, <2>1 DEF CallType
    <3>2. pc' = [pc EXCEPT ![t] = X]
      BY <2>2, <2>3
    <3> HIDE DEF X
    <3>3. QED
      BY <3>1, <3>2
  <2>4. CASE ~(pos[b] + n >= Slices)
    <3> DEFINE X == [cut EXCEPT !.at = "exit"]
    <3>1. X \in CallType /\ X.at = "exit" /\ X.arena = a /\ X.n = n /\ X.mem = p
      BY <1>1, <2>1 DEF CallType
    <3>2. pc' = [pc EXCEPT ![t] = X]
      BY <2>2, <2>4
    <3> HIDE DEF X
    <3>3. QED
      BY <3>1, <3>2
  <2>5. QED
    BY <2>3, <2>4
<1>6. /\ pc' \in [Thread -> CallType] /\ pc'[t] = X
      /\ \A u \in Thread : u # t => pc'[u] = pc[u]
  BY <1>5 DEF MallocInv, Types
<1>7. /\ ref'[b] = ref[b] + 1 /\ pos'[b] = pos[b] + n
      /\ \A x \in Blocks : x # b => ref'[x] = ref[x] /\ pos'[x] = pos[x]
  BY <1>1, <1>4 DEF MallocInv, Types
<1>8. Types'
  <2>1. ref' \in [Blocks -> Int]
    BY <1>1, <1>4 DEF MallocInv, Types
  <2>2. pos' \in [Blocks -> 0..Slices]
    BY <1>1, <1>4 DEF MallocInv, Types
  <2>3. QED
    BY <2>1, <2>2, <1>3, <1>6 DEF MallocInv, Types
<1>9. p \notin Held
  BY <1>1, <1>2 DEF MallocInv, Pieces, PieceOK
<1>10. Held' = Held \union {p} /\ InPool' = InPool
  <2>1. Returned' = Returned \union {p}
    BY <1>1, <1>2, <1>5, <1>6 DEF Returned
  <2>2. QED
    BY <2>1, <1>3 DEF Held, InPool
<1>11. \A c : Parting(c)' <=> Parting(c)
  BY <1>1, <1>5, <1>6 DEF Parting, At
<1>12. \A x : Used(x)' <=> Used(x)
  BY <1>3, <1>10, <1>11 DEF Used
<1>13. Holds(a) /\ Used(b)
  <2>1. Holds(a)
    BY <1>0, <1>1 DEF Holds
  <2>2. QED
    BY <2>1, <1>0, <1>1 DEF MallocInv, Holding
<1>14. Calls'
  <2>1. ASSUME NEW u \in Thread, u # t PROVE CallOK(u)'
    <3>1. CallOK(u) /\ pc'[u] = pc[u] /\ block' = block /\ lock' = lock
      BY <2>1, <1>3, <1>6 DEF MallocInv, Calls
    <3>2. pc[u].at = "take" => pos'[block[pc[u].arena]] = pos[block[pc[u].arena]]
      <4>1. SUFFICES ASSUME pc[u].at = "take" PROVE pos'[block[pc[u].arena]] = pos[block[pc[u].arena]]
        OBVIOUS
      <4>2. PICK d \in Arena : d = pc[u].arena /\ lock[d] = u /\ block[d] # None /\ d # a
        BY <2>1, <3>1, <4>1, <1>1 DEF CallOK, MallocInv, Types, CallType
      <4>3. Holds(d) /\ block[d] \in Blocks
        BY <4>1, <4>2 DEF Holds, MallocInv, Types
      <4>4. block[d] # b
        BY <4>2, <4>3, <1>0, <1>1, <1>13 DEF MallocInv, Holding
      <4>5. QED
        BY <4>2, <4>3, <4>4, <1>7
    <3>3. QED
      BY <3>1, <3>2 DEF CallOK
  <2>2. CallOK(t)'
    BY <1>0, <1>1, <1>2, <1>3, <1>5, <1>6 DEF CallOK
  <2>3. QED
    BY <2>1, <2>2 DEF Calls
<1>15. Locks'
  <2>1. \A u \in Thread : pc'[u].arena = pc[u].arena
    BY <1>1, <1>5, <1>6
  <2>2. QED
    BY <2>1, <1>3 DEF MallocInv, Types, Locks, MallocBounds
<1>16. \A d \in Arena : Holds(d)' <=> Holds(d)
  <2>1. Holds(a)'
    BY <1>0, <1>1, <1>3, <1>5, <1>6 DEF Holds
  <2>2. ASSUME NEW d \in Arena, d # a PROVE Holds(d)' <=> Holds(d)
    <3>1. lock[d] # None => lock[d] \in Thread /\ lock[d] # t
      BY <2>2, <1>1 DEF MallocInv, Types, Locks, MallocBounds
    <3>2. QED
      BY <3>1, <1>3, <1>6 DEF Holds
  <2>3. QED
    BY <2>1, <2>2, <1>13, Zenon
<1>17. \A u \in Thread : /\ Frees(u)' <=> Frees(u)
                         /\ Wipes(u)' <=> Wipes(u)
                         /\ At(u, "unmap")' <=> At(u, "unmap")
                         /\ At(u, "pool")' <=> At(u, "pool")
                         /\ u # t => pc'[u].b = pc[u].b /\ pc'[u].mem = pc[u].mem
  BY <1>1, <1>5, <1>6 DEF Frees, Wipes, At
<1>18. ~Frees(t) /\ ~Wipes(t) /\ ~At(t, "unmap") /\ ~At(t, "pool")
  BY <1>1 DEF Frees, Wipes, At
<1>19. Pieces'
  <2>1. \A q \in Held' : PieceOK(q)'
    <3>1. \A q \in Held : PieceOK(q)'
      <4>1. SUFFICES ASSUME NEW q \in Held PROVE PieceOK(q)'
        OBVIOUS
      <4>2. PieceOK(q) /\ pos[q.b] \in Int /\ q.n \in Nat
        BY <4>1, SizesFit DEF MallocInv, Pieces, PieceOK, Types
      <4>3. pos'[q.b] >= pos[q.b] /\ pos'[q.b] \in Int
        BY <4>2, <1>1, <1>7 DEF PieceOK
      <4>4. QED
        BY <4>2, <4>3, <1>12 DEF PieceOK
    <3>2. PieceOK(p)'
      BY <1>1, <1>2, <1>7, <1>12, <1>13 DEF PieceOK
    <3>3. QED
      BY <3>1, <3>2, <1>10
  <2>2. \A q, r \in Held' : q # r /\ q.b = r.b => q.at + q.n <= r.at \/ r.at + r.n <= q.at
    BY <1>1, <1>2, <1>10 DEF MallocInv, Pieces, PieceOK
  <2>3. \A u \in Thread : pc'[u].mem # NoPiece =>
          pc'[u].mem \notin live' /\ \A v \in Thread : v # u => pc'[v].mem # pc'[u].mem
    <3>1. \A u \in Thread : pc[u].mem # NoPiece => pc[u].mem \in Held
      BY DEF Held, Returned
    <3>2. p \notin live /\ \A u \in Thread : u # t => pc'[u].mem # p
      BY <1>9, <1>2, <3>1, <1>17 DEF Held
    <3>3. QED
      BY <3>2, <1>3, <1>5, <1>6, <1>17 DEF MallocInv, Pieces
  <2>4. QED
    BY <2>1, <2>2, <2>3 DEF Pieces
<1>20. Holding'
  BY <1>3, <1>12, <1>16, <1>17, <1>18 DEF MallocInv, Holding
<1>21. Wiping' /\ Giving'
  <2>1. \A u \in Thread : Wipes(u) => pc[u].b # b /\ pc[u].b \in Blocks
    <3>1. ASSUME NEW u \in Thread, Wipes(u) PROVE pc[u].b # b /\ pc[u].b \in Blocks
      <4>1. ArenasOn(pc[u].b) = {} /\ pc[u].b \in Blocks
        BY <3>1, WipedUnheld
      <4>2. a \in ArenasOn(b)
        BY <1>0, <1>1, <1>13 DEF ArenasOn
      <4>3. QED
        BY <4>1, <4>2
    <3>2. QED
      BY <3>1
  <2>2. Wiping'
    BY <2>1, <1>7, <1>12, <1>17, <1>18 DEF MallocInv, Wiping
  <2>3. Giving'
    BY <1>3, <1>10, <1>17, <1>18 DEF MallocInv, Giving
  <2>4. QED
    BY <2>2, <2>3
<1>22. Holders(b)' = Holders(b) + 1 /\ \A x \in Blocks : x # b => Holders(x)' = Holders(x)
  <2>1. \A x \in Blocks : ArenasOn(x)' = ArenasOn(x) /\ FreesOf(x)' = FreesOf(x)
    BY <1>3, <1>16, <1>17, <1>18 DEF ArenasOn, FreesOf
  <2>2. /\ PiecesIn(b)' = PiecesIn(b) \union {p} /\ p \notin PiecesIn(b)
        /\ \A x \in Blocks : x # b => PiecesIn(x)' = PiecesIn(x)
    BY <1>2, <1>9, <1>10 DEF PiecesIn
  <2>3. Types
    BY DEF MallocInv
  <2>4. /\ IsFiniteSet(PiecesIn(b)) /\ Cardinality(PiecesIn(b)) \in Nat
        /\ Cardinality(FreesOf(b)) \in Nat /\ Cardinality(ArenasOn(b)) \in Nat
    BY <2>3, HoldersFinite
  <2>5. Cardinality(PiecesIn(b) \union {p}) = Cardinality(PiecesIn(b)) + 1
    BY <2>2, <2>4, FS_AddElement
  <2>6. QED
    BY <1>1, <2>1, <2>2, <2>4, <2>5 DEF Holders
<1>23. Counting'
  <2>1. \A x \in Blocks : ref'[x] >= 0
    BY <1>1, <1>7 DEF MallocInv, Counting
  <2>2. \A x \in Blocks : Used(x)' =>
         ref'[x] = Holders(x)' /\ (ref'[x] = 0 => \E u \in Thread : Wipes(u)' /\ pc'[u].b = x)
    <3>1. ref[b] >= 0 /\ ref[b] = Holders(b)
      BY <1>1, <1>13 DEF MallocInv, Counting
    <3>2. QED
      BY <3>1, <1>1, <1>7, <1>12, <1>17, <1>18, <1>22 DEF MallocInv, Counting
  <2>3. QED
    BY <2>1, <2>2, <1>3, <1>10, <1>11 DEF MallocInv, Counting, BlocksOut
<1>24. Written'
  <2>1. \A x \in Blocks, i \in Int : <<x, i>> \in dirty' =>
         i \in 0..pos'[x] - 1 /\ Used(x)' /\ \A u \in Thread : At(u, "pool")' => pc'[u].b # x
    <3>1. \A x \in Blocks : pos[x] \in Int /\ pos'[x] \in Int /\ pos'[x] >= pos[x]
      <4>1. \A x \in Blocks : pos[x] \in 0..Slices
        BY DEF MallocInv, Types
      <4>2. QED
        BY <4>1, <1>1, <1>7
    <3>2. QED
      BY <3>1, <1>3, <1>12, <1>17, <1>18 DEF MallocInv, Written
  <2>2. \A e \in SlicesOf(p) : e \notin dirty
    <3>1. SUFFICES ASSUME NEW i \in p.at..p.at + p.n - 1, <<b, i>> \in dirty PROVE FALSE
      BY <1>2 DEF SlicesOf
    <3>2. i \in Int /\ i >= pos[b]
      BY <3>1, <1>1, <1>2
    <3>3. i \in 0..pos[b] - 1
      BY <3>1, <3>2, <1>1 DEF MallocInv, Written
    <3>4. QED
      BY <3>2, <3>3, <1>1
  <2>3. \A u \in Thread : \A e \in SlicesOf(pc'[u].mem) : e \notin dirty'
    BY <2>2, <1>3, <1>5, <1>6, <1>17 DEF MallocInv, Written
  <2>4. QED
    BY <2>1, <2>3 DEF Written
<1>25. QED
  BY <1>8, <1>14, <1>15, <1>19, <1>20, <1>21, <1>23, <1>24 DEF MallocInv

\* Where a call goes on after block_free.
LEMMA GoesOnFacts ==
  ASSUME MallocBounds, MallocInv, NEW t \in Thread, pc[t].at \in {"unref", "pool", "unmap"}
  PROVE  \E X \in CallType :
           /\ GoesOn(t, pc[t]) = [pc EXCEPT ![t] = X]
           /\ X.arena = pc[t].arena /\ X.mem = pc[t].mem
           /\ pc[t].arena = None => X = Idle
           /\ pc[t].arena # None =>
                X.n \in Sizes /\ X.at \in {"new", "empty"} /\ (X.at = "empty" <=> X.mem # NoPiece)
<1>1. pc[t] \in CallType /\ CallOK(t)
  BY DEF MallocInv, Types, Calls
<1>2. CASE pc[t].then = "idle"
  <2>1. Idle \in CallType /\ Idle.arena = None /\ Idle.mem = NoPiece
    BY DEF Idle, CallType, NoPiece, Piece, PieceType
  <2>2. pc[t].arena = None /\ pc[t].mem = NoPiece
    BY <1>1, <1>2 DEF CallOK
  <2>3. GoesOn(t, pc[t]) = [pc EXCEPT ![t] = Idle]
    BY <1>2 DEF GoesOn
  <2>4. QED
    BY <2>1, <2>2, <2>3
<1>3. CASE pc[t].then # "idle"
  <2> DEFINE X == [pc[t] EXCEPT !.at = pc[t].then, !.b = None]
  <2>1. /\ pc[t].arena # None /\ pc[t].n \in Sizes /\ pc[t].then \in {"new", "empty"}
        /\ pc[t].then = "empty" <=> pc[t].mem # NoPiece
    BY <1>1, <1>3 DEF CallOK, CallType
  <2>2. X \in CallType /\ X.arena = pc[t].arena /\ X.mem = pc[t].mem /\ X.n = pc[t].n /\ X.at = pc[t].then
    BY <1>1, <2>1 DEF CallType
  <2>3. GoesOn(t, pc[t]) = [pc EXCEPT ![t] = X]
    BY <1>3 DEF GoesOn
  <2> HIDE DEF X
  <2>4. QED
    BY <2>1, <2>2, <2>3
<1>4. QED
  BY <1>2, <1>3

\* block_free counts one holder less, and goes on if it was the last.
LEMMA MallocUnref ==
  ASSUME MallocBounds, MallocInv, NEW t \in Thread, Unref(t)
  PROVE  MallocInv'
<1>0. PICK a, b : a = pc[t].arena /\ b = pc[t].b
  OBVIOUS
<1>1. /\ pc[t] \in CallType /\ pc[t].at = "unref" /\ CallOK(t) /\ b \in Blocks /\ ref[b] \in Int
      /\ t # None /\ b # None /\ pc[t].arena = a /\ pc[t].b = b
  BY <1>0 DEF Unref, At, MallocInv, Types, Calls, CallOK, MallocBounds
<1>2. /\ a # None => a \in Arena /\ lock[a] = t /\ block[a] = b /\ Holds(a)
      /\ a = None => Frees(t)
      /\ Used(b)
  <2>1. a # None => a \in Arena /\ lock[a] = t /\ block[a] = b
    BY <1>0, <1>1 DEF CallOK, CallType
  <2>2. a # None => Holds(a)
    BY <2>1, <1>1 DEF Holds
  <2>3. a = None => Frees(t)
    BY <1>0, <1>1 DEF Frees, At
  <2>4. QED
    BY <2>1, <2>2, <2>3, <1>1 DEF MallocInv, Holding
<1>3. UNCHANGED <<mapped, root_ref, pos, available, block, lock, dirty, live>>
  BY DEF Unref
<1>4. ref'[b] = ref[b] - 1 /\ (\A x \in Blocks : x # b => ref'[x] = ref[x]) /\ ref' \in [Blocks -> Int]
  BY <1>0, <1>1 DEF Unref, MallocInv, Types
<1>5. PICK X \in CallType :
        /\ pc' = [pc EXCEPT ![t] = X] /\ X.arena = a /\ X.mem = pc[t].mem
        /\ a # None => X.n \in Sizes
        /\ ref[b] = 1 => X.at = "wipe" /\ X.b = b /\ X.then = pc[t].then
        /\ ref[b] # 1 => /\ a = None => X = Idle
                         /\ a # None => X.at \in {"new", "empty"} /\ (X.at = "empty" <=> X.mem # NoPiece)
  <2>1. CASE ref[b] = 1
    <3> DEFINE X == [pc[t] EXCEPT !.at = "wipe"]
    <3>1. /\ X \in CallType /\ X.at = "wipe" /\ X.b = pc[t].b /\ X.then = pc[t].then /\ X.arena = pc[t].arena
          /\ X.mem = pc[t].mem /\ X.n = pc[t].n
      BY <1>1 DEF CallType
    <3>2. pc' = [pc EXCEPT ![t] = X]
      BY <1>0, <1>1, <2>1 DEF Unref, Goto, MallocInv, Types
    <3>3. a # None => pc[t].n \in Sizes
      BY <1>1 DEF CallOK
    <3> HIDE DEF X
    <3>4. QED
      BY <2>1, <3>1, <3>2, <3>3, <1>1
  <2>2. CASE ref[b] # 1
    <3>1. pc' = GoesOn(t, pc[t])
      BY <1>0, <2>2 DEF Unref
    <3>2. QED
      BY <3>1, <2>2, <1>1, GoesOnFacts
  <2>3. QED
    BY <2>1, <2>2
<1>6. /\ pc' \in [Thread -> CallType] /\ pc'[t] = X
      /\ \A u \in Thread : u # t => pc'[u] = pc[u]
  BY <1>5 DEF MallocInv, Types
<1>7. X.at \in {"wipe", "idle", "new", "empty"} /\ (X.at = "wipe" <=> ref[b] = 1)
  BY <1>5 DEF Idle
<1>8. Types'
  BY <1>3, <1>4, <1>6 DEF MallocInv, Types
<1>9. Held' = Held /\ InPool' = InPool
  <2>1. \A u \in Thread : pc'[u].mem = pc[u].mem
    BY <1>5, <1>6
  <2>2. QED
    BY <2>1, <1>3 DEF Held, Returned, InPool
<1>10. \A c : Parting(c)' <=> Parting(c)
  BY <1>1, <1>6, <1>7 DEF Parting, At
<1>11. \A x : Used(x)' <=> Used(x)
  BY <1>3, <1>9, <1>10 DEF Used
<1>12. Calls'
  <2>1. ASSUME NEW u \in Thread, u # t PROVE CallOK(u)'
    BY <2>1, <1>6, <1>3 DEF MallocInv, Calls, CallOK
  <2>2. CallOK(t)'
    <3>1. CASE a = None
      <4>1. CASE ref[b] = 1
        BY <3>1, <4>1, <1>0, <1>1, <1>5, <1>6, <1>7 DEF CallOK
      <4>2. CASE ref[b] # 1
        <5>1. pc'[t] = Idle
          BY <3>1, <4>2, <1>5, <1>6
        <5>2. QED
          BY <5>1 DEF CallOK, Idle
      <4>3. QED
        BY <4>1, <4>2
    <3>2. CASE a # None
      BY <3>2, <1>0, <1>1, <1>2, <1>3, <1>5, <1>6, <1>7 DEF CallOK
    <3>3. QED
      BY <3>1, <3>2
  <2>3. QED
    BY <2>1, <2>2 DEF Calls
<1>13. Locks'
  <2>1. \A u \in Thread : pc'[u].arena = pc[u].arena
    BY <1>1, <1>5, <1>6
  <2>2. QED
    BY <2>1, <1>3 DEF MallocInv, Types, Locks, MallocBounds
<1>14. \A d \in Arena : Holds(d)' <=> Holds(d) /\ d # a
  <2>1. a \in Arena => ~Holds(a)'
    <3>1. a \in Arena => a # None
      BY DEF MallocBounds
    <3>2. QED
      BY <3>1, <1>1, <1>2, <1>3, <1>6, <1>7 DEF Holds
  <2>2. ASSUME NEW d \in Arena, d # a PROVE Holds(d)' <=> Holds(d)
    <3>1. lock[d] # None => lock[d] \in Thread /\ lock[d] # t
      BY <2>2, <1>1 DEF MallocInv, Types, Locks, MallocBounds
    <3>2. QED
      BY <3>1, <1>3, <1>6 DEF Holds
  <2>3. QED
    BY <2>1, <2>2, Zenon
<1>15. \A u \in Thread : u # t =>
          /\ Frees(u)' <=> Frees(u)
          /\ Wipes(u)' <=> Wipes(u)
          /\ At(u, "unmap")' <=> At(u, "unmap")
          /\ At(u, "pool")' <=> At(u, "pool")
          /\ pc'[u].b = pc[u].b /\ pc'[u].mem = pc[u].mem
  BY <1>6 DEF Frees, Wipes, At
<1>16. /\ ~Frees(t)' /\ ~Wipes(t) /\ ~At(t, "unmap") /\ ~At(t, "pool")
       /\ ~At(t, "unmap")' /\ ~At(t, "pool")' /\ pc'[t].mem = pc[t].mem
  BY <1>1, <1>5, <1>6, <1>7 DEF Frees, Wipes, At
<1>25. /\ ref[b] = 1 => Wipes(t)' /\ pc'[t].b = b
       /\ ref[b] # 1 => ~Wipes(t)'
  BY <1>5, <1>6, <1>7 DEF Wipes, At
<1>17. Pieces'
  BY <1>3, <1>9, <1>11, <1>15, <1>16 DEF MallocInv, Pieces, PieceOK
<1>18. Holding'
  BY <1>3, <1>11, <1>14, <1>15, <1>16, <1>25 DEF MallocInv, Holding
<1>19. Holders(b)' = Holders(b) - 1 /\ \A x \in Blocks : x # b => Holders(x)' = Holders(x)
  <2>1. \A x \in Blocks : PiecesIn(x)' = PiecesIn(x)
    BY <1>9 DEF PiecesIn
  <2>2. Types
    BY DEF MallocInv
  <2>3. /\ Cardinality(PiecesIn(b)) \in Nat
        /\ IsFiniteSet(FreesOf(b)) /\ Cardinality(FreesOf(b)) \in Nat
        /\ IsFiniteSet(ArenasOn(b)) /\ Cardinality(ArenasOn(b)) \in Nat
    BY <2>2, HoldersFinite
  <2>4. CASE a = None
    <3>1. \A x \in Blocks : ArenasOn(x)' = ArenasOn(x)
      BY <2>4, <1>3, <1>14 DEF ArenasOn, MallocBounds
    <3>2. /\ FreesOf(b)' = FreesOf(b) \ {t} /\ t \in FreesOf(b)
          /\ \A x \in Blocks : x # b => FreesOf(x)' = FreesOf(x)
      BY <2>4, <1>1, <1>2, <1>15, <1>16, <1>25 DEF FreesOf
    <3>3. Cardinality(FreesOf(b) \ {t}) = Cardinality(FreesOf(b)) - 1
      BY <3>2, <2>3, FS_RemoveElement
    <3>4. QED
      BY <1>1, <2>1, <2>3, <3>1, <3>2, <3>3 DEF Holders
  <2>5. CASE a # None
    <3>1. /\ ArenasOn(b)' = ArenasOn(b) \ {a} /\ a \in ArenasOn(b)
          /\ \A x \in Blocks : x # b => ArenasOn(x)' = ArenasOn(x)
      BY <2>5, <1>2, <1>3, <1>14 DEF ArenasOn
    <3>2. \A x \in Blocks : FreesOf(x)' = FreesOf(x)
      BY <2>5, <1>1, <1>15, <1>16, <1>25 DEF FreesOf, Frees
    <3>3. Cardinality(ArenasOn(b) \ {a}) = Cardinality(ArenasOn(b)) - 1
      BY <3>1, <2>3, FS_RemoveElement
    <3>4. QED
      BY <1>1, <2>1, <2>3, <3>1, <3>2, <3>3 DEF Holders
  <2>6. QED
    BY <2>4, <2>5
<1>20. ref[b] >= 1
  <2>1. ref[b] = Holders(b)
    BY <1>1, <1>2 DEF MallocInv, Counting
  <2>2. Types
    BY DEF MallocInv
  <2>3. /\ Cardinality(PiecesIn(b)) \in Nat
        /\ Cardinality(ArenasOn(b)) \in Nat /\ (ArenasOn(b) # {} => Cardinality(ArenasOn(b)) > 0)
        /\ Cardinality(FreesOf(b)) \in Nat /\ (FreesOf(b) # {} => Cardinality(FreesOf(b)) > 0)
    BY <2>2, HoldersFinite
  <2>4. ArenasOn(b) # {} \/ FreesOf(b) # {}
    BY <1>1, <1>2 DEF ArenasOn, FreesOf
  <2>5. QED
    BY <2>1, <2>3, <2>4 DEF Holders
<1>21. Wiping' /\ Giving'
  <2>1. \A u \in Thread : Wipes(u) => pc[u].b # b /\ pc[u].b \in Blocks
    <3>1. ASSUME NEW u \in Thread, Wipes(u) PROVE pc[u].b # b /\ pc[u].b \in Blocks
      BY <3>1, <1>20, WipedUnheld DEF MallocInv, Wiping
    <3>2. QED
      BY <3>1
  <2>2. Wiping'
    <3>1. ASSUME NEW u \in Thread, Wipes(u)'
          PROVE  /\ Used(pc[u].b)' /\ ref'[pc'[u].b] = 0
                 /\ \A v \in Thread : v # u /\ Wipes(v)' => pc'[v].b # pc'[u].b
      <4>1. CASE u = t
        BY <3>1, <4>1, <2>1, <1>2, <1>4, <1>11, <1>15, <1>16, <1>25
      <4>2. CASE u # t
        BY <3>1, <4>2, <2>1, <1>4, <1>11, <1>15, <1>16, <1>25 DEF MallocInv, Wiping
      <4>3. QED
        BY <4>1, <4>2
    <3>2. QED
      BY <3>1 DEF Wiping
  <2>3. Giving'
    BY <1>3, <1>9, <1>15, <1>16, <1>25 DEF MallocInv, Giving
  <2>4. QED
    BY <2>2, <2>3
<1>22. Counting'
  <2>1. \A x \in Blocks : ref'[x] >= 0
    BY <1>1, <1>4, <1>20 DEF MallocInv, Counting
  <2>2. \A x \in Blocks : Used(x)' =>
         ref'[x] = Holders(x)' /\ (ref'[x] = 0 => \E u \in Thread : Wipes(u)' /\ pc'[u].b = x)
    <3>1. ref'[b] = Holders(b)' /\ (ref'[b] = 0 => Wipes(t)' /\ pc'[t].b = b)
      BY <1>1, <1>2, <1>4, <1>25, <1>19 DEF MallocInv, Counting
    <3>2. ASSUME NEW x \in Blocks, x # b, Used(x)
          PROVE  ref'[x] = Holders(x)' /\ (ref'[x] = 0 => \E u \in Thread : Wipes(u)' /\ pc'[u].b = x)
      BY <3>2, <1>4, <1>15, <1>16, <1>25, <1>19 DEF MallocInv, Counting
    <3>3. QED
      BY <3>1, <3>2, <1>11
  <2>3. QED
    BY <2>1, <2>2, <1>3, <1>9, <1>10 DEF MallocInv, Counting, BlocksOut
<1>23. Written'
  BY <1>3, <1>11, <1>15, <1>16, <1>25 DEF MallocInv, Written
<1>24. QED
  BY <1>8, <1>12, <1>13, <1>17, <1>18, <1>21, <1>22, <1>23 DEF MallocInv

----------------------------------------------------------------------------
\* The pool as a sequence: what goes to its end, leaves it there, or stays.
\* What comes from the end of the pool was in it, and is in it no more.
LEMMA LastLeaves ==
  ASSUME NEW S, NEW s \in Seq(S), IsInjective(s), s # <<>>
  PROVE  /\ Last(s) \in S /\ Last(s) \in Range(s)
         /\ Front(s) \in Seq(S) /\ IsInjective(Front(s)) /\ Range(Front(s)) = Range(s) \ {Last(s)}
<1>1. Len(s) \in Nat /\ Len(s) > 0 /\ DOMAIN s = 1..Len(s) /\ s \in [1..Len(s) -> S]
  OBVIOUS
<1>2. /\ Front(s) \in Seq(S) /\ DOMAIN Front(s) = 1..Len(s) - 1
      /\ \A i \in 1..Len(s) - 1 : Front(s)[i] = s[i]
  BY <1>1 DEF Front
<1>3. Last(s) = s[Len(s)] /\ Len(s) \in DOMAIN s
  BY <1>1 DEF Last
<1>4. Range(Front(s)) = Range(s) \ {Last(s)}
  <2>1. \A i \in DOMAIN s : i \in 1..Len(s) - 1 <=> s[i] # Last(s)
    BY <1>1, <1>3 DEF IsInjective
  <2>2. QED
    BY <1>1, <1>2, <2>1 DEF Range
<1>5. IsInjective(Front(s))
  BY <1>1, <1>2 DEF IsInjective
<1>6. QED
  BY <1>1, <1>2, <1>3, <1>4, <1>5 DEF Range

\* What goes to the end of the pool joins what is there.
LEMMA AppendedAtEnd ==
  ASSUME NEW S, NEW s \in Seq(S), IsInjective(s), NEW x \in S, x \notin Range(s)
  PROVE  /\ Append(s, x) \in Seq(S) /\ IsInjective(Append(s, x)) /\ Range(Append(s, x)) = Range(s) \union {x}
<1> DEFINE r == Append(s, x)
<1>1. Len(s) \in Nat /\ DOMAIN s = 1..Len(s)
  OBVIOUS
<1>2. /\ r \in Seq(S) /\ DOMAIN r = 1..Len(s) + 1 /\ r[Len(s) + 1] = x
      /\ \A i \in 1..Len(s) : r[i] = s[i]
  BY <1>1
<1> HIDE DEF r
<1>3. IsInjective(r)
  BY <1>1, <1>2 DEF IsInjective, Range
<1>4. Range(r) = Range(s) \union {x}
  BY <1>1, <1>2 DEF Range
<1>5. QED
  BY <1>2, <1>3, <1>4 DEF r

\* Without takes the blocks of one chunk, and leaves the others as they are.
LEMMA WithoutKeeps ==
  ASSUME NEW S, NEW s \in Seq(S), NEW c, NEW r \in Without(s, c)
  PROVE  r \in Seq(S) /\ IsInjective(r) /\ Range(r) = {x \in Range(s) : x[1] # c}
<1> DEFINE kept == {x \in Range(s) : x[1] # c}
<1>1. r \in [1..Cardinality(kept) -> kept] /\ Range(r) = kept /\ IsInjective(r)
  BY DEF Without
<1>2. IsFiniteSet(kept)
  <2>1. s \in Surjection(1..Len(s), Range(s))
    BY DEF Surjection, Range
  <2>2. IsFiniteSet(1..Len(s))
    BY FS_Interval
  <2>3. IsFiniteSet(Range(s))
    BY <2>1, <2>2, FS_Surjection
  <2>4. kept \in SUBSET Range(s)
    OBVIOUS
  <2>5. QED
    BY <2>3, <2>4, FS_Subset
<1>3. Cardinality(kept) \in Nat
  BY <1>2, FS_CardinalityType
<1>4. kept \subseteq S
  BY DEF Range
<1> HIDE DEF kept
<1>5. r \in Seq(S)
  <2>1. r \in [1..Cardinality(kept) -> S]
    BY <1>1, <1>4
  <2>2. QED
    BY <2>1, <1>3
<1>6. QED
  BY <1>1, <1>5 DEF kept

----------------------------------------------------------------------------
\* block_new takes a block from the pool, which only its arena then holds.
LEMMA MallocNewFromPool ==
  ASSUME MallocBounds, MallocInv, NEW t \in Thread, NewFromPool(t)
  PROVE  MallocInv'
<1>0. PICK a, b : a = pc[t].arena /\ b = Last(available)
  OBVIOUS
<1>1. /\ pc[t] \in CallType /\ pc[t].at = "new" /\ CallOK(t) /\ pc[t].arena = a
      /\ a \in Arena /\ a # None /\ lock[a] = t /\ t # None /\ pc[t].mem = NoPiece /\ pc[t].n \in Sizes
  BY <1>0 DEF NewFromPool, At, MallocInv, Types, Calls, CallOK, CallType, MallocBounds
<1>2. /\ b \in Blocks /\ b \in InPool /\ b # None
      /\ available' \in Seq(Blocks) /\ IsInjective(available') /\ InPool' = InPool \ {b}
  BY <1>0, LastLeaves DEF NewFromPool, MallocInv, Types, InPool, MallocBounds
<1>3. /\ UNCHANGED <<mapped, lock, dirty, live>>
      /\ ref' = [ref EXCEPT ![b] = 1] /\ pos' = [pos EXCEPT ![b] = 0]
      /\ root_ref' = [root_ref EXCEPT ![b[1]] = @ + 1]
      /\ block' = [block EXCEPT ![a] = b]
      /\ pc' = [pc EXCEPT ![t].at = "take"]
  BY <1>0 DEF NewFromPool, Counted, Goto
<1>4. /\ pc' \in [Thread -> CallType]
      /\ \A u \in Thread : u # t => pc'[u] = pc[u]
      /\ pc'[t].at = "take" /\ pc'[t].arena = a /\ pc'[t].n = pc[t].n /\ pc'[t].mem = NoPiece
  BY <1>1, <1>3 DEF MallocInv, Types, CallType
<1>5. /\ ref'[b] = 1 /\ pos'[b] = 0 /\ block'[a] = b
      /\ \A x \in Blocks : x # b => ref'[x] = ref[x] /\ pos'[x] = pos[x]
      /\ \A d \in Arena : d # a => block'[d] = block[d]
  BY <1>1, <1>2, <1>3 DEF MallocInv, Types
<1>6. Types'
  <2>1. b[1] \in Chunk /\ root_ref[b[1]] \in Int
    BY <1>2, BlockFacts DEF MallocInv, Types
  <2>2. root_ref' \in [Chunk -> Int]
    BY <2>1, <1>3 DEF MallocInv, Types
  <2>3. ref' \in [Blocks -> Int] /\ pos' \in [Blocks -> 0..Slices]
    <3>1. 0 \in 0..Slices
      BY DEF MallocBounds
    <3>2. QED
      BY <3>1, <1>2, <1>3 DEF MallocInv, Types
  <2>4. QED
    BY <2>2, <2>3, <1>1, <1>2, <1>3, <1>4 DEF MallocInv, Types
<1>7. Held' = Held
  <2>1. \A u \in Thread : pc'[u].mem = pc[u].mem
    BY <1>1, <1>4
  <2>2. QED
    BY <2>1, <1>3 DEF Held, Returned
<1>8. \A c : Parting(c)' <=> Parting(c)
  BY <1>1, <1>4 DEF Parting, At
<1>9. /\ Used(b)' /\ ~Used(b)
      /\ \A x \in Blocks : x # b => (Used(x)' <=> Used(x))
  <2>1. b[1] \in mapped /\ ~Parting(b[1])
    BY <1>2 DEF MallocInv, Counting, Giving, Parting
  <2>2. QED
    BY <2>1, <1>2, <1>3, <1>8 DEF Used
<1>10. /\ \A p \in Held : p.b # b
       /\ \A d \in Arena : Holds(d) => block[d] # b
       /\ \A u \in Thread : Frees(u) \/ Wipes(u) => pc[u].b # b
  BY <1>9 DEF MallocInv, Pieces, PieceOK, Holding, Wiping
<1>11. \A u \in Thread : /\ Frees(u)' <=> Frees(u)
                         /\ Wipes(u)' <=> Wipes(u)
                         /\ At(u, "unmap")' <=> At(u, "unmap")
                         /\ At(u, "pool")' <=> At(u, "pool")
                         /\ u # t => pc'[u].b = pc[u].b
                         /\ pc'[u].mem = pc[u].mem
  BY <1>1, <1>4 DEF Frees, Wipes, At
<1>12. ~Frees(t) /\ ~Wipes(t) /\ ~At(t, "unmap") /\ ~At(t, "pool")
  BY <1>1 DEF Frees, Wipes, At
<1>13. ~Holds(a) /\ Holds(a)' /\ \A d \in Arena : d # a => (Holds(d)' <=> Holds(d))
  <2>1. ~Holds(a)
    BY <1>1 DEF Holds
  <2>2. Holds(a)'
    BY <1>1, <1>2, <1>3, <1>4, <1>5 DEF Holds
  <2>3. ASSUME NEW d \in Arena, d # a PROVE Holds(d)' <=> Holds(d)
    <3>1. lock[d] # None => lock[d] \in Thread /\ lock[d] # t
      BY <2>3, <1>1 DEF MallocInv, Types, Locks, MallocBounds
    <3>2. QED
      BY <3>1, <2>3, <1>3, <1>4, <1>5 DEF Holds
  <2>4. QED
    BY <2>1, <2>2, <2>3, Zenon
<1>14. Calls'
  <2>1. ASSUME NEW u \in Thread, u # t PROVE CallOK(u)'
    <3>1. CallOK(u) /\ pc'[u] = pc[u] /\ lock' = lock
      BY <2>1, <1>3, <1>4 DEF MallocInv, Calls
    <3>2. pc[u].arena # None => pc[u].arena # a /\ pc[u].arena \in Arena
      BY <2>1, <3>1, <1>1 DEF CallOK, MallocInv, Types, CallType
    <3>3. ASSUME pc[u].arena # None, pc[u].at = "take"
          PROVE  LET x == block[pc[u].arena] IN x # None /\ pos'[x] = pos[x] /\ block'[pc[u].arena] = x
      <4>1. PICK d \in Arena : d = pc[u].arena /\ lock[d] = u /\ block[d] # None /\ d # a
        BY <3>1, <3>2, <3>3 DEF CallOK
      <4>2. Holds(d) /\ block[d] \in Blocks
        BY <3>3, <4>1 DEF Holds, MallocInv, Types
      <4>3. QED
        BY <4>1, <4>2, <1>5, <1>10
    <3>4. QED
      BY <3>1, <3>2, <3>3, <1>5 DEF CallOK
  <2>2. CallOK(t)'
    BY <1>1, <1>2, <1>3, <1>4, <1>5, SizesFit DEF CallOK
  <2>3. QED
    BY <2>1, <2>2 DEF Calls
<1>15. Locks'
  <2>1. \A u \in Thread : pc'[u].arena = pc[u].arena
    BY <1>1, <1>4
  <2>2. QED
    BY <2>1, <1>3 DEF MallocInv, Types, Locks, MallocBounds
<1>16. Pieces'
  <2>1. \A p \in Held' : PieceOK(p)'
    BY <1>5, <1>7, <1>9, <1>10 DEF MallocInv, Pieces, PieceOK
  <2>2. QED
    BY <2>1, <1>3, <1>7, <1>11 DEF MallocInv, Pieces
<1>17. Holding'
  <2>0. \A x \in Blocks : Used(x) => Used(x)'
    BY <1>9
  <2>1. \A d \in Arena : Holds(d)' => Used(block[d])'
    <3>1. \A d \in Arena : d # a /\ Holds(d)' => block'[d] = block[d] /\ block[d] \in Blocks /\ Used(block[d])
      BY <1>5, <1>13 DEF MallocInv, Types, Holding, Holds
    <3>2. \A d \in Arena : d # a /\ Holds(d)' => Used(block[d])'
      BY <3>1, <2>0
    <3>3. Used(block[a])'
      BY <1>5, <1>9
    <3>4. QED
      BY <3>2, <3>3
  <2>2. \A d, e \in Arena : d # e /\ Holds(d)' /\ Holds(e)' => block'[d] # block'[e]
    BY <1>5, <1>10, <1>13 DEF MallocInv, Holding
  <2>3. \A u \in Thread : Frees(u)' => Used(pc[u].b)'
    <3>1. \A u \in Thread : Frees(u)' => Used(pc[u].b) /\ pc[u].b \in Blocks /\ pc'[u].b = pc[u].b
      BY <1>10, <1>11, <1>12 DEF MallocInv, Holding, Calls, CallOK, Frees, At
    <3>2. QED
      BY <3>1, <2>0
  <2>4. QED
    BY <2>1, <2>2, <2>3 DEF Holding
<1>18. Wiping'
  <2>1. \A u \in Thread : Wipes(u) => pc[u].b \in Blocks /\ pc[u].b # b
    BY <1>10 DEF MallocInv, Calls, CallOK, Wipes, At
  <2>2. QED
    BY <2>1, <1>5, <1>9, <1>11, <1>12 DEF MallocInv, Wiping
<1>19. Giving'
  BY <1>2, <1>3, <1>11, <1>12 DEF MallocInv, Giving
<1>20. Holders(b)' = 1 /\ \A x \in Blocks : x # b => Holders(x)' = Holders(x)
  <2>1. PiecesIn(b)' = {} /\ FreesOf(b)' = {} /\ ArenasOn(b)' = {a}
    BY <1>1, <1>5, <1>7, <1>10, <1>11, <1>12, <1>13 DEF PiecesIn, FreesOf, ArenasOn
  <2>2. \A x \in Blocks : x # b =>
          PiecesIn(x)' = PiecesIn(x) /\ FreesOf(x)' = FreesOf(x) /\ ArenasOn(x)' = ArenasOn(x)
    BY <1>5, <1>7, <1>11, <1>12, <1>13 DEF PiecesIn, FreesOf, ArenasOn
  <2>3. Cardinality({a}) = 1 /\ Cardinality({}) = 0
    BY FS_Singleton, FS_EmptySet
  <2>4. QED
    BY <2>1, <2>2, <2>3 DEF Holders
<1>21. Counting'
  <2>1. \A x \in Blocks : ref'[x] >= 0
    BY <1>2, <1>5 DEF MallocInv, Counting
  <2>2. \A x \in Blocks : Used(x)' =>
         ref'[x] = Holders(x)' /\ (ref'[x] = 0 => \E u \in Thread : Wipes(u)' /\ pc'[u].b = x)
    BY <1>5, <1>9, <1>11, <1>12, <1>20 DEF MallocInv, Counting
  <2>3. \A c \in mapped' : ~Parting(c)' => root_ref'[c] = Cardinality(BlocksOut(c))' /\ root_ref'[c] >= 1
    <3>1. SUFFICES ASSUME NEW c \in mapped, ~Parting(c)
                   PROVE  root_ref'[c] = Cardinality(BlocksOut(c))' /\ root_ref'[c] >= 1
      BY <1>3, <1>8
    <3>2. c \in Chunk /\ root_ref[c] = Cardinality(BlocksOut(c)) /\ root_ref[c] >= 1
      BY <3>1 DEF MallocInv, Counting, Types
    <3>3. CASE c = b[1]
      <4>1. BlocksOut(c)' = BlocksOut(c) \union {b} /\ b \notin BlocksOut(c)
        BY <3>3, <1>2, BlockFacts DEF BlocksOut
      <4>2. IsFiniteSet(BlocksOut(c))
        BY BlockFacts, FS_Difference DEF BlocksOut
      <4>3. Cardinality(BlocksOut(c) \union {b}) = Cardinality(BlocksOut(c)) + 1
        BY <4>1, <4>2, FS_AddElement
      <4>4. root_ref'[c] = root_ref[c] + 1
        BY <3>2, <3>3, <1>3 DEF MallocInv, Types
      <4>5. root_ref[c] \in Int
        BY <3>2 DEF MallocInv, Types
      <4>6. QED
        BY <3>2, <4>1, <4>3, <4>4, <4>5
    <3>4. CASE c # b[1]
      <4>1. BlocksOut(c)' = BlocksOut(c)
        BY <3>2, <3>4, <1>2, BlockFacts DEF BlocksOut
      <4>2. root_ref'[c] = root_ref[c]
        BY <3>2, <3>4, <1>3 DEF MallocInv, Types
      <4>3. QED
        BY <3>2, <4>1, <4>2
    <3>5. QED
      BY <3>3, <3>4
  <2>4. QED
    BY <2>1, <2>2, <2>3, <1>2, <1>3 DEF MallocInv, Counting
<1>22. Written'
  <2>1. \A i \in Int : <<b, i>> \notin dirty
    BY <1>2, <1>9 DEF MallocInv, Written
  <2>2. QED
    BY <2>1, <1>3, <1>5, <1>9, <1>11, <1>12 DEF MallocInv, Written
<1>23. QED
  BY <1>6, <1>14, <1>15, <1>16, <1>17, <1>18, <1>19, <1>21, <1>22 DEF MallocInv

\* block_free gives a chunk back, of which no block is out of the pool.
LEMMA MallocUnmap ==
  ASSUME MallocBounds, MallocInv, NEW t \in Thread, Unmap(t)
  PROVE  MallocInv'
<1>0. PICK c : c = pc[t].b[1]
  OBVIOUS
<1>1. /\ pc[t] \in CallType /\ pc[t].at = "unmap" /\ CallOK(t)
      /\ c \in mapped /\ Parting(c) /\ t # None
      /\ \A u \in Thread : u # t /\ At(u, "unmap") => pc[u].b[1] # c
      /\ \A b \in InPool : b[1] # c
  BY <1>0 DEF Unmap, At, MallocInv, Types, Calls, Giving, Parting, MallocBounds
<1>2. PICK X \in CallType :
        /\ pc' = [pc EXCEPT ![t] = X]
        /\ X.arena = pc[t].arena /\ X.mem = pc[t].mem
        /\ pc[t].arena = None => X = Idle
        /\ pc[t].arena # None =>
             X.n \in Sizes /\ X.at \in {"new", "empty"} /\ (X.at = "empty" <=> X.mem # NoPiece)
  BY <1>1, GoesOnFacts DEF Unmap
<1>3. UNCHANGED <<root_ref, ref, pos, available, block, lock, dirty, live>> /\ mapped' = mapped \ {c}
  BY <1>0 DEF Unmap
<1>4. /\ pc' \in [Thread -> CallType] /\ pc'[t] = X
      /\ \A u \in Thread : u # t => pc'[u] = pc[u]
      /\ X.at \in {"idle", "new", "empty"}
  BY <1>2 DEF MallocInv, Types, Idle
<1>5. Types'
  BY <1>3, <1>4 DEF MallocInv, Types
<1>6. Held' = Held /\ InPool' = InPool
  <2>1. \A u \in Thread : pc'[u].mem = pc[u].mem
    BY <1>2, <1>4
  <2>2. QED
    BY <2>1, <1>3 DEF Held, Returned, InPool
<1>7. \A d : Parting(d)' <=> Parting(d) /\ d # c
  BY <1>0, <1>1, <1>4 DEF Parting, At
<1>8. \A x : Used(x)' <=> Used(x)
  BY <1>1, <1>3, <1>6, <1>7 DEF Used
<1>9. Calls'
  <2>1. ASSUME NEW u \in Thread, u # t PROVE CallOK(u)'
    BY <2>1, <1>3, <1>4 DEF MallocInv, Calls, CallOK
  <2>2. CallOK(t)'
    <3>1. CASE pc[t].arena = None
      <4>1. pc'[t] = Idle
        BY <3>1, <1>2, <1>4
      <4>2. QED
        BY <4>1 DEF CallOK, Idle
    <3>2. CASE pc[t].arena # None
      BY <3>2, <1>1, <1>2, <1>3, <1>4 DEF CallOK
    <3>3. QED
      BY <3>1, <3>2
  <2>3. QED
    BY <2>1, <2>2 DEF Calls
<1>10. Locks'
  <2>1. \A u \in Thread : pc'[u].arena = pc[u].arena
    BY <1>2, <1>4
  <2>2. QED
    BY <2>1, <1>3 DEF MallocInv, Types, Locks, MallocBounds
<1>11. \A a \in Arena : Holds(a)' <=> Holds(a)
  <2>1. ASSUME NEW a \in Arena, lock[a] = t PROVE Holds(a)' <=> Holds(a)
    BY <2>1, <1>1, <1>3, <1>4 DEF Holds
  <2>2. ASSUME NEW a \in Arena, lock[a] # t PROVE Holds(a)' <=> Holds(a)
    <3>1. lock[a] # None => lock[a] \in Thread
      BY DEF MallocInv, Types
    <3>2. QED
      BY <2>2, <3>1, <1>3, <1>4 DEF Holds
  <2>3. QED
    BY <2>1, <2>2, Zenon
<1>12. \A u \in Thread : u # t =>
          /\ Frees(u)' <=> Frees(u)
          /\ Wipes(u)' <=> Wipes(u)
          /\ At(u, "unmap")' <=> At(u, "unmap")
          /\ At(u, "pool")' <=> At(u, "pool")
          /\ pc'[u].b = pc[u].b /\ pc'[u].mem = pc[u].mem
  BY <1>4 DEF Frees, Wipes, At
<1>13. /\ ~Frees(t) /\ ~Wipes(t) /\ ~At(t, "pool")
       /\ ~Frees(t)' /\ ~Wipes(t)' /\ ~At(t, "unmap")' /\ ~At(t, "pool")' /\ pc'[t].mem = pc[t].mem
  BY <1>1, <1>2, <1>4 DEF Frees, Wipes, At
<1>14. Pieces'
  BY <1>3, <1>6, <1>8, <1>12, <1>13 DEF MallocInv, Pieces, PieceOK
<1>15. Holding'
  BY <1>3, <1>8, <1>11, <1>12, <1>13 DEF MallocInv, Holding
<1>16. Wiping'
  BY <1>3, <1>8, <1>12, <1>13 DEF MallocInv, Wiping
<1>17. Giving'
  BY <1>0, <1>1, <1>3, <1>6, <1>12, <1>13 DEF MallocInv, Giving
<1>18. \A x \in Blocks : Holders(x)' = Holders(x)
  BY <1>3, <1>6, <1>11, <1>12, <1>13 DEF Holders, PiecesIn, ArenasOn, FreesOf
<1>19. Counting'
  <2>1. \A x \in Blocks : ref'[x] >= 0
    BY <1>3 DEF MallocInv, Counting
  <2>2. \A x \in Blocks : Used(x)' =>
         ref'[x] = Holders(x)' /\ (ref'[x] = 0 => \E u \in Thread : Wipes(u)' /\ pc'[u].b = x)
    BY <1>3, <1>8, <1>12, <1>13, <1>18 DEF MallocInv, Counting
  <2>3. \A d \in mapped' : ~Parting(d)' => root_ref'[d] = Cardinality(BlocksOut(d))' /\ root_ref'[d] >= 1
    BY <1>3, <1>6, <1>7 DEF MallocInv, Counting, BlocksOut
  <2>4. \A b \in InPool' : b[1] \in mapped'
    BY <1>1, <1>3, <1>6 DEF MallocInv, Counting
  <2>5. QED
    BY <2>1, <2>2, <2>3, <2>4 DEF Counting
<1>20. Written'
  BY <1>3, <1>8, <1>12, <1>13 DEF MallocInv, Written
<1>21. QED
  BY <1>5, <1>9, <1>10, <1>14, <1>15, <1>16, <1>17, <1>19, <1>20 DEF MallocInv

\* block_new takes a new chunk: one block for the arena, the others for the pool.
LEMMA MallocNewFromSystem ==
  ASSUME MallocBounds, MallocInv, NEW t \in Thread, NewFromSystem(t)
  PROVE  MallocInv'
<1>0. PICK c \in Chunk \ mapped :
        /\ At(t, "new") /\ available = <<>>
        /\ mapped' = mapped \union {c}
        /\ available' = [i \in 1..PerChunk - 1 |-> <<c, i>>]
        /\ ref' = [x \in Blocks |-> IF x[1] = c THEN 1 ELSE ref[x]]
        /\ pos' = [x \in Blocks |-> IF x[1] = c THEN 0 ELSE pos[x]]
        /\ root_ref' = [root_ref EXCEPT ![c] = 1]
        /\ block' = [block EXCEPT ![pc[t].arena] = Root(c)]
        /\ Goto(t, "take")
        /\ UNCHANGED <<lock, dirty, live>>
  BY DEF NewFromSystem
<1>1. PICK a, b : a = pc[t].arena /\ b = Root(c)
  OBVIOUS
<1>2. /\ pc[t] \in CallType /\ pc[t].at = "new" /\ CallOK(t) /\ pc[t].arena = a
      /\ a \in Arena /\ a # None /\ lock[a] = t /\ t # None /\ pc[t].mem = NoPiece /\ pc[t].n \in Sizes
  BY <1>0, <1>1 DEF At, MallocInv, Types, Calls, CallOK, CallType, MallocBounds
<1>3. b \in Blocks /\ b[1] = c /\ b # None /\ b \in BlocksOf(c) /\ BlocksOf(c) \subseteq Blocks
  BY <1>0, <1>1, BlockFacts DEF MallocBounds
<1>4. InPool = {}
  BY <1>0 DEF InPool, Range
<1>5. available' \in Seq(Blocks) /\ IsInjective(available') /\ InPool' = BlocksOf(c) \ {b}
  <2> DEFINE n == PerChunk - 1
  <2>1. n \in Nat
    BY DEF MallocBounds
  <2>2. \A i \in 1..n : <<c, i>> \in BlocksOf(c) /\ <<c, i>> \in Blocks
    BY <1>0 DEF BlocksOf, Blocks
  <2>3. available' = [i \in 1..n |-> <<c, i>>]
    BY <1>0
  <2>4. Range(available') = {<<c, i>> : i \in 1..n}
    BY <2>3 DEF Range
  <2>5. {<<c, i>> : i \in 1..n} = BlocksOf(c) \ {b}
    BY <2>1, <1>1 DEF BlocksOf, Root
  <2> HIDE DEF n
  <2>6. available' \in Seq(Blocks)
    <3>1. available' \in [1..n -> Blocks]
      BY <2>2, <2>3
    <3>2. QED
      BY <2>1, <3>1
  <2>7. IsInjective(available')
    BY <2>3 DEF IsInjective
  <2>8. QED
    BY <2>4, <2>5, <2>6, <2>7 DEF InPool
<1>6. UNCHANGED <<lock, dirty, live>> /\ mapped' = mapped \union {c}
  BY <1>0
<1>7. /\ pc' \in [Thread -> CallType]
      /\ \A u \in Thread : u # t => pc'[u] = pc[u]
      /\ pc'[t].at = "take" /\ pc'[t].arena = a /\ pc'[t].n = pc[t].n /\ pc'[t].mem = NoPiece
  BY <1>0, <1>2 DEF Goto, MallocInv, Types, CallType
<1>8. /\ block'[a] = b
      /\ \A d \in Arena : d # a => block'[d] = block[d]
      /\ block' \in [Arena -> Blocks \union {None}]
  BY <1>0, <1>1, <1>2, <1>3 DEF MallocInv, Types
<1>9. \A x \in Blocks : /\ x[1] = c => ref'[x] = 1 /\ pos'[x] = 0
                        /\ x[1] # c => ref'[x] = ref[x] /\ pos'[x] = pos[x]
  BY <1>0
<1>10. Types'
  <2>1. root_ref' \in [Chunk -> Int]
    BY <1>0 DEF MallocInv, Types
  <2>2. ref' \in [Blocks -> Int]
    BY <1>0 DEF MallocInv, Types
  <2>3. pos' \in [Blocks -> 0..Slices]
    <3>1. 0 \in 0..Slices
      BY DEF MallocBounds
    <3>2. QED
      BY <3>1, <1>0 DEF MallocInv, Types
  <2>4. QED
    BY <2>1, <2>2, <2>3, <1>0, <1>5, <1>6, <1>7, <1>8 DEF MallocInv, Types
<1>11. Held' = Held
  <2>1. \A u \in Thread : pc'[u].mem = pc[u].mem
    BY <1>2, <1>7
  <2>2. QED
    BY <2>1, <1>6 DEF Held, Returned
<1>12. (\A d : Parting(d)' <=> Parting(d)) /\ ~Parting(c)
  <2>1. \A d : Parting(d)' <=> Parting(d)
    BY <1>2, <1>7 DEF Parting, At
  <2>2. ~Parting(c)
    BY <1>0 DEF Parting, MallocInv, Giving
  <2>3. QED
    BY <2>1, <2>2
<1>13. /\ Used(b)'
       /\ \A x \in Blocks : x[1] = c => ~Used(x) /\ (Used(x)' => x = b)
       /\ \A x \in Blocks : x[1] # c => (Used(x)' <=> Used(x))
  <2>1. \A x \in Blocks : x \in InPool' <=> x[1] = c /\ x # b
    BY <1>5, BlockFacts
  <2>2. QED
    BY <2>1, <1>0, <1>3, <1>4, <1>6, <1>12 DEF Used
<1>14. /\ \A p \in Held : p.b[1] # c
       /\ \A d \in Arena : Holds(d) => block[d][1] # c
       /\ \A u \in Thread : Frees(u) \/ Wipes(u) => pc[u].b[1] # c
  BY <1>0 DEF MallocInv, Pieces, PieceOK, Holding, Wiping, Used
<1>15. \A u \in Thread : /\ Frees(u)' <=> Frees(u)
                         /\ Wipes(u)' <=> Wipes(u)
                         /\ At(u, "unmap")' <=> At(u, "unmap")
                         /\ At(u, "pool")' <=> At(u, "pool")
                         /\ u # t => pc'[u].b = pc[u].b
                         /\ pc'[u].mem = pc[u].mem
  BY <1>2, <1>7 DEF Frees, Wipes, At
<1>16. ~Frees(t) /\ ~Wipes(t) /\ ~At(t, "unmap") /\ ~At(t, "pool")
  BY <1>2 DEF Frees, Wipes, At
<1>17. ~Holds(a) /\ Holds(a)' /\ \A d \in Arena : d # a => (Holds(d)' <=> Holds(d))
  <2>1. ~Holds(a)
    BY <1>2 DEF Holds
  <2>2. Holds(a)'
    BY <1>2, <1>3, <1>6, <1>7, <1>8 DEF Holds
  <2>3. ASSUME NEW d \in Arena, d # a PROVE Holds(d)' <=> Holds(d)
    <3>1. lock[d] # None => lock[d] \in Thread /\ lock[d] # t
      BY <2>3, <1>2 DEF MallocInv, Types, Locks, MallocBounds
    <3>2. QED
      BY <3>1, <2>3, <1>6, <1>7, <1>8 DEF Holds
  <2>4. QED
    BY <2>1, <2>2, <2>3, Zenon
<1>18. Calls'
  <2>1. ASSUME NEW u \in Thread, u # t PROVE CallOK(u)'
    <3>1. CallOK(u) /\ pc'[u] = pc[u] /\ lock' = lock
      BY <2>1, <1>6, <1>7 DEF MallocInv, Calls
    <3>2. pc[u].arena # None => pc[u].arena # a /\ pc[u].arena \in Arena
      BY <2>1, <3>1, <1>2 DEF CallOK, MallocInv, Types, CallType
    <3>3. ASSUME pc[u].arena # None, pc[u].at = "take"
          PROVE  LET x == block[pc[u].arena] IN x # None /\ pos'[x] = pos[x] /\ block'[pc[u].arena] = x
      <4>1. PICK d \in Arena : d = pc[u].arena /\ lock[d] = u /\ block[d] # None /\ d # a
        BY <3>1, <3>2, <3>3 DEF CallOK
      <4>2. Holds(d) /\ block[d] \in Blocks
        BY <3>3, <4>1 DEF Holds, MallocInv, Types
      <4>3. QED
        BY <4>1, <4>2, <1>8, <1>9, <1>14
    <3>4. QED
      BY <3>1, <3>2, <3>3, <1>8 DEF CallOK
  <2>2. CallOK(t)'
    BY <1>2, <1>3, <1>6, <1>7, <1>8, <1>9, SizesFit DEF CallOK
  <2>3. QED
    BY <2>1, <2>2 DEF Calls
<1>19. Locks'
  <2>1. \A u \in Thread : pc'[u].arena = pc[u].arena
    BY <1>2, <1>7
  <2>2. QED
    BY <2>1, <1>6 DEF MallocInv, Types, Locks, MallocBounds
<1>20. Pieces'
  <2>1. \A p \in Held' : PieceOK(p)'
    BY <1>9, <1>11, <1>13, <1>14 DEF MallocInv, Pieces, PieceOK
  <2>2. QED
    BY <2>1, <1>6, <1>11, <1>15 DEF MallocInv, Pieces
<1>21. \A x \in Blocks : Used(x) => Used(x)' /\ x[1] # c
  BY <1>13
<1>22. Holding'
  <2>1. \A d \in Arena : Holds(d)' => Used(block[d])'
    <3>1. \A d \in Arena : d # a /\ Holds(d)' => block'[d] = block[d] /\ block[d] \in Blocks /\ Used(block[d])
      BY <1>8, <1>17 DEF MallocInv, Types, Holding, Holds
    <3>2. \A d \in Arena : d # a /\ Holds(d)' => Used(block[d])'
      BY <3>1, <1>21
    <3>3. Used(block[a])'
      BY <1>8, <1>13
    <3>4. QED
      BY <3>2, <3>3
  <2>2. \A d, e \in Arena : d # e /\ Holds(d)' /\ Holds(e)' => block'[d] # block'[e]
    BY <1>3, <1>8, <1>14, <1>17 DEF MallocInv, Holding
  <2>3. \A u \in Thread : Frees(u)' => Used(pc[u].b)'
    <3>1. \A u \in Thread : Frees(u)' => Used(pc[u].b) /\ pc[u].b \in Blocks /\ pc'[u].b = pc[u].b
      BY <1>15, <1>16 DEF MallocInv, Holding, Calls, CallOK, Frees, At
    <3>2. QED
      BY <3>1, <1>21
  <2>4. QED
    BY <2>1, <2>2, <2>3 DEF Holding
<1>23. Wiping'
  <2>1. \A u \in Thread : Wipes(u) => pc[u].b \in Blocks /\ pc[u].b[1] # c
    BY <1>14 DEF MallocInv, Calls, CallOK, Wipes, At
  <2>2. QED
    BY <2>1, <1>9, <1>13, <1>15, <1>16 DEF MallocInv, Wiping
<1>24. Giving'
  <2>1. \A x \in InPool' : x[1] = c
    BY <1>0, <1>5, BlockFacts
  <2>2. QED
    BY <2>1, <1>0, <1>6, <1>15, <1>16 DEF MallocInv, Giving
<1>25. Holders(b)' = 1 /\ \A x \in Blocks : x[1] # c => Holders(x)' = Holders(x)
  <2>1. PiecesIn(b)' = {} /\ FreesOf(b)' = {} /\ ArenasOn(b)' = {a}
    BY <1>2, <1>3, <1>8, <1>11, <1>14, <1>15, <1>16, <1>17 DEF PiecesIn, FreesOf, ArenasOn
  <2>2. \A x \in Blocks : x[1] # c =>
          PiecesIn(x)' = PiecesIn(x) /\ FreesOf(x)' = FreesOf(x) /\ ArenasOn(x)' = ArenasOn(x)
    BY <1>3, <1>8, <1>11, <1>15, <1>16, <1>17 DEF PiecesIn, FreesOf, ArenasOn
  <2>3. Cardinality({a}) = 1 /\ Cardinality({}) = 0
    BY FS_Singleton, FS_EmptySet
  <2>4. QED
    BY <2>1, <2>2, <2>3 DEF Holders
<1>26. Counting'
  <2>1. \A x \in Blocks : ref'[x] >= 0
    BY <1>9 DEF MallocInv, Counting
  <2>2. \A x \in Blocks : Used(x)' =>
         ref'[x] = Holders(x)' /\ (ref'[x] = 0 => \E u \in Thread : Wipes(u)' /\ pc'[u].b = x)
    BY <1>3, <1>9, <1>13, <1>15, <1>16, <1>25 DEF MallocInv, Counting
  <2>3. root_ref'[c] = 1 /\ Cardinality(BlocksOut(c))' = 1
    <3>1. BlocksOut(c)' = {b}
      BY <1>3, <1>5 DEF BlocksOut
    <3>2. root_ref'[c] = 1
      BY <1>0 DEF MallocInv, Types
    <3>3. QED
      BY <3>1, <3>2, FS_Singleton
  <2>4. \A d \in mapped : ~Parting(d) => root_ref'[d] = Cardinality(BlocksOut(d))' /\ root_ref'[d] >= 1
    <3>1. SUFFICES ASSUME NEW d \in mapped, ~Parting(d)
                   PROVE  root_ref'[d] = Cardinality(BlocksOut(d))' /\ root_ref'[d] >= 1
      OBVIOUS
    <3>2. d # c /\ d \in Chunk
      BY <1>0, <3>1 DEF MallocInv, Types
    <3>3. BlocksOut(d)' = BlocksOut(d)
      BY <3>2, <1>0, <1>4, <1>5, BlockFacts DEF BlocksOut
    <3>4. root_ref'[d] = root_ref[d]
      BY <3>2, <1>0 DEF MallocInv, Types
    <3>5. QED
      BY <3>1, <3>3, <3>4 DEF MallocInv, Counting
  <2>5. \A x \in InPool' : x[1] \in mapped'
    BY <1>0, <1>5, <1>6, BlockFacts
  <2>6. QED
    BY <2>1, <2>2, <2>3, <2>4, <2>5, <1>6, <1>12 DEF Counting
<1>27. Written'
  <2>1. \A x \in Blocks, i \in Int : <<x, i>> \in dirty => x[1] # c
    BY <1>0 DEF MallocInv, Written, Used
  <2>2. QED
    BY <2>1, <1>6, <1>9, <1>13, <1>15, <1>16 DEF MallocInv, Written
<1>28. QED
  BY <1>10, <1>18, <1>19, <1>20, <1>22, <1>23, <1>24, <1>26, <1>27 DEF MallocInv

\* block_free puts a wiped block into the pool, and takes all of a chunk that is whole
\* out of it.
LEMMA MallocPutInPool ==
  ASSUME MallocBounds, MallocInv, NEW t \in Thread, PutInPool(t)
  PROVE  MallocInv'
<1>0. PICK b, c, pool : b = pc[t].b /\ c = b[1] /\ pool = Append(available, b)
  OBVIOUS
<1>1. /\ pc[t] \in CallType /\ pc[t].at = "pool" /\ CallOK(t) /\ pc[t].b = b /\ t # None
      /\ Wipes(t) /\ b \in Blocks /\ Used(b) /\ b \notin InPool /\ c \in mapped /\ ~Parting(c) /\ c \in Chunk
      /\ root_ref[c] = Cardinality(BlocksOut(c)) /\ root_ref[c] >= 1 /\ root_ref[c] \in Int
  <2>1. pc[t] \in CallType /\ pc[t].at = "pool" /\ CallOK(t) /\ Wipes(t) /\ b \in Blocks /\ Used(b) /\ t # None
    BY <1>0 DEF PutInPool, At, MallocInv, Types, Calls, CallOK, Wipes, Wiping, MallocBounds
  <2>2. b \notin InPool /\ c \in mapped /\ ~Parting(c) /\ c \in Chunk
    BY <1>0, <2>1 DEF Used, MallocInv, Types
  <2>3. root_ref[c] = Cardinality(BlocksOut(c)) /\ root_ref[c] >= 1 /\ root_ref[c] \in Int
    BY <2>2 DEF MallocInv, Counting, Types
  <2>4. QED
    BY <1>0, <2>1, <2>2, <2>3
<1>2. pool \in Seq(Blocks) /\ IsInjective(pool) /\ Range(pool) = InPool \union {b}
  BY <1>0, <1>1, AppendedAtEnd DEF MallocInv, Types, InPool
<1>3. UNCHANGED <<mapped, ref, pos, block, lock, dirty, live>>
  BY DEF PutInPool
<1>4. /\ root_ref' \in [Chunk -> Int] /\ root_ref'[c] = root_ref[c] - 1
      /\ \A d \in Chunk : d # c => root_ref'[d] = root_ref[d]
  BY <1>0, <1>1 DEF PutInPool, MallocInv, Types
<1>5. PICK X \in CallType :
        /\ pc' = [pc EXCEPT ![t] = X] /\ X.arena = pc[t].arena /\ X.mem = pc[t].mem
        /\ pc[t].arena # None => X.n \in Sizes
        /\ root_ref[c] = 1 => X.at = "unmap" /\ X.b = b /\ X.then = pc[t].then
        /\ root_ref[c] # 1 => /\ pc[t].arena = None => X = Idle
                              /\ pc[t].arena # None =>
                                   X.at \in {"new", "empty"} /\ (X.at = "empty" <=> X.mem # NoPiece)
  <2>1. CASE root_ref[c] = 1
    <3> DEFINE X == [pc[t] EXCEPT !.at = "unmap"]
    <3>1. /\ X \in CallType /\ X.at = "unmap" /\ X.b = pc[t].b /\ X.then = pc[t].then /\ X.arena = pc[t].arena
          /\ X.mem = pc[t].mem /\ X.n = pc[t].n
      BY <1>1 DEF CallType
    <3>2. pc' = [pc EXCEPT ![t] = X]
      BY <1>0, <1>1, <2>1 DEF PutInPool, Goto, MallocInv, Types
    <3>3. pc[t].arena # None => pc[t].n \in Sizes
      BY <1>1 DEF CallOK
    <3> HIDE DEF X
    <3>4. QED
      BY <2>1, <3>1, <3>2, <3>3, <1>1
  <2>2. CASE root_ref[c] # 1
    <3>1. pc' = GoesOn(t, pc[t])
      BY <1>0, <2>2 DEF PutInPool
    <3>2. QED
      BY <3>1, <2>2, <1>1, GoesOnFacts
  <2>3. QED
    BY <2>1, <2>2
<1>6. /\ pc' \in [Thread -> CallType] /\ pc'[t] = X
      /\ \A u \in Thread : u # t => pc'[u] = pc[u]
  BY <1>5 DEF MallocInv, Types
<1>7. X.at \in {"unmap", "idle", "new", "empty"} /\ (X.at = "unmap" <=> root_ref[c] = 1)
  BY <1>5 DEF Idle
<1>8. /\ available' \in Seq(Blocks) /\ IsInjective(available')
      /\ InPool' = IF root_ref[c] = 1 THEN {x \in InPool \union {b} : x[1] # c} ELSE InPool \union {b}
  <2>1. CASE root_ref[c] = 1
    <3>1. available' \in Without(pool, c)
      BY <1>0, <2>1 DEF PutInPool
    <3>2. QED
      BY <3>1, <2>1, <1>2, WithoutKeeps DEF InPool
  <2>2. CASE root_ref[c] # 1
    <3>1. available' = pool
      BY <1>0, <2>2 DEF PutInPool
    <3>2. QED
      BY <3>1, <2>2, <1>2 DEF InPool
  <2>3. QED
    BY <2>1, <2>2
<1>9. Types'
  BY <1>3, <1>4, <1>6, <1>8 DEF MallocInv, Types
<1>10. Held' = Held
  <2>1. \A u \in Thread : pc'[u].mem = pc[u].mem
    BY <1>5, <1>6
  <2>2. QED
    BY <2>1, <1>3 DEF Held, Returned
<1>11. \A d : Parting(d)' <=> Parting(d) \/ (root_ref[c] = 1 /\ d = c)
  <2>1. root_ref[c] = 1 => pc'[t].b = b
    BY <1>5, <1>6
  <2>2. QED
    BY <2>1, <1>0, <1>1, <1>6, <1>7 DEF Parting, At
<1>12. b \in BlocksOut(c) /\ IsFiniteSet(BlocksOut(c)) /\ (root_ref[c] = 1 => BlocksOut(c) = {b})
  <2>1. b \in BlocksOut(c)
    BY <1>0, <1>1, BlockFacts DEF BlocksOut
  <2>2. IsFiniteSet(BlocksOut(c))
    BY BlockFacts, FS_Difference DEF BlocksOut
  <2>3. root_ref[c] = 1 => BlocksOut(c) = {b}
    <3>1. SUFFICES ASSUME root_ref[c] = 1 PROVE BlocksOut(c) = {b}
      OBVIOUS
    <3>2. Cardinality(BlocksOut(c)) = 1
      BY <3>1, <1>1
    <3>3. PICK x : BlocksOut(c) = {x}
      BY <2>2, <3>2, FS_Singleton
    <3>4. QED
      BY <2>1, <3>3
  <2>4. QED
    BY <2>1, <2>2, <2>3
<1>13. \A x \in Blocks : Used(x)' <=> Used(x) /\ x # b
  <2>1. ASSUME NEW x \in Blocks, x[1] # c PROVE Used(x)' <=> Used(x) /\ x # b
    BY <2>1, <1>0, <1>3, <1>8, <1>11 DEF Used
  <2>2. ASSUME NEW x \in Blocks, x[1] = c PROVE Used(x)' <=> Used(x) /\ x # b
    <3>1. CASE root_ref[c] = 1
      <4>1. x \in InPool \/ x = b
        BY <2>2, <3>1, <1>12, BlockFacts DEF BlocksOut
      <4>2. ~Used(x)'
        BY <2>2, <3>1, <1>11 DEF Used
      <4>3. QED
        BY <4>1, <4>2 DEF Used
    <3>2. CASE root_ref[c] # 1
      BY <2>2, <3>2, <1>1, <1>3, <1>8, <1>11 DEF Used
    <3>3. QED
      BY <3>1, <3>2
  <2>3. QED
    BY <2>1, <2>2
<1>14. /\ \A p \in Held : p.b # b
       /\ \A d \in Arena : Holds(d) => block[d] # b
       /\ \A u \in Thread : Frees(u) => pc[u].b # b
       /\ \A u \in Thread : u # t /\ Wipes(u) => pc[u].b # b
       /\ \A i \in Int : <<b, i>> \notin dirty
  <2>1. PiecesIn(b) = {} /\ ArenasOn(b) = {} /\ FreesOf(b) = {}
    BY <1>1, WipedUnheld
  <2>2. \A i \in Int : <<b, i>> \notin dirty
    BY <1>1 DEF MallocInv, Written, At
  <2>3. \A u \in Thread : u # t /\ Wipes(u) => pc[u].b # b
    BY <1>1 DEF MallocInv, Wiping
  <2>4. QED
    BY <2>1, <2>2, <2>3 DEF PiecesIn, ArenasOn, FreesOf
<1>15. Calls'
  <2>1. ASSUME NEW u \in Thread, u # t PROVE CallOK(u)'
    BY <2>1, <1>3, <1>6 DEF MallocInv, Calls, CallOK
  <2>2. CallOK(t)'
    <3>1. CASE pc[t].arena = None
      <4>1. CASE root_ref[c] = 1
        BY <3>1, <4>1, <1>1, <1>5, <1>6, <1>7 DEF CallOK
      <4>2. CASE root_ref[c] # 1
        <5>1. pc'[t] = Idle
          BY <3>1, <4>2, <1>5, <1>6
        <5>2. QED
          BY <5>1 DEF CallOK, Idle
      <4>3. QED
        BY <4>1, <4>2
    <3>2. CASE pc[t].arena # None
      BY <3>2, <1>1, <1>3, <1>5, <1>6, <1>7 DEF CallOK
    <3>3. QED
      BY <3>1, <3>2
  <2>3. QED
    BY <2>1, <2>2 DEF Calls
<1>16. Locks'
  <2>1. \A u \in Thread : pc'[u].arena = pc[u].arena
    BY <1>5, <1>6
  <2>2. QED
    BY <2>1, <1>3 DEF MallocInv, Types, Locks, MallocBounds
<1>17. \A a \in Arena : Holds(a)' <=> Holds(a)
  <2>1. ASSUME NEW a \in Arena, lock[a] = t PROVE Holds(a)' <=> Holds(a)
    BY <2>1, <1>1, <1>3, <1>6, <1>7 DEF Holds
  <2>2. ASSUME NEW a \in Arena, lock[a] # t PROVE Holds(a)' <=> Holds(a)
    <3>1. lock[a] # None => lock[a] \in Thread
      BY DEF MallocInv, Types
    <3>2. QED
      BY <2>2, <3>1, <1>3, <1>6 DEF Holds
  <2>3. QED
    BY <2>1, <2>2, Zenon
<1>18. \A u \in Thread : u # t =>
          /\ Frees(u)' <=> Frees(u)
          /\ Wipes(u)' <=> Wipes(u)
          /\ At(u, "unmap")' <=> At(u, "unmap")
          /\ At(u, "pool")' <=> At(u, "pool")
          /\ pc'[u].b = pc[u].b /\ pc'[u].mem = pc[u].mem
  BY <1>6 DEF Frees, Wipes, At
<1>19. /\ ~Frees(t) /\ ~At(t, "unmap")
       /\ ~Frees(t)' /\ ~Wipes(t)' /\ ~At(t, "pool")' /\ pc'[t].mem = pc[t].mem
       /\ At(t, "unmap")' => root_ref[c] = 1 /\ pc'[t].b = b
  BY <1>1, <1>5, <1>6, <1>7 DEF Frees, Wipes, At
<1>20. Pieces'
  BY <1>3, <1>10, <1>13, <1>14, <1>18, <1>19 DEF MallocInv, Pieces, PieceOK
<1>21. \A x \in Blocks : Used(x) /\ x # b => Used(x)'
  BY <1>13
<1>22. Holding'
  <2>1. \A a \in Arena : Holds(a)' => Used(block[a])'
    <3>1. \A a \in Arena : Holds(a)' => block'[a] = block[a] /\ block[a] \in Blocks /\ block[a] # b /\ Used(block[a])
      BY <1>3, <1>14, <1>17 DEF MallocInv, Types, Holding, Holds
    <3>2. QED
      BY <3>1, <1>21
  <2>2. \A a, d \in Arena : a # d /\ Holds(a)' /\ Holds(d)' => block'[a] # block'[d]
    BY <1>3, <1>17 DEF MallocInv, Holding
  <2>3. \A u \in Thread : Frees(u)' => Used(pc[u].b)'
    <3>1. \A u \in Thread : Frees(u)' =>
            Used(pc[u].b) /\ pc[u].b \in Blocks /\ pc'[u].b = pc[u].b /\ pc[u].b # b
      BY <1>14, <1>18, <1>19 DEF MallocInv, Holding, Calls, CallOK, Frees, At
    <3>2. QED
      BY <3>1, <1>21
  <2>4. QED
    BY <2>1, <2>2, <2>3 DEF Holding
<1>23. Wiping'
  <2>1. \A u \in Thread : u # t /\ Wipes(u) => pc[u].b \in Blocks /\ pc[u].b # b
    BY <1>14 DEF MallocInv, Calls, CallOK, Wipes, At
  <2>2. QED
    BY <2>1, <1>3, <1>13, <1>18, <1>19 DEF MallocInv, Wiping
<1>24. Giving'
  <2>1. \A u \in Thread : u # t /\ At(u, "unmap") => pc[u].b[1] # c
    BY <1>1 DEF Parting
  <2>2. \A x \in InPool' : x \in InPool \/ (x[1] = c /\ root_ref[c] # 1)
    BY <1>0, <1>8
  <2>3. root_ref[c] = 1 => \A x \in InPool' : x[1] # c
    BY <1>8
  <2>4. ASSUME NEW u \in Thread, At(u, "unmap")', u # t
        PROVE  /\ pc'[u].b[1] \in mapped' /\ \A x \in InPool' : x[1] # pc'[u].b[1]
               /\ \A v \in Thread : v # u /\ At(v, "unmap")' => pc'[v].b[1] # pc'[u].b[1]
    BY <2>1, <2>2, <2>4, <1>0, <1>3, <1>18, <1>19 DEF MallocInv, Giving
  <2>5. ASSUME At(t, "unmap")'
        PROVE  /\ pc'[t].b[1] \in mapped' /\ \A x \in InPool' : x[1] # pc'[t].b[1]
               /\ \A v \in Thread : v # t /\ At(v, "unmap")' => pc'[v].b[1] # pc'[t].b[1]
    BY <2>1, <2>3, <2>5, <1>0, <1>1, <1>3, <1>18, <1>19
  <2>6. QED
    BY <2>4, <2>5 DEF Giving
<1>25. \A x \in Blocks : Holders(x)' = Holders(x)
  BY <1>3, <1>10, <1>17, <1>18, <1>19 DEF Holders, PiecesIn, ArenasOn, FreesOf
<1>26. Counting'
  <2>1. \A x \in Blocks : ref'[x] >= 0
    BY <1>3 DEF MallocInv, Counting
  <2>2. \A x \in Blocks : Used(x)' =>
         ref'[x] = Holders(x)' /\ (ref'[x] = 0 => \E u \in Thread : Wipes(u)' /\ pc'[u].b = x)
    <3>1. \A x \in Blocks, u \in Thread : x # b /\ Wipes(u) /\ pc[u].b = x => Wipes(u)' /\ pc'[u].b = x
      BY <1>1, <1>18
    <3>2. QED
      BY <3>1, <1>3, <1>13, <1>25 DEF MallocInv, Counting
  <2>3. \A d \in mapped : ~Parting(d)' => root_ref'[d] = Cardinality(BlocksOut(d))' /\ root_ref'[d] >= 1
    <3>1. SUFFICES ASSUME NEW d \in mapped, ~Parting(d)'
                   PROVE  root_ref'[d] = Cardinality(BlocksOut(d))' /\ root_ref'[d] >= 1
      OBVIOUS
    <3>2. ~Parting(d) /\ d \in Chunk /\ (d = c => root_ref[c] # 1)
      BY <3>1, <1>11 DEF MallocInv, Types
    <3>3. CASE d = c
      <4>1. BlocksOut(c)' = BlocksOut(c) \ {b}
        BY <3>2, <3>3, <1>8 DEF BlocksOut
      <4>2. Cardinality(BlocksOut(c) \ {b}) = Cardinality(BlocksOut(c)) - 1
        BY <1>12, FS_RemoveElement
      <4>3. QED
        BY <3>2, <3>3, <4>1, <4>2, <1>1, <1>4
    <3>4. CASE d # c
      <4>1. BlocksOut(d)' = BlocksOut(d)
        BY <3>2, <3>4, <1>0, <1>8, BlockFacts DEF BlocksOut
      <4>2. QED
        BY <3>1, <3>2, <3>4, <4>1, <1>4 DEF MallocInv, Counting
    <3>5. QED
      BY <3>3, <3>4
  <2>4. \A x \in InPool' : x[1] \in mapped'
    BY <1>0, <1>1, <1>3, <1>8 DEF MallocInv, Counting
  <2>5. QED
    BY <2>1, <2>2, <2>3, <2>4, <1>3 DEF Counting
<1>27. Written'
  BY <1>3, <1>13, <1>14, <1>18, <1>19 DEF MallocInv, Written
<1>28. QED
  BY <1>9, <1>15, <1>16, <1>20, <1>22, <1>23, <1>24, <1>26, <1>27 DEF MallocInv

----------------------------------------------------------------------------
\* It holds when the allocator has been initialised.
LEMMA MallocInit == ASSUME MallocBounds, Init PROVE MallocInv
<1>1. /\ mapped = {} /\ available = <<>> /\ live = {} /\ dirty = {}
      /\ root_ref = [c \in Chunk |-> 0] /\ ref = [b \in Blocks |-> 0] /\ pos = [b \in Blocks |-> 0]
      /\ block = [a \in Arena |-> None] /\ lock = [a \in Arena |-> None]
      /\ pc = [t \in Thread |-> Idle]
  BY DEF Init
<1>2. /\ Idle \in CallType /\ Idle.at = "idle" /\ Idle.arena = None /\ Idle.then = "idle" /\ Idle.mem = NoPiece
  BY DEF Idle, CallType, NoPiece, Piece, PieceType
<1>3. InPool = {} /\ Held = {}
  BY <1>1, <1>2 DEF InPool, Range, Held, Returned
<1>4. Types
  <2>1. 0 \in 0..Slices
    BY DEF MallocBounds
  <2>2. available \in Seq(Blocks) /\ IsInjective(available)
    BY <1>1 DEF IsInjective
  <2>3. IsFiniteSet(live)
    BY <1>1, FS_EmptySet
  <2>4. QED
    BY <1>1, <1>2, <2>1, <2>2, <2>3 DEF Types
<1>5. Calls /\ Locks
  BY <1>1, <1>2 DEF Calls, CallOK, Locks
<1>6. Pieces /\ Holding /\ Wiping /\ Giving
  BY <1>1, <1>2, <1>3 DEF Pieces, Holding, Holds, Wiping, Giving, Frees, Wipes, At
<1>7. Counting
  BY <1>1, <1>3 DEF Counting, Used
<1>8. Written
  <2>1. SlicesOf(NoPiece) = {}
    BY DEF SlicesOf, NoPiece, Piece
  <2>2. QED
    BY <2>1, <1>1 DEF Written
<1>9. QED
  BY <1>4, <1>5, <1>6, <1>7, <1>8 DEF MallocInv

\* Every step of every thread keeps it.
LEMMA MallocStep == ASSUME MallocBounds, MallocInv, [Next]_vars PROVE MallocInv'
<1>1. ASSUME NEW t \in Thread, Step(t) PROVE MallocInv'
  BY <1>1, MallocNewFromPool, MallocNewFromSystem, MallocTake, MallocEmpty, MallocExit, MallocUnref,
     MallocWipe, MallocPutInPool, MallocUnmap DEF Step
<1>2. ASSUME NEW t \in Thread, NEW n \in Sizes, Malloc(t, n) PROVE MallocInv'
  BY <1>2, MallocMalloc
<1>3. ASSUME NEW t \in Thread, NEW p \in live, FreePiece(t, p) PROVE MallocInv'
  BY <1>3, MallocFreePiece
<1>4. CASE UNCHANGED vars
  <2>1. \A t \in Thread : CallOK(t)' <=> CallOK(t)
    BY <1>4 DEF vars, CallOK
  <2>2. Types' /\ Calls' /\ Locks'
    BY <1>4, <2>1 DEF vars, MallocInv, Types, Calls, Locks
  <2>3. Held' = Held /\ InPool' = InPool
    BY <1>4 DEF vars, Held, Returned, InPool
  <2>4. (\A c : Parting(c)' <=> Parting(c)) /\ (\A b : Used(b)' <=> Used(b))
    BY <1>4, <2>3 DEF vars, Parting, Used, At
  <2>5. /\ \A a : Holds(a)' <=> Holds(a)
        /\ \A t : (Frees(t)' <=> Frees(t)) /\ (Wipes(t)' <=> Wipes(t))
        /\ \A t, at : At(t, at)' <=> At(t, at)
    BY <1>4 DEF vars, Holds, Frees, Wipes, At
  <2>6. (\A b : Holders(b)' = Holders(b)) /\ (\A c : BlocksOut(c)' = BlocksOut(c))
    BY <1>4, <2>3, <2>5 DEF vars, Holders, PiecesIn, ArenasOn, FreesOf, BlocksOut
  <2>7. Pieces' /\ Holding' /\ Wiping' /\ Giving'
    BY <1>4, <2>3, <2>4, <2>5 DEF vars, MallocInv, Pieces, PieceOK, Holding, Wiping, Giving
  <2>8. Counting' /\ Written'
    BY <1>4, <2>3, <2>4, <2>5, <2>6 DEF vars, MallocInv, Counting, Written
  <2>9. QED
    BY <2>2, <2>7, <2>8 DEF MallocInv
<1>5. QED
  BY <1>1, <1>2, <1>3, <1>4 DEF Next

----------------------------------------------------------------------------
\* What MallocInv says is enough for what is promised.
LEMMA MallocSound == ASSUME MallocBounds, MallocInv PROVE MemorySound
<1>1. TypeOK
  <2>1. mapped \subseteq Chunk /\ InPool \subseteq Blocks /\ IsInjective(available)
    BY DEF MallocInv, Types, InPool, Range
  <2>2. \A b \in Blocks : ref[b] \in Nat /\ pos[b] \in 0..Slices
    BY DEF MallocInv, Types, Counting
  <2>3. \A a \in Arena : block[a] \in Blocks \union {None} /\ lock[a] \in Thread \union {None}
    BY DEF MallocInv, Types
  <2>4. \A p \in live \union Returned : p.b \in Blocks /\ p.n \in Sizes
    BY DEF MallocInv, Pieces, PieceOK, Held
  <2>5. QED
    BY <2>1, <2>2, <2>3, <2>4 DEF TypeOK
<1>2. PiecesApart
  <2>1. SUFFICES ASSUME NEW p \in Held
                 PROVE  /\ \A q \in Held \ {p} : SlicesOf(p) \intersect SlicesOf(q) = {}
                        /\ p.at + p.n <= pos[p.b] /\ pos[p.b] <= Slices
                        /\ p.b \notin InPool /\ p.b[1] \in mapped
    BY DEF PiecesApart, Held
  <2>2. PieceOK(p) /\ pos[p.b] \in 0..Slices
    BY DEF MallocInv, Pieces, PieceOK, Types
  <2>3. ASSUME NEW q \in Held, q # p, NEW e \in SlicesOf(p), e \in SlicesOf(q) PROVE FALSE
    <3>1. PICK i \in p.at..p.at + p.n - 1 : e = <<p.b, i>>
      BY <2>3 DEF SlicesOf
    <3>2. PICK j \in q.at..q.at + q.n - 1 : e = <<q.b, j>>
      BY <2>3 DEF SlicesOf
    <3>3. i = j /\ p.b = q.b
      BY <3>1, <3>2
    <3>4. p.at + p.n <= q.at \/ q.at + q.n <= p.at
      BY <2>3, <3>3 DEF MallocInv, Pieces
    <3>5. p.at \in Nat /\ p.n \in Nat /\ q.at \in Nat /\ q.n \in Nat
      BY SizesFit DEF MallocInv, Pieces, PieceOK
    <3>6. QED
      BY <3>1, <3>2, <3>3, <3>4, <3>5
  <2>4. pos[p.b] <= Slices
    BY <2>2 DEF MallocBounds
  <2>5. QED
    BY <2>2, <2>3, <2>4 DEF PieceOK, Used
<1>3. BlocksKept
  <2>1. ASSUME NEW t \in Thread, At(t, "take") PROVE Mine(t) \notin InPool /\ Mine(t)[1] \in mapped
    <3>1. PICK a \in Arena : a = pc[t].arena /\ lock[a] = t /\ block[a] # None
      BY <2>1 DEF MallocInv, Types, CallType, Calls, CallOK, At
    <3>2. Holds(a)
      BY <2>1, <3>1 DEF Holds, At
    <3>3. Used(block[a])
      BY <3>2 DEF MallocInv, Holding
    <3>4. QED
      BY <3>1, <3>3 DEF Mine, Used
  <2>2. ASSUME NEW t \in Thread, At(t, "unref") \/ At(t, "wipe") \/ At(t, "pool")
        PROVE  pc[t].b \notin InPool /\ pc[t].b[1] \in mapped
    <3>1. CASE Wipes(t)
      BY <3>1 DEF MallocInv, Wiping, Used
    <3>2. CASE At(t, "unref") /\ pc[t].arena = None
      BY <3>2 DEF MallocInv, Holding, Frees, Used
    <3>3. CASE At(t, "unref") /\ pc[t].arena # None
      <4>1. PICK a \in Arena : a = pc[t].arena /\ lock[a] = t /\ block[a] = pc[t].b /\ block[a] # None
        BY <3>3 DEF MallocInv, Types, CallType, Calls, CallOK, At, MallocBounds
      <4>2. Holds(a)
        BY <3>3, <4>1 DEF Holds, At
      <4>3. QED
        BY <4>1, <4>2 DEF MallocInv, Holding, Used
    <3>4. QED
      BY <2>2, <3>1, <3>2, <3>3 DEF Wipes
  <2>3. \A a, d \in Arena : a # d /\ {lock[a], lock[d]} = {None} /\ block[a] # None => block[a] # block[d]
    <3>1. SUFFICES ASSUME NEW a \in Arena, NEW d \in Arena, a # d, lock[a] = None, lock[d] = None,
                          block[a] # None, block[a] = block[d]
                   PROVE  FALSE
      OBVIOUS
    <3>2. Holds(a) /\ Holds(d)
      BY <3>1 DEF Holds
    <3>3. QED
      BY <3>1, <3>2 DEF MallocInv, Holding
  <2>4. \A b \in InPool : b[1] \in mapped
    BY DEF MallocInv, Counting
  <2>5. QED
    BY <2>1, <2>2, <2>3, <2>4 DEF BlocksKept
<1>4. ComesZeroed
  BY DEF ComesZeroed, MallocInv, Written
<1>5. NothingLost
  <2>1. SUFFICES ASSUME \A t \in Thread : pc[t] = Idle, NEW c \in mapped
                 PROVE  /\ \A b \in BlocksOf(c) :
                              b \in InPool \/ (\E a \in Arena : block[a] = b) \/ (\E p \in live : p.b = b)
                        /\ ~ BlocksOf(c) \subseteq InPool
    BY DEF NothingLost
  <2>2. \A t \in Thread : pc[t].at = "idle" /\ pc[t].mem = NoPiece
    BY <2>1 DEF Idle
  <2>3. c \in Chunk /\ ~Parting(c)
    BY <2>1, <2>2 DEF MallocInv, Types, Parting, At
  <2>4. ASSUME NEW b \in BlocksOf(c), b \notin InPool
        PROVE  (\E a \in Arena : block[a] = b) \/ (\E p \in live : p.b = b)
    <3>1. b \in Blocks /\ Used(b)
      BY <2>3, <2>4, BlockFacts DEF Used
    <3>2. ref[b] = Holders(b) /\ ref[b] # 0
      BY <2>2, <3>1 DEF MallocInv, Counting, Wipes, At
    <3>3. FreesOf(b) = {}
      BY <2>2 DEF FreesOf, Frees, At
    <3>4. PiecesIn(b) # {} \/ ArenasOn(b) # {}
      <4>1. Cardinality({}) = 0
        BY FS_EmptySet
      <4>2. QED
        BY <3>2, <3>3, <4>1 DEF Holders
    <3>5. Returned = {}
      BY <2>2 DEF Returned
    <3>6. QED
      BY <3>4, <3>5 DEF PiecesIn, Held, ArenasOn
  <2>5. ~ BlocksOf(c) \subseteq InPool
    <3>1. Cardinality(BlocksOut(c)) >= 1
      BY <2>3 DEF MallocInv, Counting
    <3>2. BlocksOut(c) # {}
      BY <3>1, FS_EmptySet
    <3>3. QED
      BY <3>2 DEF BlocksOut
  <2>6. QED
    BY <2>4, <2>5
<1>6. QED
  BY <1>1, <1>2, <1>3, <1>4, <1>5 DEF MemorySound

\* The invariant of the allocator.
LEMMA MallocHolds == ASSUME MallocBounds PROVE Spec => []MallocInv
<1>1. Init => MallocInv
  BY MallocInit
<1>2. MallocInv /\ [Next]_vars => MallocInv'
  BY MallocStep
<1>3. QED
  BY <1>1, <1>2, PTL DEF Spec

\* fio_malloc and fio_free, in any number of threads at once: no slice is in two
\* pieces, every piece is whole, in a block that nobody else takes, and wiped when it
\* is given out; a block that is worked on is not in the pool; and when nobody is at
\* work no block is lost and no unused chunk is kept.
THEOREM MallocMemorySound == ASSUME MallocBounds PROVE Spec => []MemorySound
<1>1. MallocInv => MemorySound
  BY MallocSound
<1>2. QED
  BY <1>1, MallocHolds, PTL
=============================================================================
