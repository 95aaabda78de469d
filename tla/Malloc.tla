------------------------------ MODULE Malloc ------------------------------
(* The allocator of src/facil.io/fio.c, from which come the requests, their  *)
(* headers and the packets of the answers. The system gives chunks of blocks;*)
(* an arena slices the block it owns front to back, under the arena's lock;  *)
(* a block is wiped and used again when all its pieces are free. fio_free    *)
(* takes no arena's lock: only the counters of a block and of its chunk say  *)
(* who is the last. What memory.lock guards is one action.                   *)
EXTENDS Integers, Sequences, FiniteSets, SequencesExt

CONSTANTS Thread, Arena,
          Chunk,      \* mappings the system can give
          PerChunk,   \* FIO_MEMORY_BLOCKS_PER_ALLOCATION
          Slices,     \* FIO_MEMORY_MAX_SLICES_PER_BLOCK, from the start position on
          Sizes,      \* the slices asked for
          MaxPieces,  \* bound on the pieces in use
          None

Blocks == Chunk \X (0..PerChunk - 1)
Root(c) == <<c, 0>>
BlocksOf(c) == {c} \X (0..PerChunk - 1)

VARIABLES
    mapped,    \* chunks the process has
    root_ref,  \* of each chunk: its blocks that are not in the pool
    ref, pos,  \* of each block: its pieces and its arena; the next free slice
    available, \* memory.available, the pool of blocks
    block,     \* the block of each arena
    lock,      \* the thread that has each arena
    dirty,     \* slices with something written in them
    live,      \* pieces the program has
    pc         \* where each thread is in fio_malloc or fio_free

vars == <<mapped, root_ref, ref, pos, available, block, lock, dirty, live, pc>>

Piece(b, at, n) == [b |-> b, at |-> at, n |-> n]
SlicesOf(p) == {<<p.b, i>> : i \in p.at..p.at + p.n - 1}
NoPiece == Piece(None, 0, 0)

\* arena: the thread's; n: slices it asks for; b: the block it gives up, and where it
\* goes on then; mem: what it will return.
Idle == [at |-> "idle", arena |-> None, n |-> 0, b |-> None, then |-> "idle", mem |-> NoPiece]

Init ==
    /\ mapped = {} /\ available = <<>>
    /\ root_ref = [c \in Chunk |-> 0]
    /\ ref = [b \in Blocks |-> 0] /\ pos = [b \in Blocks |-> 0]
    /\ block = [a \in Arena |-> None] /\ lock = [a \in Arena |-> None]
    /\ dirty = {} /\ live = {}
    /\ pc = [t \in Thread |-> Idle]

At(t, at) == pc[t].at = at
Goto(t, at) == pc' = [pc EXCEPT ![t].at = at]
Mine(t) == block[pc[t].arena]

----------------------------------------------------------------------------
Fits_PastEnd(b, n) == pos[b] < Slices
Fits(b, n) == pos[b] + n <= Slices

\* fio_malloc: arena_lock gets the thread's last arena, or one that is unlocked when
\* it looks. block_slice finds no block there, one with too little room, which is
\* given up for another, or one that will do.
Malloc(t, n) ==
    /\ pc[t] = Idle /\ Cardinality(live) < MaxPieces
    /\ \E a \in Arena :
        LET asks == [Idle EXCEPT !.arena = a, !.n = n] IN
        /\ lock[a] = None
        /\ lock' = [lock EXCEPT ![a] = t]
        /\ pc' = [pc EXCEPT ![t] =
                    IF block[a] = None THEN [asks EXCEPT !.at = "new"]
                    ELSE IF Fits(block[a], n) THEN [asks EXCEPT !.at = "take"]
                    ELSE [asks EXCEPT !.at = "unref", !.b = block[a], !.then = "new"]]
    /\ UNCHANGED <<mapped, root_ref, ref, pos, available, block, dirty, live>>

\* block_new: the last block that came to the pool,
Counted_Not(c) == root_ref
Counted(c) == [root_ref EXCEPT ![c] = @ + 1]

NewFromPool(t) ==
    LET b == Last(available) IN
    /\ At(t, "new") /\ available # <<>>
    /\ available' = Front(available)
    /\ ref' = [ref EXCEPT ![b] = 1] /\ pos' = [pos EXCEPT ![b] = 0]
    /\ root_ref' = Counted(b[1])
    /\ block' = [block EXCEPT ![pc[t].arena] = b]
    /\ Goto(t, "take")
    /\ UNCHANGED <<mapped, lock, dirty, live>>

\* or the first of a new chunk, whose others go to the pool. (Without memory left the
\* callers abort the process.)
NewFromSystem(t) == \E c \in Chunk \ mapped :
    /\ At(t, "new") /\ available = <<>>
    /\ mapped' = mapped \union {c}
    /\ available' = [i \in 1..PerChunk - 1 |-> <<c, i>>]
    /\ ref' = [b \in Blocks |-> IF b[1] = c THEN 1 ELSE ref[b]]
    /\ pos' = [b \in Blocks |-> IF b[1] = c THEN 0 ELSE pos[b]]
    /\ root_ref' = [root_ref EXCEPT ![c] = 1]
    /\ block' = [block EXCEPT ![pc[t].arena] = Root(c)]
    /\ Goto(t, "take")
    /\ UNCHANGED <<lock, dirty, live>>

\* The piece is counted and cut off; a block that is full leaves its arena.
Take(t) ==
    LET b == Mine(t)  upto == pos[b] + pc[t].n
        cut == [pc[t] EXCEPT !.mem = Piece(b, pos[b], pc[t].n)]
    IN  /\ At(t, "take")
        /\ ref' = [ref EXCEPT ![b] = @ + 1]
        /\ pos' = [pos EXCEPT ![b] = upto]
        /\ pc' = [pc EXCEPT ![t] = IF upto >= Slices
                                     THEN [cut EXCEPT !.at = "unref", !.b = b, !.then = "empty"]
                                     ELSE [cut EXCEPT !.at = "exit"]]
        /\ UNCHANGED <<mapped, root_ref, available, block, lock, dirty, live>>

Empty(t) ==
    /\ At(t, "empty")
    /\ block' = [block EXCEPT ![pc[t].arena] = None]
    /\ Goto(t, "exit")
    /\ UNCHANGED <<mapped, root_ref, ref, pos, available, lock, dirty, live>>

\* arena_exit; the program writes in all of its piece.
Exit(t) ==
    /\ At(t, "exit")
    /\ lock' = [lock EXCEPT ![pc[t].arena] = None]
    /\ live' = live \union {pc[t].mem}
    /\ dirty' = dirty \union SlicesOf(pc[t].mem)
    /\ pc' = [pc EXCEPT ![t] = Idle]
    /\ UNCHANGED <<mapped, root_ref, ref, pos, available, block>>

----------------------------------------------------------------------------
\* fio_free, by any thread.
FreePiece(t, p) ==
    /\ pc[t] = Idle /\ p \in live
    /\ live' = live \ {p}
    /\ pc' = [pc EXCEPT ![t].at = "unref", ![t].b = p.b]
    /\ UNCHANGED <<mapped, root_ref, ref, pos, available, block, lock, dirty>>

\* block_free: who counts a block down to nothing wipes it,
GoesOn(t, r) == [pc EXCEPT ![t] = IF r.then = "idle" THEN Idle
                                  ELSE [r EXCEPT !.at = r.then, !.b = None]]

Unref(t) ==
    LET b == pc[t].b IN
    /\ At(t, "unref")
    /\ ref' = [ref EXCEPT ![b] = @ - 1]
    /\ IF ref[b] = 1 THEN Goto(t, "wipe") ELSE pc' = GoesOn(t, pc[t])
    /\ UNCHANGED <<mapped, root_ref, pos, available, block, lock, dirty, live>>

Wiped_Used(b) == {<<b, i>> : i \in 0..pos[b] - 2}
Wiped(b) == {<<b, i>> : i \in 0..Slices - 1}

Wipe(t) ==
    /\ At(t, "wipe")
    /\ dirty' = dirty \ Wiped(pc[t].b)
    /\ Goto(t, "pool")
    /\ UNCHANGED <<mapped, root_ref, ref, pos, available, block, lock, live>>

\* What is left of the pool, in its order, without the blocks of a chunk.
Without(pool, c) ==
    LET kept == {x \in Range(pool) : x[1] # c} IN
    {rest \in [1..Cardinality(kept) -> kept] :
        /\ Range(rest) = kept /\ IsInjective(rest)
        /\ \A i, j \in DOMAIN rest : i < j =>
              \E m, n \in DOMAIN pool : m < n /\ rest[i] = pool[m] /\ rest[j] = pool[n]}

\* puts it in the pool and takes all blocks of its chunk out again when none is used,
PutInPool(t) ==
    LET b == pc[t].b  pool == Append(available, b)  c == b[1] IN
    /\ At(t, "pool")
    /\ root_ref' = [root_ref EXCEPT ![c] = @ - 1]
    /\ IF root_ref[c] = 1
         THEN available' \in Without(pool, c) /\ Goto(t, "unmap")
         ELSE available' = pool /\ pc' = GoesOn(t, pc[t])
    /\ UNCHANGED <<mapped, ref, pos, block, lock, dirty, live>>

\* and gives the chunk back to the system.
Unmap(t) ==
    /\ At(t, "unmap")
    /\ mapped' = mapped \ {pc[t].b[1]}
    /\ pc' = GoesOn(t, pc[t])
    /\ UNCHANGED <<root_ref, ref, pos, available, block, lock, dirty, live>>

----------------------------------------------------------------------------
Step(t) ==
    \/ NewFromPool(t) \/ NewFromSystem(t) \/ Take(t) \/ Empty(t) \/ Exit(t)
    \/ Unref(t) \/ Wipe(t) \/ PutInPool(t) \/ Unmap(t)

Next == \E t \in Thread :
    Step(t) \/ (\E n \in Sizes : Malloc(t, n)) \/ (\E p \in live : FreePiece(t, p))
Spec == Init /\ [][Next]_vars

----------------------------------------------------------------------------
InPool == Range(available)
Returned == {pc[t].mem : t \in Thread} \ {NoPiece}

TypeOK ==
    /\ mapped \subseteq Chunk /\ InPool \subseteq Blocks /\ IsInjective(available)
    /\ \A b \in Blocks : ref[b] \in Nat /\ pos[b] \in 0..Slices
    /\ \A a \in Arena : block[a] \in Blocks \union {None} /\ lock[a] \in Thread \union {None}
    /\ \A p \in live \union Returned : p.b \in Blocks /\ p.n \in Sizes

\* No slice is in two pieces, and no piece is past its block's end, in a block that an
\* arena can slice again, in the pool, or in a chunk that is given back.
PiecesApart ==
    \A p \in live \union Returned :
        /\ \A q \in (live \union Returned) \ {p} : SlicesOf(p) \intersect SlicesOf(q) = {}
        /\ p.at + p.n <= pos[p.b] /\ pos[p.b] <= Slices
        /\ p.b \notin InPool /\ p.b[1] \in mapped

\* A block that an arena or a thread still works on is neither in the pool nor in a
\* chunk that is given back, and belongs to no other arena.
BlocksKept ==
    /\ \A t \in Thread : At(t, "take") => Mine(t) \notin InPool /\ Mine(t)[1] \in mapped
    /\ \A t \in Thread : At(t, "unref") \/ At(t, "wipe") \/ At(t, "pool")
                           => pc[t].b \notin InPool /\ pc[t].b[1] \in mapped
    /\ \A a, d \in Arena : a # d /\ {lock[a], lock[d]} = {None} /\ block[a] # None => block[a] # block[d]
    /\ \A b \in InPool : b[1] \in mapped

\* fio_calloc: "memory is pre-initialized by mmap or pool."
ComesZeroed == \A t \in Thread : At(t, "exit") => SlicesOf(pc[t].mem) \intersect dirty = {}

\* Nothing is lost: at rest every block of a chunk is in the pool, in an arena or has a
\* piece in use, and a chunk that nobody uses has been given back.
NothingLost ==
    (\A t \in Thread : pc[t] = Idle) =>
        \A c \in mapped :
            /\ \A b \in BlocksOf(c) :
                  b \in InPool \/ (\E a \in Arena : block[a] = b) \/ (\E p \in live : p.b = b)
            /\ ~ BlocksOf(c) \subseteq InPool

\* All of this together: what fio_malloc and fio_free promise their callers.
MemorySound == TypeOK /\ PiecesApart /\ BlocksKept /\ ComesZeroed /\ NothingLost
=============================================================================
