------------------------------ MODULE Reactor ------------------------------
(* The parts of facil.io's reactor that threads share and that are proved    *)
(* about, and the program's pool with fewer connections than threads. Each   *)
(* part has its variables; two share them when they are one component under  *)
(* two conditions, and part says which. The writes of one connection, and of *)
(* connections that have a descriptor one after the other (reuse); the       *)
(* events of connections, and of those that fio_flush may take for           *)
(* attackers (attacked).                                                     *)
EXTENDS Naturals

CONSTANTS Thread, None,
          Timer, Intervals, Repetitions, MaxTime,
          MaxWrites,      \* bound on the packets of the connection that is alone
          MaxConn,        \* bound on the connections of a descriptor
          MaxWritesEach,  \* and on the packets of each
          Hangups,
          MaxProtocols,   \* bound on the connections with events
          MaxAttackers,   \* and on those that may be taken for attackers
          MaxForced, UserTasks,
          Arena, Mapping, PerChunk, Slices, Sizes, MaxPieces,
          Borrower, PoolLength, PoolRetry, Wild,
          Job, Block, StaticBlock, BlockLength

VARIABLES part,
          timers, deferred, running, timer, last_cycle, clock, runs, finished, refused, phase,
          fd, sock_lock, sock, gone, conns, uuid, ready, awaited, io, written, delivered, promised,
          mistaken,
          fd_data, peer, polled, protocol_lock, locks, waiting, where, attached, closed, forced, posted,
          suspended,
          mapped, root_ref, ref, pos, pool, block, arena_lock, dirty, live, place,
          pooled, available, lock, turn, retries, conn,
          tasks, write, read, next, state, reader, writer, owned

Times == INSTANCE Timers
Writes == INSTANCE Socket WITH MaxConn <- 1, armed <- awaited, pc <- io
Reuse == INSTANCE Socket WITH MaxWrites <- MaxWritesEach, armed <- awaited, pc <- io
Events == INSTANCE Connection WITH
            MaxConn <- MaxProtocols, Suspends <- FALSE, Slowloris <- FALSE,
            fd <- fd_data, sock <- peer, armed <- polled, queue <- waiting, pc <- where, conns <- attached,
            tasks <- posted
Attacked == INSTANCE Connection WITH
              MaxConn <- MaxAttackers, Suspends <- TRUE, Slowloris <- TRUE,
              fd <- fd_data, sock <- peer, armed <- polled, queue <- waiting, pc <- where, conns <- attached,
              tasks <- posted
Memory == INSTANCE Malloc WITH
            Chunk <- Mapping, available <- pool, lock <- arena_lock, pc <- place
Pool == INSTANCE ConnPool WITH
          Threads <- Borrower, ConnectionsCount <- PoolLength, NULL <- None,
          connections <- pooled, pc <- turn

Queue == INSTANCE DeferQueue WITH N <- BlockLength, Null <- None, Task <- Job

queueVars == <<tasks, write, read, next, state, reader, writer, owned>>
timerVars == <<timers, deferred, running, timer, last_cycle, clock, runs, finished, refused, phase>>
socketVars == <<fd, sock_lock, sock, gone, conns, uuid, ready, awaited, io, written, delivered,
                promised, mistaken>>
connVars == <<fd_data, peer, polled, protocol_lock, locks, waiting, where, attached, closed, forced,
              posted, suspended>>
memoryVars == <<mapped, root_ref, ref, pos, pool, block, arena_lock, dirty, live, place>>
poolVars == <<pooled, available, lock, turn, retries, conn>>

----------------------------------------------------------------------------
\* Tasks leave a queue in the order they came, whatever blocks they pass through.
Promise == INSTANCE Fifo WITH
             queue <- IF part = "queue" THEN Queue!Contents ELSE <<>>, Task <- Job
ImplementsFifo == Promise!Spec

\* fio_defer_push_task_fn and fio_defer_pop_task leave no block in use that is freed
\* and none lost, and fio_defer_has_queue overlooks only what it may; the list of
\* fio_timer_add_order is in order, fio_timer_schedule queues nothing that is not due,
\* and no timer is in two places at once (DeferQueue, Timers).
TasksSound ==
    /\ part = "queue" => Queue!TypeOK /\ Queue!BlocksOwned /\ Queue!HasQueueTells
    /\ part = "timers" => Times!TypeOK /\ Times!OnePlace /\ Times!InOrder /\ Times!NotEarly

\* fio_malloc gives each piece to one user and wiped, takes a block again only when no
\* piece of it is left, and loses no block (Malloc).
MemorySound == Memory!MemorySound

\* A timer of fio_run_every runs as often as asked (Timers).
RunsAsAsked == Times!RunsAsAsked

\* fio_write2_fn, fio_flush and fio_close: packets go out in order and without a gap,
\* to another connection only if a call for an earlier one has struck theirs, and all
\* that was written before a close is sent (Socket).
BytesInOrder == IF part = "reuse" THEN Reuse!BytesInOrder ELSE Writes!BytesInOrder

\* What a flush leaves has a flush to come, and data that has arrived an event, also
\* while the scheduled flag is off, unless the peer is gone or the connection marked for
\* closing, whose packets or data are left (Socket, Connection).
NothingForgotten ==
    /\ IF part = "reuse" THEN Reuse!FlushOnItsWay ELSE Writes!FlushOnItsWay
    /\ IF part = "attacked" THEN Attacked!DataOnItsWay ELSE Events!DataOnItsWay

\* protocol_try_lock keeps callbacks of a kind apart, and on_close comes once, last
\* and alone, as long as fio_flush does not take the client for an attacker: that
\* branch does not ask for the lock (Connection). No two threads have the same
\* connection to the database, also when some get none (ConnPool).
UsedByOne ==
    /\ IF part = "attacked" THEN Attacked!UsedByOne ELSE Events!UsedByOne
    /\ Pool!TypeOK /\ Pool!NoSharedConn
=============================================================================
