------------------------------ MODULE ConnPool ------------------------------
(***************************************************************************)
(* The pool of database connections: db_exec (src/db.c) borrows one with   *)
(* db_request_conn_postgres, runs its statement and gives it back with     *)
(* db_return_conn_postgres (src/db_postgres.h).                            *)
(*                                                                         *)
(* The pool is an array used as a stack: connections[i] is free for every  *)
(* i >= available.  Both functions test `available' before they take the   *)
(* mutex and do not test it again under it, so several threads can pass    *)
(* the test on the last free slot.  The array is not checked: an index     *)
(* past its end reaches the words the allocator put there, which are       *)
(* either zero or something that is not a connection (Wild), and a store   *)
(* there stays there.                                                      *)
(*                                                                         *)
(* db->state is `connected' throughout: main only serves requests once     *)
(* db_stat has said so and nothing assigns it afterwards.                  *)
(***************************************************************************)
EXTENDS Integers, FiniteSets

CONSTANTS
  Threads,            \* the threads that run request handlers
  ConnectionsCount,   \* SERVER_DB_CONNS, the length of the array
  PoolRetry,          \* DB_CONN_POOL_RETRY
  NULL,               \* a null pointer; also the free state of the mutex
  Wild                \* a pointer that is not a connection

ASSUME PoolAssumption ==
  /\ IsFiniteSet(Threads)
  /\ ConnectionsCount \in Nat \ {0}
  /\ PoolRetry \in Nat \ {0}
  /\ NULL \notin Threads
  /\ NULL \notin Nat
  /\ Wild \notin Nat
  /\ Wild # NULL

\* The connections, named by the slot db_connect put them in.
Conn == 0..(ConnectionsCount - 1)

\* A connection for every thread, as docker-compose.yml gives each server.
Provisioned == Cardinality(Threads) <= ConnectionsCount

\* The array and the words after it an index can reach.
Words == 0..(ConnectionsCount + Cardinality(Threads) - 1)

VARIABLES
  connections,   \* the words at db->context.connections
  available,     \* db->context.available_connection
  lock,          \* owner of db->context.connections_lock, or NULL
  pc,            \* where thread t is in db_exec
  retries,       \* the local of db_exec
  conn           \* the local of db_exec: the connection thread t borrowed

vars == <<connections, available, lock, pc, retries, conn>>

(***************************************************************************)
(* idle    outside db_exec            run      in PQexec                   *)
(* check   unlocked test of a request leave    unlocked test of a return   *)
(* lock    waiting for the mutex      relock   waiting for the mutex       *)
(* read    about to read the slot     dec      about to decrement          *)
(* inc     about to increment         store    about to store the slot     *)
(* refused db_exec gave up            dead     the process was killed      *)
(***************************************************************************)
PC == {"idle", "check", "lock", "read", "inc", "run", "leave", "relock",
       "dec", "store", "refused", "dead"}

Init ==
  /\ connections \in [Words -> Conn \cup {NULL, Wild}]
  /\ \A i \in Words : IF i \in Conn THEN connections[i] = i
                                    ELSE connections[i] \in {NULL, Wild}
  /\ available = 0
  /\ lock = NULL
  /\ pc = [t \in Threads |-> "idle"]
  /\ retries = [t \in Threads |-> 0]
  /\ conn = [t \in Threads |-> NULL]

Goto(t, l) == pc' = [pc EXCEPT ![t] = l]

\* Mutant: one turn of the loop too many.
Enter_OneMore(t) ==
  /\ pc[t] \in {"idle", "refused"}
  /\ Goto(t, "check")
  /\ retries' = [retries EXCEPT ![t] = PoolRetry + 1]
  /\ conn' = [conn EXCEPT ![t] = NULL]
  /\ UNCHANGED <<connections, available, lock>>

\* db_exec is called.
Enter(t) ==
  /\ pc[t] \in {"idle", "refused"}
  /\ Goto(t, "check")
  /\ retries' = [retries EXCEPT ![t] = PoolRetry]
  /\ conn' = [conn EXCEPT ![t] = NULL]
  /\ UNCHANGED <<connections, available, lock>>

\* db_request_conn returned NULL: one retry less, and with none left db_exec
\* returns an error without running the statement.
Retry(t) ==
  /\ retries' = [retries EXCEPT ![t] = @ - 1]
  /\ Goto(t, IF retries[t] = 1 THEN "refused" ELSE "check")

\* The test of db_request_conn_postgres, made without the mutex.
CheckFull(t) ==
  /\ available >= ConnectionsCount
  /\ Retry(t)
  /\ UNCHANGED <<connections, available, lock, conn>>

CheckFree(t) ==
  /\ available < ConnectionsCount
  /\ Goto(t, "lock")
  /\ UNCHANGED <<connections, available, lock, retries, conn>>

Check(t) == pc[t] = "check" /\ (CheckFull(t) \/ CheckFree(t))

\* Mutant: the mutex does not exclude.
Lock_Open(t) ==
  /\ pc[t] \in {"lock", "relock"}
  /\ Goto(t, IF pc[t] = "lock" THEN "read" ELSE "dec")
  /\ UNCHANGED <<connections, available, lock, retries, conn>>

\* pthread_mutex_lock, in either function.
Lock(t) ==
  /\ pc[t] \in {"lock", "relock"}
  /\ lock = NULL
  /\ lock' = t
  /\ Goto(t, IF pc[t] = "lock" THEN "read" ELSE "dec")
  /\ UNCHANGED <<connections, available, retries, conn>>

\* available_connection = conns[db->context.available_connection]
ReadSlot(t) ==
  /\ pc[t] = "read"
  /\ conn' = [conn EXCEPT ![t] = connections[available]]
  /\ Goto(t, "inc")
  /\ UNCHANGED <<connections, available, lock, retries>>

\* available_connection++ and unlock; a null word counts as no connection,
\* and the increment stays.
Increment(t) ==
  /\ pc[t] = "inc"
  /\ available' = available + 1
  /\ lock' = NULL
  /\ IF conn[t] = NULL THEN Retry(t)
                       ELSE Goto(t, "run") /\ UNCHANGED retries
  /\ UNCHANGED <<connections, conn>>

\* db_exec_function_postgres: PQexec on the connection.
Query(t) ==
  /\ conn[t] # Wild
  /\ Goto(t, "leave")
  /\ UNCHANGED <<connections, available, lock, retries, conn>>

\* PQexec on a word that is not a connection ends the process.
Fault(t) ==
  /\ conn[t] = Wild
  /\ pc' = [u \in Threads |-> "dead"]
  /\ UNCHANGED <<connections, available, lock, retries, conn>>

Run(t) == pc[t] = "run" /\ (Query(t) \/ Fault(t))

\* Mutant: db_exec returns without giving the connection back.
Leave_Forgets(t) ==
  /\ pc[t] = "leave"
  /\ Goto(t, "idle")
  /\ UNCHANGED <<connections, available, lock, retries, conn>>

\* The test of db_return_conn_postgres, made without the mutex: with nothing
\* lent it returns, and the connection is not given back.
Leave(t) ==
  /\ pc[t] = "leave"
  /\ Goto(t, IF available = 0 THEN "idle" ELSE "relock")
  /\ UNCHANGED <<connections, available, lock, retries, conn>>

\* Mutant: the index is not decremented.
Decrement_Missing(t) ==
  /\ pc[t] = "dec"
  /\ Goto(t, "store")
  /\ UNCHANGED <<connections, available, lock, retries, conn>>

\* available_connection--
Decrement(t) ==
  /\ pc[t] = "dec"
  /\ available' = available - 1
  /\ Goto(t, "store")
  /\ UNCHANGED <<connections, lock, retries, conn>>

\* Mutant: conns[available_connection--] = conn.
Store_Before(t) ==
  /\ pc[t] = "store"
  /\ connections' = [connections EXCEPT ![available + 1] = conn[t]]
  /\ lock' = NULL
  /\ Goto(t, "idle")
  /\ UNCHANGED <<available, retries, conn>>

\* Mutant: the loop of db_exec runs the statement again.
Store_Again(t) ==
  /\ pc[t] = "store"
  /\ connections' = [connections EXCEPT ![available] = conn[t]]
  /\ lock' = NULL
  /\ Goto(t, "check")
  /\ UNCHANGED <<available, retries, conn>>

\* conns[available_connection] = conn and unlock.
Store(t) ==
  /\ pc[t] = "store"
  /\ connections' = [connections EXCEPT ![available] = conn[t]]
  /\ lock' = NULL
  /\ Goto(t, "idle")
  /\ UNCHANGED <<available, retries, conn>>

Step(t) ==
  \/ Check(t) \/ Lock(t) \/ ReadSlot(t) \/ Increment(t) \/ Run(t)
  \/ Leave(t) \/ Decrement(t) \/ Store(t)

Next == \E t \in Threads : Enter(t) \/ Step(t)

Spec == Init /\ [][Next]_vars

\* Each thread keeps running inside db_exec and PQexec answers; nothing is
\* said of who gets the mutex first, nor of when db_exec is called.
FairSpec == Spec /\ \A t \in Threads : WF_vars(Step(t))

-----------------------------------------------------------------------------
\* One type invariant: every local and every word of the array keeps to what
\* the code can put there.
TypeOK ==
  /\ connections \in [Words -> Conn \cup {NULL, Wild}]
  /\ available \in Nat
  /\ lock \in Threads \cup {NULL}
  /\ pc \in [Threads -> PC]
  /\ retries \in [Threads -> 0..PoolRetry]
  /\ conn \in [Threads -> Conn \cup {NULL, Wild}]

\* The threads that own the connection in their local.
Owns(t) == pc[t] \in {"run", "leave", "relock", "dec", "store"}

\* README.md:85: the queries use one connection for each thread.  A thread
\* that runs a query does so on a connection of the pool, and on one that no
\* other thread is using.
OneConnPerThread ==
  \A t \in Threads : Owns(t) =>
    /\ conn[t] \in Conn
    /\ \A u \in Threads \ {t} : Owns(u) => conn[u] # conn[t]

\* Two threads never use the same connection, even in a pool with fewer
\* connections than threads, where some of them may get none.
NoSharedConn ==
  \A t, u \in Threads :
    t # u /\ Owns(t) /\ Owns(u) /\ conn[t] \in Conn => conn[u] # conn[t]

\* The stack index stays inside the array when a slot is read or written:
\* the unlocked test of db_request_conn_postgres is enough.
IndexInBounds ==
  \A t \in Threads : pc[t] \in {"read", "store"} => available \in Conn

\* No call of db_exec fails for lack of a connection.
NeverRefused == \A t \in Threads : pc[t] # "refused"

\* The early return of db_return_conn_postgres, which would drop the
\* connection, is never taken by a thread that owns one.
ConnComesBack ==
  \A t \in Threads : pc[t] \in {"leave", "relock", "dec"} => available > 0

\* With every call ended, the whole pool is free again, each connection in
\* exactly one slot.
PoolWholeAgain ==
  (\A t \in Threads : pc[t] \in {"idle", "refused"}) =>
     /\ available = 0
     /\ {connections[i] : i \in Conn} = Conn

\* The callers never wedge on the mutex: again and again some thread is out
\* of db_exec.
SomeCallEnds == []<>(\E t \in Threads : pc[t] \in {"idle", "refused"})

\* The pool grants and takes back connections as ConnLease says.
Lease == INSTANCE ConnLease WITH
           NoConn <- NULL,
           lease  <- [t \in Threads |-> IF Owns(t) THEN conn[t] ELSE NULL]

ImplementsLease == Lease!Spec
=============================================================================
