----------------------------- MODULE ConnLease -----------------------------
(***************************************************************************)
(* What the connection pool of src/db_postgres.h promises to db_exec: a    *)
(* thread that is granted a connection owns it until it gives it back, and *)
(* no connection is owned twice.  How the pool finds a free connection is  *)
(* left to ConnPool, which implements this specification.                  *)
(***************************************************************************)
EXTENDS Integers

CONSTANTS Threads,   \* the threads that call db_exec
          Conn,      \* the connections of the pool
          NoConn     \* what a thread without a connection holds

VARIABLE lease       \* lease[t]: the connection thread t owns, or NoConn

Init == lease = [t \in Threads |-> NoConn]

\* The connections no thread owns.
Free == {c \in Conn : \A t \in Threads : lease[t] # c}

Grant(t) ==
  /\ lease[t] = NoConn
  /\ \E c \in Free : lease' = [lease EXCEPT ![t] = c]

GiveBack(t) ==
  /\ lease[t] # NoConn
  /\ lease' = [lease EXCEPT ![t] = NoConn]

Next == \E t \in Threads : Grant(t) \/ GiveBack(t)

Spec == Init /\ [][Next]_lease
=============================================================================
