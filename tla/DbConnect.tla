----------------------------- MODULE DbConnect -----------------------------
(***************************************************************************)
(* The start of a server process up to the first request: db_create,       *)
(* db_connect and the loop of main (src/main.c) that polls db_stat until   *)
(* every connection is up or one of them has failed, when the process      *)
(* exits and docker starts it again.                                       *)
(*                                                                         *)
(* libpq is external: status[s] is what PQconnectPoll says of the          *)
(* connection in slot s.  Once it is "ok" it stays so, PQconnectPoll does  *)
(* not look at the socket again.                                           *)
(***************************************************************************)
EXTENDS Integers

CONSTANTS
  ConnectionsCount,   \* SERVER_DB_CONNS
  MaxOutages,         \* bound: how often the database stops accepting
  MaxNulls            \* bound: how often PQconnectStartParams returns NULL

Slots == 0..(ConnectionsCount - 1)

VARIABLES
  server,        \* does the database accept connections?
  pc,            \* where main is
  state,         \* db->state
  made,          \* db->context.connections is not NULL
  connections,   \* what is in each slot, and whether it has been freed
  status,        \* libpq: how far the connection in the slot has come
  i,             \* the loop variable of db_connect and of db_stat
  all_ok,        \* the local of db_stat
  outages, nulls \* what the bounds count

vars == <<server, pc, state, made, connections, status, i, all_ok, outages, nulls>>
local == <<made, connections, status, i, all_ok>>
world == <<server, outages, nulls>>

(***************************************************************************)
(* create   before db_create           destroy  about to exit(1)           *)
(* connect  before PQconnectdbParams   exited   the container is down      *)
(* start    in the loop that starts the other connections                  *)
(* poll     in db_stat                 serving  past the loop of main      *)
(***************************************************************************)
PC == {"create", "connect", "start", "poll", "destroy", "exited", "serving"}

TypeOK ==
  /\ server \in BOOLEAN
  /\ pc \in PC
  /\ state \in {"not_connected", "connecting", "connected", "failed_connection"}
  /\ made \in BOOLEAN
  /\ connections \in [Slots -> {"null", "live", "freed", "freed_twice"}]
  /\ status \in [Slots -> {"none", "pending", "ok", "failed"}]
  /\ i \in 0..ConnectionsCount
  /\ all_ok \in BOOLEAN
  /\ outages \in 0..MaxOutages
  /\ nulls \in 0..MaxNulls

Fresh ==
  /\ state = "not_connected"
  /\ made = FALSE
  /\ connections = [s \in Slots |-> "null"]
  /\ status = [s \in Slots |-> "none"]
  /\ i = 0
  /\ all_ok = TRUE

Init == server = TRUE /\ outages = 0 /\ nulls = 0 /\ pc = "create" /\ Fresh

\* PQfinish: a null pointer is ignored.
PQfinish(conn) ==
  CASE conn = "null" -> "null"
    [] conn = "live" -> "freed"
    [] OTHER -> "freed_twice"

\* db_create: the environment is there, the object is empty.
Create ==
  /\ pc = "create"
  /\ pc' = "connect"
  /\ UNCHANGED <<world, state, local>>

\* db_connect up to the test of the first, synchronous connection.
ConnectFails ==
  /\ pc = "connect"
  /\ ~server
  /\ state' = "failed_connection"
  /\ pc' = "poll"
  /\ UNCHANGED <<world, local>>

ConnectFirst ==
  /\ pc = "connect"
  /\ server
  /\ made' = TRUE
  /\ connections' = [connections EXCEPT ![0] = "live"]
  /\ status' = [status EXCEPT ![0] = "ok"]
  /\ i' = 1
  /\ pc' = "start"
  /\ UNCHANGED <<world, state, all_ok>>

\* The loop that starts the others, one turn.
StartNext ==
  /\ pc = "start"
  /\ i < ConnectionsCount
  /\ connections' = [connections EXCEPT ![i] = "live"]
  /\ status' = [status EXCEPT ![i] = "pending"]
  /\ i' = i + 1
  /\ UNCHANGED <<world, pc, state, made, all_ok>>

\* Mutant: the loop frees what it was meant to, and db_destroy does so again.
FreeMade_Made(n) == [s \in Slots |-> IF s < n THEN PQfinish(connections[s]) ELSE connections[s]]

\* The loop that should free the connections made before the n-th: each turn
\* frees connections[n], which is the null one.
FreeMade(n) == [connections EXCEPT ![n] = PQfinish(@)]

StartNull ==
  /\ pc = "start"
  /\ i < ConnectionsCount
  /\ nulls < MaxNulls
  /\ nulls' = nulls + 1
  /\ connections' = FreeMade(i)
  /\ state' = "failed_connection"
  /\ i' = 0
  /\ pc' = "poll"
  /\ UNCHANGED <<server, outages, made, status, all_ok>>

StartDone ==
  /\ pc = "start"
  /\ i = ConnectionsCount
  /\ state' = "connecting"
  /\ i' = 0
  /\ pc' = "poll"
  /\ UNCHANGED <<world, made, connections, status, all_ok>>

\* db_stat finds no array, or a null slot: main exits.
PollNull ==
  /\ pc = "poll"
  /\ ~made \/ (i < ConnectionsCount /\ connections[i] = "null")
  /\ pc' = "destroy"
  /\ UNCHANGED <<world, state, local>>

\* Mutant: a failed connection is polled for ever.
PollFailed_GoesOn ==
  /\ pc = "poll"
  /\ made /\ i < ConnectionsCount
  /\ connections[i] # "null" /\ status[i] = "failed"
  /\ i' = i + 1
  /\ all_ok' = FALSE
  /\ UNCHANGED <<world, pc, state, made, connections, status>>

PollFailed ==
  /\ pc = "poll"
  /\ made /\ i < ConnectionsCount
  /\ connections[i] # "null" /\ status[i] = "failed"
  /\ state' = "failed_connection"
  /\ pc' = "destroy"
  /\ UNCHANGED <<world, local>>

\* Mutant: a connection that is still on its way counts as up.
PollSlot_Hasty ==
  /\ pc = "poll"
  /\ made /\ i < ConnectionsCount
  /\ connections[i] # "null" /\ status[i] \in {"ok", "pending"}
  /\ i' = i + 1
  /\ UNCHANGED <<world, pc, state, made, connections, status, all_ok>>

\* One turn of the loop of db_stat.
PollSlot ==
  /\ pc = "poll"
  /\ made /\ i < ConnectionsCount
  /\ connections[i] # "null" /\ status[i] \in {"ok", "pending"}
  /\ all_ok' = (all_ok /\ status[i] = "ok")
  /\ i' = i + 1
  /\ UNCHANGED <<world, pc, state, made, connections, status>>

\* Mutant: main waits for the state it started from.
PollAgain_Stuck ==
  /\ pc = "poll"
  /\ i = ConnectionsCount
  /\ i' = 0
  /\ all_ok' = FALSE
  /\ UNCHANGED <<world, pc, state, made, connections, status>>

\* db_stat returns db->state and main asks again.
PollAgain ==
  /\ pc = "poll"
  /\ i = ConnectionsCount /\ ~all_ok
  /\ i' = 0
  /\ all_ok' = TRUE
  /\ UNCHANGED <<world, pc, state, made, connections, status>>

Serve ==
  /\ pc = "poll"
  /\ i = ConnectionsCount /\ all_ok
  /\ state' = "connected"
  /\ pc' = "serving"
  /\ UNCHANGED <<world, local>>

\* db_destroy and exit(1).
Destroy ==
  /\ pc = "destroy"
  /\ connections' = [s \in Slots |-> PQfinish(connections[s])]
  /\ pc' = "exited"
  /\ UNCHANGED <<world, state, made, status, i, all_ok>>

\* restart: always
Restart ==
  /\ pc = "exited"
  /\ pc' = "create"
  /\ state' = "not_connected"
  /\ made' = FALSE
  /\ connections' = [s \in Slots |-> "null"]
  /\ status' = [s \in Slots |-> "none"]
  /\ i' = 0
  /\ all_ok' = TRUE
  /\ UNCHANGED world

\* External: an attempt succeeds while the database accepts and fails while it
\* does not; and the database stops accepting and comes back.
Decide(s) ==
  /\ connections[s] = "live" /\ status[s] = "pending"
  /\ status' = [status EXCEPT ![s] = IF server THEN "ok" ELSE "failed"]
  /\ UNCHANGED <<world, pc, state, made, connections, i, all_ok>>

Outage ==
  /\ server /\ outages < MaxOutages
  /\ server' = FALSE
  /\ outages' = outages + 1
  /\ UNCHANGED <<nulls, pc, state, local>>

Recover ==
  /\ ~server
  /\ server' = TRUE
  /\ UNCHANGED <<outages, nulls, pc, state, local>>

Main == \/ Create \/ ConnectFails \/ ConnectFirst
        \/ StartNext \/ StartNull \/ StartDone
        \/ PollNull \/ PollFailed \/ PollSlot \/ PollAgain \/ Serve
        \/ Destroy \/ Restart

Next == Main \/ (\E s \in Slots : Decide(s)) \/ Outage \/ Recover

\* The process runs and docker restarts it; libpq decides every attempt while
\* the database is as it is.  The database owes nothing.
Spec == Init /\ [][Next]_vars
Fairness == WF_vars(Main) /\ WF_vars(\E s \in Slots : Decide(s))
FairSpec == Spec /\ Fairness

-----------------------------------------------------------------------------
\* main serves only when the connection of every slot is made and up: no slot
\* is skipped by an early return or by the verdict of an earlier round.
ServesWhenAllUp ==
  pc = "serving" =>
    /\ state = "connected"
    /\ \A s \in Slots : connections[s] = "live" /\ status[s] = "ok"

\* Along every way out no connection is freed twice, polled after it was
\* freed, or left behind by the exit.
FreedOnce ==
  /\ \A s \in Slots : connections[s] # "freed_twice"
  /\ pc = "poll" /\ i < ConnectionsCount => connections[i] # "freed"
  /\ pc = "exited" => \A s \in Slots : connections[s] # "live"

\* The loop of main ends: the process serves or exits.
StartDecides == pc = "create" ~> pc \in {"serving", "exited"}

\* When the database is back for good, the server comes up however its
\* earlier starts went.
EventuallyServes == <>[]server => <>(pc = "serving")
=============================================================================
