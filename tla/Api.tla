-------------------------------- MODULE Api --------------------------------
(***************************************************************************)
(* The request handlers of controllers/cliente.h over the balances cached  *)
(* by models/cliente.h and the two tables of init.sql.                     *)
(*                                                                         *)
(* A balance lives in the memory of the process that nginx sends its       *)
(* client to.  A transaction changes the cached balance under the mutex    *)
(* and is inserted in the table afterwards; a statement reads the rows,    *)
(* then the cached balance, and writes that balance to the database.  So   *)
(* the balance in the database is the one of the last statement, and the   *)
(* cache is read from it when a server starts.                             *)
(*                                                                         *)
(* A statement sent to PostgreSQL may fail (no connection in the pool, an  *)
(* error); the handlers print the message and go on.  A server may be      *)
(* killed and is started again; what it had sent may still be executed.    *)
(***************************************************************************)
EXTENDS Integers, FiniteSets, FiniteSetsExt

CONSTANTS
  Servers,        \* api1 and api2
  Procs,          \* the processes that serve requests
  Threads,        \* their handler threads
  ServerOf,       \* ServerOf[p]: the server process p is a worker of
  ProcOf,         \* ProcOf[t]: the process of thread t
  Clientes,       \* the ids 1..5
  Unknown,        \* any other id
  Limite,         \* Limite[c]: the limit of client c
  Upstream,       \* Upstream[c]: the server nginx sends requests of c to
  Valores,        \* the amounts that requests carry
  INT64_MIN,      \* what clientes_debitar returns for a debit it refuses
  NULL,           \* the mutex is free
  ExtratoLimit,   \* the rows a statement shows
  BootMayFail,    \* the read of clientes_init may fail
  MaxRequests, MaxFailures, MaxCrashes   \* bounds of a run

ASSUME ApiAssumption ==
  /\ IsFiniteSet(Threads)
  /\ ServerOf \in [Procs -> Servers]
  /\ ProcOf \in [Threads -> Procs]
  /\ Limite \in [Clientes -> Nat]
  /\ Upstream \in [Clientes -> Servers]
  /\ Unknown \notin Clientes
  /\ Valores \subseteq Int
  /\ INT64_MIN \notin Int
  /\ NULL \notin Threads
  /\ ExtratoLimit \in Nat
  /\ BootMayFail \in BOOLEAN
  /\ {MaxRequests, MaxFailures, MaxCrashes} \subseteq Nat

VARIABLES
  up,           \* the servers that are up
  cache,        \* cache[p][c]: ctx.clientes.cliente[c] of process p
  lock,         \* lock[p]: the owner of clientes_lock, or NULL
  pc,           \* where thread t is in its handler
  req,          \* the request of thread t, with the number tx it came as
  status,       \* the status thread t will answer with
  saldo,        \* the local saldo of post_transa, c.saldo of get_extrato
  lista,        \* the rows get_extrato has read
  stamp,        \* realizada_em of the row being inserted
  clientes,     \* the table clientes: the saldo of each client
  transacoes,   \* the table transacoes
  relogio,      \* the clock of the database
  orphans,      \* statements sent by a process that was killed
  served, failures, crashes,   \* how much of each bound is used
  booked,       \* history: the movements in cache[p][c].saldo
  covers,       \* history: the movements in the saldo thread t has read
  saved,        \* history: the movements in clientes[c]
  answered,     \* history: the transactions answered with 200
  must          \* history: what was answered when the request came

locals == <<pc, req, status, saldo, lista, stamp, covers, must>>
tables == <<clientes, transacoes, relogio, orphans, saved>>
bounds == <<served, failures, crashes>>
vars == <<up, cache, lock, locals, tables, bounds, booked, answered>>

-----------------------------------------------------------------------------
\* What a request can be: a method other than GET and POST, a path whose id
\* is not a client, a body parseTransa rejects, or one of the three calls.
Pedidos == [tipo : {"extrato"}, cliente : Clientes, valor : {0}]
             \cup [tipo : {"c", "d"}, cliente : Clientes, valor : Valores]

Malformed == [tipo : {"other"}, cliente : Clientes, valor : {0}]
               \cup [tipo : {"extrato"}, cliente : {Unknown}, valor : {0}]
               \cup [tipo : {"invalid"}, cliente : Clientes, valor : {0}]

\* Mutant: the id is not tested.
Verdict_AnyId(r) ==
  IF r.tipo = "other" THEN 405 ELSE IF r.tipo = "invalid" THEN 400 ELSE 200

\* The early returns of cliente_request and post_transa, in their order.
Verdict(r) ==
  CASE r.tipo = "other"         -> 405
    [] r.cliente \notin Clientes -> 404
    [] r.tipo = "invalid"       -> 400
    [] OTHER                    -> 200

NoPedido == [tipo |-> "none", cliente |-> Unknown, valor |-> 0, tx |-> 0]

P(t) == ProcOf[t]
C(t) == req[t].cliente

\* What the request of t adds to the balance.
Delta(t) == IF req[t].tipo = "c" THEN req[t].valor ELSE -req[t].valor

Movement(t) == [tx |-> req[t].tx, delta |-> Delta(t)]

RowsOf(c) == {r \in transacoes : r.cliente = c}

\* Mutant: order by realizada_em, oldest first.
Latest_Oldest(c) ==
  {S \in SUBSET RowsOf(c) :
     /\ Cardinality(S) = IF Cardinality(RowsOf(c)) < ExtratoLimit
                           THEN Cardinality(RowsOf(c)) ELSE ExtratoLimit
     /\ \A r \in S, q \in RowsOf(c) \ S : r.stamp <= q.stamp}

\* order by realizada_em desc limit 10; rows of the same instant in any order.
Latest(c) ==
  {S \in SUBSET RowsOf(c) :
     /\ Cardinality(S) = IF Cardinality(RowsOf(c)) < ExtratoLimit
                           THEN Cardinality(RowsOf(c)) ELSE ExtratoLimit
     /\ \A r \in S, q \in RowsOf(c) \ S : r.stamp >= q.stamp}

\* Mutant: one upstream with both servers.
Routed_AnyServer(t, c) == TRUE

\* nginx sends requests of c to the server of t.
Routed(t, c) == c \in Clientes => Upstream[c] = ServerOf[P(t)]

Goto(t, l) == pc' = [pc EXCEPT ![t] = l]

\* The global ctx of a process that has read nothing.
ZeroCache == [c \in Clientes |-> [limite |-> 0, saldo |-> 0]]
NoBooks == [c \in Clientes |-> {}]

\* f with g at the processes of server s.
AtServer(s, f, g) == [p \in Procs |-> IF ServerOf[p] = s THEN g ELSE f[p]]

-----------------------------------------------------------------------------
Init ==
  /\ up = {}
  /\ cache = [p \in Procs |-> ZeroCache]
  /\ lock = [p \in Procs |-> NULL]
  /\ pc = [t \in Threads |-> "idle"]
  /\ req = [t \in Threads |-> NoPedido]
  /\ status = [t \in Threads |-> 200]
  /\ saldo = [t \in Threads |-> 0]
  /\ lista = [t \in Threads |-> {}]
  /\ stamp = [t \in Threads |-> 0]
  /\ clientes = [c \in Clientes |-> 0]
  /\ transacoes = {}
  /\ relogio = 0
  /\ orphans = {}
  /\ served = 0 /\ failures = 0 /\ crashes = 0
  /\ booked = [p \in Procs |-> NoBooks]
  /\ covers = [t \in Threads |-> {}]
  /\ saved = [c \in Clientes |-> {}]
  /\ answered = {}
  /\ must = [t \in Threads |-> {}]

\* Mutant: limite and saldo are read from each other's column.
Boot_Swapped(s) ==
  /\ s \notin up
  /\ up' = up \cup {s}
  /\ cache' = AtServer(s, cache, [c \in Clientes |->
                 [limite |-> clientes[c], saldo |-> Limite[c]]])
  /\ booked' = AtServer(s, booked, saved)
  /\ UNCHANGED <<lock, locals, tables, bounds, answered>>

\* main up to fio_start: clientes_init fills the cache from the database, and
\* the workers are forked with a copy of it.  When the read fails main goes on
\* with the zeros of the global ctx.
Boot(s) ==
  /\ s \notin up
  /\ up' = up \cup {s}
  /\ \/ /\ cache' = AtServer(s, cache, [c \in Clientes |->
                       [limite |-> Limite[c], saldo |-> clientes[c]]])
        /\ booked' = AtServer(s, booked, saved)
     \/ /\ BootMayFail
        /\ cache' = AtServer(s, cache, ZeroCache)
        /\ booked' = AtServer(s, booked, NoBooks)
  /\ UNCHANGED <<lock, locals, tables, bounds, answered>>

\* The transactions of c that have been answered.
AnsweredTo(c) == {a.tx : a \in {b \in answered : b.cliente = c}}

\* cliente_request is called with r, and post_transa as far as parseTransa.
Take(t, r) ==
  /\ Routed(t, r.cliente)
  /\ req' = [req EXCEPT ![t] = [tipo |-> r.tipo, cliente |-> r.cliente,
                                valor |-> r.valor, tx |-> served + 1]]
  /\ status' = [status EXCEPT ![t] = Verdict(r)]
  /\ Goto(t, IF Verdict(r) # 200 THEN "answer"
             ELSE IF r.tipo = "extrato" THEN "rows" ELSE "lock")
  /\ must' = [must EXCEPT ![t] = AnsweredTo(r.cliente)]

Receive(t) ==
  /\ pc[t] = "idle"
  /\ ServerOf[P(t)] \in up
  /\ served < MaxRequests
  /\ \E r \in Pedidos \cup Malformed : Take(t, r)
  /\ served' = served + 1
  /\ UNCHANGED <<up, cache, lock, saldo, lista, stamp, covers, tables,
                 failures, crashes, booked, answered>>

\* Mutant: the mutex does not exclude.
Lock_Open(t) ==
  /\ pc[t] \in {"lock", "getlock"}
  /\ Goto(t, IF pc[t] = "lock" THEN "calc" ELSE "copy")
  /\ UNCHANGED <<up, cache, lock, req, status, saldo, lista, stamp, covers, must,
                 tables, bounds, booked, answered>>

\* pthread_mutex_lock in clientes_get_cached, _creditar and _debitar.
Lock(t) ==
  /\ pc[t] \in {"lock", "getlock"}
  /\ lock[P(t)] = NULL
  /\ lock' = [lock EXCEPT ![P(t)] = t]
  /\ Goto(t, IF pc[t] = "lock" THEN "calc" ELSE "copy")
  /\ UNCHANGED <<up, cache, req, status, saldo, lista, stamp, covers, must,
                 tables, bounds, booked, answered>>

Unlock(t) == lock' = [lock EXCEPT ![P(t)] = NULL]

(***************************************************************************)
(* post_transa                                                             *)
(***************************************************************************)

\* saldo = cliente[id].saldo + valor, or - valor.
Calc(t) ==
  /\ pc[t] = "calc"
  /\ saldo' = [saldo EXCEPT ![t] = cache[P(t)][C(t)].saldo + Delta(t)]
  /\ Goto(t, "store")
  /\ UNCHANGED <<up, cache, lock, req, status, lista, stamp, covers, must,
                 tables, bounds, booked, answered>>

\* Mutant: the balance before the debit is tested.
Accepted_Before(t) ==
  \/ req[t].tipo = "c"
  \/ cache[P(t)][C(t)].saldo > -cache[P(t)][C(t)].limite

\* A credit is always accepted; a debit when it leaves more than -limite.
Accepted(t) ==
  \/ req[t].tipo = "c"
  \/ saldo[t] > -cache[P(t)][C(t)].limite

\* The new balance is written and the mutex released.
Store(t) ==
  /\ pc[t] = "store"
  /\ Accepted(t)
  /\ cache' = [cache EXCEPT ![P(t)][C(t)].saldo = saldo[t]]
  /\ booked' = [booked EXCEPT ![P(t)][C(t)] = @ \cup {Movement(t)}]
  /\ Unlock(t)
  /\ Goto(t, "insert")
  /\ UNCHANGED <<up, req, status, saldo, lista, stamp, covers, must,
                 tables, bounds, answered>>

\* Mutant: post_transa does not return after the error response.
Refuse_GoesOn(t) ==
  /\ pc[t] = "store"
  /\ ~Accepted(t)
  /\ status' = [status EXCEPT ![t] = 422]
  /\ Unlock(t)
  /\ Goto(t, "insert")
  /\ UNCHANGED <<up, cache, req, saldo, lista, stamp, covers, must,
                 tables, bounds, booked, answered>>

\* The debit is refused: INT64_MIN, and post_transa answers 422 and returns.
Refuse(t) ==
  /\ pc[t] = "store"
  /\ ~Accepted(t)
  /\ saldo' = [saldo EXCEPT ![t] = INT64_MIN]
  /\ status' = [status EXCEPT ![t] = 422]
  /\ Unlock(t)
  /\ Goto(t, "answer")
  /\ UNCHANGED <<up, cache, req, lista, stamp, covers, must,
                 tables, bounds, booked, answered>>

\* transa_insert: the procedure transar starts, and now() is its start.
Insert(t) ==
  /\ pc[t] = "insert"
  /\ stamp' = [stamp EXCEPT ![t] = relogio]
  /\ Goto(t, "commit")
  /\ UNCHANGED <<up, cache, lock, req, status, saldo, lista, covers, must,
                 tables, bounds, booked, answered>>

Row(t) == [tx |-> req[t].tx, cliente |-> C(t), delta |-> Delta(t),
           stamp |-> stamp[t]]

\* The row becomes visible; the clock has moved on since it started.
Commit(t) ==
  /\ pc[t] = "commit"
  /\ transacoes' = transacoes \cup {Row(t)}
  /\ relogio' = relogio + 1
  /\ Goto(t, "answer")
  /\ UNCHANGED <<up, cache, lock, req, status, saldo, lista, stamp, covers, must,
                 clientes, orphans, saved, bounds, booked, answered>>

(***************************************************************************)
(* get_extrato                                                             *)
(***************************************************************************)

\* transa_extrato.
Rows(t) ==
  /\ pc[t] = "rows"
  /\ \E S \in Latest(C(t)) : lista' = [lista EXCEPT ![t] = S]
  /\ Goto(t, "getlock")
  /\ UNCHANGED <<up, cache, lock, req, status, saldo, stamp, covers, must,
                 tables, bounds, booked, answered>>

\* Mutant: the total is the balance in the database.
Copy_FromTable(t) ==
  /\ pc[t] = "copy"
  /\ saldo' = [saldo EXCEPT ![t] = clientes[C(t)]]
  /\ covers' = [covers EXCEPT ![t] = saved[C(t)]]
  /\ Unlock(t)
  /\ Goto(t, "update")
  /\ UNCHANGED <<up, cache, req, status, lista, stamp, must,
                 tables, bounds, booked, answered>>

\* clientes_get_cached, with the mutex.
Copy(t) ==
  /\ pc[t] = "copy"
  /\ saldo' = [saldo EXCEPT ![t] = cache[P(t)][C(t)].saldo]
  /\ covers' = [covers EXCEPT ![t] = booked[P(t)][C(t)]]
  /\ Unlock(t)
  /\ Goto(t, "update")
  /\ UNCHANGED <<up, cache, req, status, lista, stamp, must,
                 tables, bounds, booked, answered>>

\* clientes_update.
Update(t) ==
  /\ pc[t] = "update"
  /\ clientes' = [clientes EXCEPT ![C(t)] = saldo[t]]
  /\ saved' = [saved EXCEPT ![C(t)] = covers[t]]
  /\ Goto(t, "answer")
  /\ UNCHANGED <<up, cache, lock, req, status, saldo, lista, stamp, covers, must,
                 transacoes, relogio, orphans, bounds, booked, answered>>

\* Mutant: get_extrato starts over until its statements succeed.
Fail_StartsOver(t) ==
  /\ pc[t] \in {"insert", "rows", "update"}
  /\ failures < MaxFailures
  /\ Goto(t, IF pc[t] = "update" THEN "rows" ELSE
             IF pc[t] = "rows" THEN "getlock" ELSE "answer")
  /\ UNCHANGED <<up, cache, lock, req, status, saldo, lista, stamp, covers, must,
                 tables, bounds, booked, answered>>

\* A statement of either handler fails: without rows, or without effect.
Fail(t) ==
  /\ pc[t] \in {"insert", "rows", "update"}
  /\ failures < MaxFailures
  /\ failures' = failures + 1
  /\ Goto(t, IF pc[t] = "rows" THEN "getlock" ELSE "answer")
  /\ UNCHANGED <<up, cache, lock, req, status, saldo, lista, stamp, covers, must,
                 tables, served, crashes, booked, answered>>

-----------------------------------------------------------------------------
\* The locals go out of scope.
Clear(Gone) ==
  LET Keep(f, empty) == [t \in Threads |-> IF t \in Gone THEN empty ELSE f[t]] IN
  /\ pc' = Keep(pc, "idle")
  /\ req' = Keep(req, NoPedido)
  /\ status' = Keep(status, 200)
  /\ saldo' = Keep(saldo, 0)
  /\ lista' = Keep(lista, {})
  /\ stamp' = Keep(stamp, 0)
  /\ covers' = Keep(covers, {})
  /\ must' = Keep(must, {})

\* http_send_body or http_send_error, and the handler returns.
Respond(t) ==
  /\ pc[t] = "answer"
  /\ answered' = IF status[t] = 200 /\ req[t].tipo \in {"c", "d"}
                   THEN answered \cup {[tx |-> req[t].tx, cliente |-> C(t)]}
                   ELSE answered
  /\ Clear({t})
  /\ UNCHANGED <<up, cache, lock, tables, bounds, booked>>

\* The processes of a server are killed.  The database may already have some
\* of the statements their threads were waiting for.
Crash(s) ==
  LET Gone == {t \in Threads : ServerOf[P(t)] = s}
      Sent == {t \in Gone : pc[t] \in {"commit", "update"}}
  IN
  /\ s \in up
  /\ crashes < MaxCrashes
  /\ crashes' = crashes + 1
  /\ up' = up \ {s}
  /\ lock' = AtServer(s, lock, NULL)
  /\ cache' = AtServer(s, cache, ZeroCache)
  /\ booked' = AtServer(s, booked, NoBooks)
  /\ \E On \in SUBSET Sent :
       orphans' = orphans \cup
         {[row |-> Row(t), tipo |-> req[t].tipo, saldo |-> saldo[t],
           covers |-> covers[t]] : t \in On}
  /\ Clear(Gone)
  /\ UNCHANGED <<clientes, transacoes, relogio, saved, served, failures,
                 answered>>

\* The database executes such a statement.
Orphan ==
  \E o \in orphans :
    /\ orphans' = orphans \ {o}
    /\ IF o.tipo = "extrato"
         THEN /\ clientes' = [clientes EXCEPT ![o.row.cliente] = o.saldo]
              /\ saved' = [saved EXCEPT ![o.row.cliente] = o.covers]
              /\ UNCHANGED <<transacoes, relogio>>
         ELSE /\ transacoes' = transacoes \cup {o.row}
              /\ relogio' = relogio + 1
              /\ UNCHANGED <<clientes, saved>>
    /\ UNCHANGED <<up, cache, lock, locals, bounds, booked, answered>>

\* The bound on requests is used up.
Done ==
  /\ served = MaxRequests
  /\ \A t \in Threads : pc[t] = "idle"
  /\ UNCHANGED vars

\* What a thread does between a request and its answer.
Step(t) ==
  \/ Lock(t) \/ Calc(t) \/ Store(t) \/ Refuse(t) \/ Insert(t) \/ Commit(t)
  \/ Rows(t) \/ Copy(t) \/ Update(t) \/ Fail(t)
  \/ Respond(t)

Next ==
  \/ \E t \in Threads : Receive(t) \/ Step(t)
  \/ \E s \in Servers : Boot(s) \/ Crash(s)
  \/ Orphan
  \/ Done

Spec == Init /\ [][Next]_vars

\* Every thread keeps running: nobody holds the mutex for ever and PostgreSQL
\* answers.  A stream of requests could starve a thread at the mutex, but here
\* requests are bounded.
FairSpec == Spec /\ \A t \in Threads : WF_vars(Step(t))

-----------------------------------------------------------------------------
PC == {"idle", "lock", "calc", "store", "insert", "commit",
       "rows", "getlock", "copy", "update", "answer"}

Amount == Int \cup {INT64_MIN}
Linha == [tx : Nat, cliente : Clientes, delta : Int, stamp : Nat]
Movements == [tx : Nat, delta : Int]

Orfao == [row : Linha, tipo : {"extrato", "c", "d"}, saldo : Int,
          covers : SUBSET Movements]
Chamada == [tipo : {"none", "other", "invalid", "extrato", "c", "d"},
            cliente : Clientes \cup {Unknown}, valor : Int, tx : Nat]

ServersOK ==
  /\ up \subseteq Servers
  /\ cache \in [Procs -> [Clientes -> [limite : Nat, saldo : Int]]]
  /\ booked \in [Procs -> [Clientes -> SUBSET Movements]]
  /\ lock \in [Procs -> Threads \cup {NULL}]

LocalsOK ==
  /\ pc \in [Threads -> PC]
  /\ req \in [Threads -> Chamada]
  /\ status \in [Threads -> {200, 400, 404, 405, 422}]
  /\ saldo \in [Threads -> Amount]
  /\ lista \in [Threads -> SUBSET Linha]
  /\ stamp \in [Threads -> Nat]
  /\ covers \in [Threads -> SUBSET Movements]
  /\ must \in [Threads -> SUBSET Nat]

TablesOK ==
  /\ clientes \in [Clientes -> Int]
  /\ transacoes \subseteq Linha
  /\ relogio \in Nat
  /\ orphans \subseteq Orfao
  /\ saved \in [Clientes -> SUBSET Movements]

CountsOK ==
  /\ served \in Nat /\ failures \in Nat /\ crashes \in Nat
  /\ answered \subseteq [tx : Nat, cliente : Clientes]

\* Past the tests of cliente_request the id is that of a client, and past the
\* reading of a balance the local is one.
HandlerOK(t) ==
  /\ pc[t] # "idle" /\ status[t] \in {200, 422} =>
       /\ C(t) \in Clientes
       /\ req[t].tipo \in {"extrato", "c", "d"}
  /\ pc[t] \notin {"idle", "answer"} => status[t] = 200
  /\ pc[t] \in {"store", "insert", "commit", "update"} => saldo[t] \in Int

\* The type invariant; the cache, an array of six, is never indexed with an
\* id that is not a client's.
TypeOK ==
  /\ ServersOK
  /\ LocalsOK
  /\ TablesOK
  /\ CountsOK
  /\ \A t \in Threads : HandlerOK(t)

\* gatling/simulations/RinhaBackendCrebitosSimulation.scala:50: no balance is
\* ever past the limit, neither the ones in memory, nor the one in the
\* database, nor one in an answer, whatever overlaps, fails or restarts, as
\* long as the amounts are not negative.
LimitHeld ==
  /\ \A c \in Clientes : clientes[c] >= -Limite[c]
  /\ \A p \in Procs, c \in Clientes : cache[p][c].saldo >= -Limite[c]
  /\ \A t \in Threads : pc[t] = "answer" /\ status[t] = 200 =>
                          saldo[t] >= -Limite[C(t)]

Sum(B) == MapThenSumSet(LAMBDA b : b.delta, B)
Tx(S) == {x.tx : x \in S}

\* No update is lost and none is counted twice: each balance, in memory and in
\* the database, is the sum of the movements that were accepted into it.
BalancesAreSums ==
  /\ \A p \in Procs, c \in Clientes : cache[p][c].saldo = Sum(booked[p][c])
  /\ \A c \in Clientes : clientes[c] = Sum(saved[c])

\* The process that serves c, with one worker for each server.
Home(c) == CHOOSE p \in Procs : ServerOf[p] = Upstream[c]

InFlight(c) ==
  {req[t].tx : t \in {u \in Threads : C(u) = c /\ pc[u] \in {"insert", "commit"}}}

\* The table holds the movements that made the balance and no others: a row
\* only for what was accepted, and for all of that once it is inserted, but
\* for the inserts that failed.
RowsMatchBalance ==
  \A c \in Clientes :
    LET missing == Tx(booked[Home(c)][c]) \ Tx(RowsOf(c)) IN
    /\ Tx(RowsOf(c)) \subseteq Tx(booked[Home(c)][c])
    /\ InFlight(c) \subseteq missing
    /\ Cardinality(missing \ InFlight(c)) <= failures

Showing(t) == req[t].tipo = "extrato" /\ C(t) \in Clientes
                /\ pc[t] \in {"update", "answer"}

\* The total of a statement counts every transaction that it lists, since the
\* rows are read before the balance.
TotalCoversListed ==
  \A t \in Threads : Showing(t) => Tx(lista[t]) \subseteq Tx(covers[t])

\* gatling/simulations/RinhaBackendCrebitosSimulation.scala:201-218: a
\* statement asked for after a transaction was answered counts it in its
\* total, and lists it, unless its row was not stored, the query failed, or
\* newer rows fill the list.
ReadYourWrites ==
  \A t \in Threads : Showing(t) =>
    /\ must[t] \subseteq Tx(covers[t])
    /\ failures = 0 =>
         \A r \in RowsOf(C(t)) : r.tx \in must[t] =>
           \/ r \in lista[t]
           \/ /\ Cardinality(lista[t]) = ExtratoLimit
              /\ \A q \in lista[t] : q.stamp >= r.stamp

\* While no server restarts, the database never holds a balance that counts a
\* movement the cache does not know.
SavedNeverAhead == \A c \in Clientes : saved[c] \subseteq booked[Home(c)][c]

\* test.sql:59: a debit is turned down when it would leave less than -limite.
RefusedOnlyPastLimit ==
  \A t \in Threads : pc[t] = "store" /\ ~Accepted(t) =>
                     saldo[t] < -cache[P(t)][C(t)].limite

\* Every request that was taken is answered, or its server is killed.
EveryRequestEnds == \A t \in Threads : pc[t] # "idle" ~> pc[t] = "idle"

-----------------------------------------------------------------------------
Pedido(t) == [tipo |-> req[t].tipo, cliente |-> C(t), valor |-> req[t].valor]

\* The promise of Ledger, with one worker for each server and no restart: a
\* call takes effect when its thread writes or copies the cached balance.
CallOf(t) ==
  IF pc[t] = "idle" \/ status[t] \in {400, 404, 405} THEN [fase |-> "livre"]
  ELSE IF pc[t] \in {"insert", "commit", "update", "answer"}
    THEN [fase |-> "feita", pedido |-> Pedido(t), total |-> saldo[t]]
    ELSE [fase |-> "aberta", pedido |-> Pedido(t)]

Promise == INSTANCE Ledger WITH
  saldo   <- [c \in Clientes |-> cache[Home(c)][c].saldo],
  chamada <- [t \in Threads |-> CallOf(t)]

ImplementsLedger == Promise!Spec
=============================================================================
