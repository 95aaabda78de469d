----------------------------- MODULE ApiProofs -----------------------------
(***************************************************************************)
(* What is proved of the request handlers for any number of servers,       *)
(* workers, threads, clients, requests, failures and restarts.             *)
(***************************************************************************)
EXTENDS Api, FiniteSetTheorems, TLAPS

LEMMA VerdictType ==
  \A r \in Pedidos \cup Malformed :
    /\ r.tipo \in {"other", "invalid", "extrato", "c", "d"}
    /\ r.cliente \in Clientes \cup {Unknown}
    /\ r.valor \in Int
    /\ Verdict(r) \in {200, 400, 404, 405}
    /\ Verdict(r) = 200 => r.cliente \in Clientes /\ r.tipo \in {"extrato", "c", "d"}
BY ApiAssumption DEF Pedidos, Malformed, Verdict

LEMMA InitTypeOK == Init => TypeOK
<1> SUFFICES ASSUME Init PROVE TypeOK
  OBVIOUS
<1> USE DEF Init
<1>1. ServersOK
  BY ApiAssumption DEF ServersOK, ZeroCache, NoBooks
<1>2. LocalsOK
  BY ApiAssumption DEF LocalsOK, PC, Amount, NoPedido, Chamada
<1>3. TablesOK
  BY DEF TablesOK
<1>4. CountsOK /\ \A t \in Threads : HandlerOK(t)
  BY DEF CountsOK, HandlerOK
<1>5. QED
  BY <1>1, <1>2, <1>3, <1>4 DEF TypeOK

LEMMA MovementType ==
  ASSUME TypeOK, NEW t \in Threads, C(t) \in Clientes
  PROVE  /\ Delta(t) \in Int
         /\ Movement(t) \in Movements
         /\ Row(t) \in Linha
<1>1. req[t] \in Chamada /\ stamp[t] \in Nat
  BY DEF TypeOK, LocalsOK
<1>2. Delta(t) \in Int
  BY <1>1 DEF Delta, Chamada
<1>3. QED
  BY <1>1, <1>2 DEF Movement, Row, Movements, Linha, Chamada

LEMMA LatestType ==
  ASSUME TypeOK, NEW c \in Clientes, NEW S \in Latest(c)
  PROVE  S \subseteq transacoes /\ S \subseteq Linha
BY DEF Latest, RowsOf, TypeOK, TablesOK

\* A request in its handler: it has passed every test so far.
LEMMA InHandler ==
  ASSUME TypeOK, NEW t \in Threads, pc[t] \notin {"idle", "answer"}
  PROVE  /\ P(t) \in Procs
         /\ C(t) \in Clientes
         /\ status[t] = 200
         /\ req[t].tipo \in {"extrato", "c", "d"}
BY ApiAssumption DEF TypeOK, HandlerOK, P

\* A step of a handler from one place to another, with the same request.
LEMMA HandlerMoves ==
  ASSUME TypeOK, NEW t \in Threads, NEW l \in PC \ {"idle"},
         pc[t] \notin {"idle", "answer"},
         Goto(t, l), UNCHANGED <<req, status>>,
         \A u \in Threads \ {t} : saldo'[u] = saldo[u],
         l \in {"store", "insert", "commit", "update"} => saldo'[t] \in Int
  PROVE  /\ pc' \in [Threads -> PC]
         /\ \A u \in Threads : HandlerOK(u)'
<1>1. pc \in [Threads -> PC]
  BY DEF TypeOK, LocalsOK
<1>2. /\ pc' \in [Threads -> PC]
      /\ pc'[t] = l
      /\ \A u \in Threads \ {t} : pc'[u] = pc[u]
  BY <1>1 DEF Goto
<1>3. HandlerOK(t)'
  BY <1>2, InHandler DEF HandlerOK, C
<1>4. ASSUME NEW u \in Threads \ {t} PROVE HandlerOK(u)'
  BY <1>2, <1>4 DEF TypeOK, HandlerOK, C
<1>5. QED
  BY <1>2, <1>3, <1>4

\* The threads that end their call have no request, status or locals left.
LEMMA ClearType ==
  ASSUME TypeOK, NEW Gone, Clear(Gone)
  PROVE  /\ LocalsOK'
         /\ \A t \in Threads : HandlerOK(t)'
<1>1. LocalsOK'
  BY DEF TypeOK, LocalsOK, Clear, NoPedido, PC, Amount, Chamada
<1>2. ASSUME NEW t \in Threads PROVE HandlerOK(t)'
  <2>1. CASE t \in Gone
    BY <2>1 DEF Clear, HandlerOK
  <2>2. CASE t \notin Gone
    BY <2>2 DEF Clear, HandlerOK, TypeOK, C
  <2>3. QED
    BY <2>1, <2>2
<1>3. QED
  BY <1>1, <1>2

LEMMA AtServerType ==
  ASSUME NEW S, NEW f \in [Procs -> S], NEW g \in S, NEW s
  PROVE  AtServer(s, f, g) \in [Procs -> S]
BY DEF AtServer

\* What a cache and its history can be filled with.
Saldos == [Clientes -> [limite : Nat, saldo : Int]]
Books == [Clientes -> SUBSET Movements]

LEMMA FilledType ==
  ASSUME TypeOK
  PROVE  /\ ZeroCache \in Saldos /\ NoBooks \in Books /\ saved \in Books
         /\ [c \in Clientes |-> [limite |-> Limite[c], saldo |-> clientes[c]]] \in Saldos
         /\ cache \in [Procs -> Saldos] /\ booked \in [Procs -> Books]
BY ApiAssumption DEF TypeOK, TablesOK, ServersOK, ZeroCache, NoBooks, Saldos, Books

LEMMA ReceiveTypeOK ==
  ASSUME TypeOK, NEW t \in Threads, Receive(t)
  PROVE  TypeOK'
<1> USE DEF Receive
<1>1. PICK r \in Pedidos \cup Malformed : Take(t, r)
  OBVIOUS
<1> USE DEF Take
<1>2. served + 1 \in Nat
  BY DEF TypeOK, CountsOK
<1>3. req' \in [Threads -> Chamada] /\ status' \in [Threads -> {200, 400, 404, 405, 422}]
  BY <1>1, <1>2, VerdictType DEF TypeOK, LocalsOK, Chamada
<1>4. pc' \in [Threads -> PC] /\ must' \in [Threads -> SUBSET Nat]
  BY <1>1, VerdictType DEF TypeOK, LocalsOK, CountsOK, Goto, PC, AnsweredTo
<1>5. LocalsOK'
  BY <1>3, <1>4 DEF TypeOK, LocalsOK
<1>6. ASSUME NEW u \in Threads PROVE HandlerOK(u)'
  <2>1. CASE u = t
    <3>1. /\ req'[t].cliente = r.cliente
          /\ req'[t].tipo = r.tipo
          /\ status'[t] = Verdict(r)
          /\ pc'[t] \in {"answer", "rows", "lock"}
          /\ Verdict(r) # 200 => pc'[t] = "answer"
      BY <1>1 DEF TypeOK, LocalsOK, Goto
    <3>2. QED
      BY <2>1, <3>1, VerdictType DEF HandlerOK, C
  <2>2. CASE u # t
    BY <1>1, <2>2 DEF TypeOK, LocalsOK, HandlerOK, C, Goto
  <2>3. QED
    BY <2>1, <2>2
<1>7. ServersOK' /\ TablesOK' /\ CountsOK'
  BY <1>2 DEF TypeOK, ServersOK, TablesOK, CountsOK, tables
<1>8. QED
  BY <1>5, <1>6, <1>7 DEF TypeOK

LEMMA StepTypeOK ==
  ASSUME TypeOK, NEW t \in Threads, Step(t)
  PROVE  TypeOK'
<1>1. CASE Lock(t)
  <2>1. (pc' \in [Threads -> PC]) /\ \A u \in Threads : HandlerOK(u)'
    BY <1>1, HandlerMoves DEF Lock, PC
  <2>2. lock' \in [Procs -> Threads \cup {NULL}]
    BY <1>1, InHandler DEF Lock, TypeOK, ServersOK
  <2>3. QED
    BY <1>1, <2>1, <2>2
       DEF Lock, TypeOK, ServersOK, LocalsOK, TablesOK, CountsOK, tables, bounds
<1>2. CASE Calc(t)
  <2>1. cache[P(t)][C(t)].saldo + Delta(t) \in Int
    BY <1>2, InHandler, MovementType DEF Calc, TypeOK, ServersOK
  <2>2. saldo' \in [Threads -> Amount] /\ saldo'[t] \in Int
    BY <1>2, <2>1 DEF Calc, TypeOK, LocalsOK, Amount
  <2>3. (pc' \in [Threads -> PC]) /\ \A u \in Threads : HandlerOK(u)'
    BY <1>2, <2>2, HandlerMoves DEF Calc, PC, TypeOK, LocalsOK
  <2>4. QED
    BY <1>2, <2>2, <2>3
       DEF Calc, TypeOK, ServersOK, LocalsOK, TablesOK, CountsOK, tables, bounds
<1>3. CASE Store(t)
  <2>1. saldo[t] \in Int
    BY <1>3 DEF Store, TypeOK, HandlerOK
  <2>2. cache' \in [Procs -> [Clientes -> [limite : Nat, saldo : Int]]]
    <3>1. cache[P(t)][C(t)] \in [limite : Nat, saldo : Int]
      BY <1>3, InHandler DEF Store, TypeOK, ServersOK
    <3>2. [cache[P(t)][C(t)] EXCEPT !.saldo = saldo[t]] \in [limite : Nat, saldo : Int]
      BY <2>1, <3>1
    <3>3. cache[P(t)] \in [Clientes -> [limite : Nat, saldo : Int]]
      BY <1>3, InHandler DEF Store, TypeOK, ServersOK
    <3>4. QED
      BY <1>3, <3>2, <3>3 DEF Store, TypeOK, ServersOK
  <2>3. booked' \in [Procs -> [Clientes -> SUBSET Movements]]
    BY <1>3, InHandler, MovementType DEF Store, TypeOK, ServersOK
  <2>4. lock' \in [Procs -> Threads \cup {NULL}]
    BY <1>3, InHandler DEF Store, Unlock, TypeOK, ServersOK
  <2>5. (pc' \in [Threads -> PC]) /\ \A u \in Threads : HandlerOK(u)'
    BY <1>3, <2>1, HandlerMoves DEF Store, PC
  <2>6. QED
    BY <1>3, <2>2, <2>3, <2>4, <2>5
       DEF Store, TypeOK, ServersOK, LocalsOK, TablesOK, CountsOK, tables, bounds
<1>4. CASE Refuse(t)
  <2>1. lock' \in [Procs -> Threads \cup {NULL}]
    BY <1>4, InHandler DEF Refuse, Unlock, TypeOK, ServersOK
  <2>2. LocalsOK'
    BY <1>4 DEF Refuse, Goto, PC, Amount, TypeOK, LocalsOK
  <2>3. ASSUME NEW u \in Threads PROVE HandlerOK(u)'
    <3>1. CASE u = t
      BY <1>4, <3>1, InHandler
         DEF Refuse, Goto, TypeOK, LocalsOK, HandlerOK, C
    <3>2. CASE u # t
      BY <1>4, <3>2 DEF Refuse, Goto, TypeOK, LocalsOK, HandlerOK, C
    <3>3. QED
      BY <3>1, <3>2
  <2>4. QED
    BY <1>4, <2>1, <2>2, <2>3
       DEF Refuse, TypeOK, ServersOK, TablesOK, CountsOK, tables, bounds
<1>5. CASE Insert(t)
  <2>1. (pc' \in [Threads -> PC]) /\ \A u \in Threads : HandlerOK(u)'
    BY <1>5, HandlerMoves DEF Insert, PC, TypeOK, HandlerOK
  <2>2. QED
    BY <1>5, <2>1
       DEF Insert, TypeOK, ServersOK, LocalsOK, TablesOK, CountsOK, tables, bounds
<1>6. CASE Commit(t)
  <2>1. (pc' \in [Threads -> PC]) /\ \A u \in Threads : HandlerOK(u)'
    BY <1>6, HandlerMoves DEF Commit, PC
  <2>2. Row(t) \in Linha
    BY <1>6, InHandler, MovementType DEF Commit
  <2>3. QED
    BY <1>6, <2>1, <2>2
       DEF Commit, TypeOK, ServersOK, LocalsOK, TablesOK, CountsOK, bounds
<1>7. CASE Rows(t)
  <2>1. (pc' \in [Threads -> PC]) /\ \A u \in Threads : HandlerOK(u)'
    BY <1>7, HandlerMoves DEF Rows, PC
  <2>2. lista' \in [Threads -> SUBSET Linha]
    BY <1>7, InHandler, LatestType DEF Rows, TypeOK, LocalsOK
  <2>3. QED
    BY <1>7, <2>1, <2>2
       DEF Rows, TypeOK, ServersOK, LocalsOK, TablesOK, CountsOK, tables, bounds
<1>8. CASE Copy(t)
  <2>1. cache[P(t)][C(t)].saldo \in Int /\ booked[P(t)][C(t)] \in SUBSET Movements
    BY <1>8, InHandler DEF Copy, TypeOK, ServersOK
  <2>2. /\ saldo' \in [Threads -> Amount] /\ saldo'[t] \in Int
        /\ covers' \in [Threads -> SUBSET Movements]
    BY <1>8, <2>1 DEF Copy, TypeOK, LocalsOK, Amount
  <2>3. lock' \in [Procs -> Threads \cup {NULL}]
    BY <1>8, InHandler DEF Copy, Unlock, TypeOK, ServersOK
  <2>4. (pc' \in [Threads -> PC]) /\ \A u \in Threads : HandlerOK(u)'
    BY <1>8, <2>2, HandlerMoves DEF Copy, PC, TypeOK, LocalsOK
  <2>5. QED
    BY <1>8, <2>2, <2>3, <2>4
       DEF Copy, TypeOK, ServersOK, LocalsOK, TablesOK, CountsOK, tables, bounds
<1>9. CASE Update(t)
  <2>1. (pc' \in [Threads -> PC]) /\ \A u \in Threads : HandlerOK(u)'
    BY <1>9, HandlerMoves DEF Update, PC
  <2>2. /\ clientes' \in [Clientes -> Int]
        /\ saved' \in [Clientes -> SUBSET Movements]
    BY <1>9, InHandler DEF Update, TypeOK, HandlerOK, TablesOK, LocalsOK
  <2>3. QED
    BY <1>9, <2>1, <2>2
       DEF Update, TypeOK, ServersOK, LocalsOK, TablesOK, CountsOK, bounds
<1>10. CASE Fail(t)
  <2>1. (pc' \in [Threads -> PC]) /\ \A u \in Threads : HandlerOK(u)'
    BY <1>10, HandlerMoves DEF Fail, PC
  <2>2. QED
    BY <1>10, <2>1
       DEF Fail, TypeOK, ServersOK, LocalsOK, TablesOK, CountsOK, tables
<1>11. CASE Respond(t)
  <2>1. answered' \subseteq [tx : Nat, cliente : Clientes]
    BY <1>11 DEF Respond, C, TypeOK, LocalsOK, CountsOK, HandlerOK, Chamada
  <2>2. QED
    BY <1>11, <2>1, ClearType
       DEF Respond, TypeOK, ServersOK, TablesOK, CountsOK, tables, bounds
<1>12. QED
  BY <1>1, <1>2, <1>3, <1>4, <1>5, <1>6, <1>7, <1>8, <1>9, <1>10, <1>11 DEF Step

LEMMA ServerTypeOK ==
  ASSUME TypeOK, NEW s \in Servers, Boot(s) \/ Crash(s)
  PROVE  TypeOK'
<1>1. CASE Boot(s)
  <2> DEFINE Lido == [c \in Clientes |-> [limite |-> Limite[c], saldo |-> clientes[c]]]
  <2>1. cache' \in [Procs -> Saldos]
    <3>1. cache' \in {AtServer(s, cache, Lido), AtServer(s, cache, ZeroCache)}
      BY <1>1 DEF Boot
    <3>2. AtServer(s, cache, Lido) \in [Procs -> Saldos]
      BY AtServerType, FilledType
    <3>3. AtServer(s, cache, ZeroCache) \in [Procs -> Saldos]
      BY AtServerType, FilledType
    <3>4. QED
      BY <3>1, <3>2, <3>3
  <2>2. booked' \in [Procs -> Books]
    <3>1. booked' \in {AtServer(s, booked, saved), AtServer(s, booked, NoBooks)}
      BY <1>1 DEF Boot
    <3>2. AtServer(s, booked, saved) \in [Procs -> Books]
      BY AtServerType, FilledType
    <3>3. AtServer(s, booked, NoBooks) \in [Procs -> Books]
      BY AtServerType, FilledType
    <3>4. QED
      BY <3>1, <3>2, <3>3
  <2>3. QED
    BY <1>1, <2>1, <2>2 DEF Boot, TypeOK, ServersOK, LocalsOK, TablesOK, CountsOK,
                            HandlerOK, C, locals, tables, bounds,
                            Saldos, Books
<1>2. CASE Crash(s)
  <2>1. cache' \in [Procs -> Saldos]
    BY <1>2, AtServerType, FilledType DEF Crash
  <2>2. booked' \in [Procs -> Books]
    BY <1>2, AtServerType, FilledType DEF Crash
  <2>3. lock' \in [Procs -> Threads \cup {NULL}]
    BY <1>2, AtServerType DEF Crash, TypeOK, ServersOK
  <2>4. ASSUME NEW t \in Threads, pc[t] \in {"commit", "update"}
        PROVE  [row |-> Row(t), tipo |-> req[t].tipo, saldo |-> saldo[t],
                covers |-> covers[t]] \in Orfao
    BY <2>4, InHandler, MovementType DEF Orfao, TypeOK, HandlerOK, LocalsOK
  <2>5. orphans' \subseteq Orfao
    BY <1>2, <2>4 DEF Crash, TypeOK, TablesOK
  <2>6. LocalsOK' /\ \A t \in Threads : HandlerOK(t)'
    BY <1>2, ClearType DEF Crash
  <2>7. QED
    BY <1>2, <2>1, <2>2, <2>3, <2>5, <2>6
       DEF Crash, TypeOK, ServersOK, TablesOK, CountsOK, Saldos, Books
<1>3. QED
  BY <1>1, <1>2

LEMMA OrphanTypeOK ==
  ASSUME TypeOK, Orphan
  PROVE  TypeOK'
<1>1. TablesOK'
  BY DEF Orphan, TypeOK, TablesOK, Orfao, Linha
<1>2. QED
  BY <1>1 DEF Orphan, TypeOK, ServersOK, LocalsOK, CountsOK, HandlerOK, C, locals, bounds

LEMMA NextTypeOK ==
  ASSUME TypeOK, [Next]_vars
  PROVE  TypeOK'
<1>1. CASE UNCHANGED vars
  BY <1>1 DEF vars, locals, tables, bounds, TypeOK, ServersOK, LocalsOK, TablesOK,
              CountsOK, HandlerOK, C
<1>2. CASE Done
  BY <1>1, <1>2 DEF Done
<1>3. QED
  BY <1>1, <1>2, ReceiveTypeOK, StepTypeOK, ServerTypeOK, OrphanTypeOK DEF Next

\* Every field, local and table keeps its type, and past the tests of
\* cliente_request the cache is only indexed with the id of a client.
THEOREM ApiTypeOK == Spec => []TypeOK
BY InitTypeOK, NextTypeOK, PTL DEF Spec

-----------------------------------------------------------------------------
(***************************************************************************)
(* The limit.  LimitHeld is not inductive: the balance a statement writes  *)
(* to the database was read long before, possibly by a process that is     *)
(* gone, and a credit stores a sum computed in the step before.  The       *)
(* invariant below says that every balance on its way to the cache, to the *)
(* database or to an answer is within the limit, and that the limit in the *)
(* cache is the client's, or zero if it was never read.                    *)
(***************************************************************************)
AmountsNotNegative == Valores \subseteq Nat

CacheLimit ==
  \A p \in Procs, c \in Clientes :
    /\ cache[p][c].saldo >= -Limite[c]
    /\ cache[p][c].limite <= Limite[c]

TableLimit ==
  /\ \A c \in Clientes : clientes[c] >= -Limite[c]
  /\ \A o \in orphans : o.tipo = "extrato" => o.saldo >= -Limite[o.row.cliente]

\* The local of t is a balance that was, or will be, in the cache.
HasBalance(t) ==
  \/ pc[t] \in {"insert", "commit", "update"}
  \/ pc[t] = "answer" /\ status[t] = 200
  \/ pc[t] = "store" /\ req[t].tipo = "c"

LocalLimit(t) ==
  /\ HasBalance(t) => saldo[t] >= -Limite[C(t)]
  /\ req[t].tipo = "c" => req[t].valor \in Nat

LimitInv ==
  /\ CacheLimit
  /\ TableLimit
  /\ \A t \in Threads : LocalLimit(t)

LEMMA LimitType == \A c \in Clientes : Limite[c] \in Nat
BY ApiAssumption

LEMMA InitLimit == Init => LimitInv
BY LimitType DEF Init, LimitInv, CacheLimit, TableLimit, LocalLimit, HasBalance,
                 ZeroCache, NoPedido

\* A step of one handler that leaves the request alone.
LEMMA LocalLimitKept ==
  ASSUME TypeOK, LimitInv, NEW t \in Threads, NEW l \in PC, Goto(t, l), req' = req,
         \A u \in Threads \ {t} : saldo'[u] = saldo[u] /\ status'[u] = status[u],
         HasBalance(t)' => saldo'[t] >= -Limite[C(t)]
  PROVE  \A u \in Threads : LocalLimit(u)'
<1>1. \A u \in Threads \ {t} : pc'[u] = pc[u]
  BY DEF TypeOK, LocalsOK, Goto
<1>2. QED
  BY <1>1 DEF LimitInv, LocalLimit, HasBalance, C

\* So does the end of some calls.
LEMMA ClearLimit ==
  ASSUME LimitInv, NEW Gone, Clear(Gone)
  PROVE  \A u \in Threads : LocalLimit(u)'
BY DEF LimitInv, LocalLimit, HasBalance, Clear, NoPedido, C

LEMMA ReceiveLimit ==
  ASSUME AmountsNotNegative, TypeOK, LimitInv, NEW t \in Threads, Receive(t)
  PROVE  LimitInv'
<1> USE DEF Receive
<1>1. PICK r \in Pedidos \cup Malformed : Take(t, r)
  OBVIOUS
<1>2. r.tipo = "c" => r.valor \in Nat
  BY DEF AmountsNotNegative, Pedidos, Malformed
<1>3. ASSUME NEW u \in Threads PROVE LocalLimit(u)'
  <2>1. CASE u = t
    <3>1. req'[t].tipo = r.tipo /\ req'[t].valor = r.valor /\ status'[t] = Verdict(r)
      BY <1>1 DEF Take, TypeOK, LocalsOK
    <3>2. /\ pc'[t] \in {"answer", "rows", "lock"}
          /\ pc'[t] = "answer" => status'[t] # 200
      BY <1>1, <3>1 DEF Take, Goto, TypeOK, LocalsOK
    <3>3. QED
      BY <1>2, <2>1, <3>1, <3>2 DEF LocalLimit, HasBalance
  <2>2. CASE u # t
    <3>1. UNCHANGED <<pc[u], req[u], status[u], saldo[u]>>
      BY <1>1, <2>2 DEF Take, Goto, TypeOK, LocalsOK
    <3>2. QED
      BY <1>1, <3>1 DEF Take, LimitInv, LocalLimit, HasBalance, C
  <2>3. QED
    BY <2>1, <2>2
<1>4. QED
  BY <1>3 DEF LimitInv, CacheLimit, TableLimit, tables

LEMMA StepLimit ==
  ASSUME TypeOK, LimitInv, NEW t \in Threads, Step(t)
  PROVE  LimitInv'
<1>1. CASE Lock(t)
  <2>1. PICK l \in {"calc", "copy"} : Goto(t, l)
    BY <1>1 DEF Lock
  <2>2. pc'[t] = l /\ UNCHANGED <<req, saldo, status, cache, tables, orphans>>
    BY <1>1, <2>1 DEF Lock, Goto, TypeOK, LocalsOK, tables
  <2>3. ~HasBalance(t)'
    BY <2>2 DEF HasBalance
  <2>4. \A u \in Threads : LocalLimit(u)'
    BY <2>1, <2>2, <2>3, LocalLimitKept DEF PC
  <2>5. QED
    BY <2>2, <2>4 DEF LimitInv, CacheLimit, TableLimit, tables
<1>2. CASE Calc(t)
  <2>1. C(t) \in Clientes /\ P(t) \in Procs
    BY <1>2, InHandler DEF Calc
  <2>2. cache[P(t)][C(t)].saldo \in Int /\ cache[P(t)][C(t)].saldo >= -Limite[C(t)]
    BY <2>1 DEF TypeOK, ServersOK, LimitInv, CacheLimit
  <2>3. req[t].tipo = "c" =>
          cache[P(t)][C(t)].saldo + Delta(t) >= -Limite[C(t)]
    BY <2>1, <2>2, LimitType DEF Delta, LimitInv, LocalLimit
  <2>4. saldo'[t] = cache[P(t)][C(t)].saldo + Delta(t)
    BY <1>2 DEF Calc, TypeOK, LocalsOK
  <2>5. pc'[t] = "store" /\ (HasBalance(t)' => req[t].tipo = "c")
    BY <1>2 DEF Calc, Goto, TypeOK, LocalsOK, HasBalance
  <2>6. \A u \in Threads : LocalLimit(u)'
    BY <1>2, <2>3, <2>4, <2>5, LocalLimitKept DEF Calc, PC, TypeOK, LocalsOK
  <2>7. QED
    BY <1>2, <2>6 DEF Calc, LimitInv, CacheLimit, TableLimit, tables
<1>3. CASE Store(t)
  <2>1. C(t) \in Clientes /\ P(t) \in Procs /\ saldo[t] \in Int
    BY <1>3, InHandler DEF Store, TypeOK, HandlerOK
  <2>2. saldo[t] >= -Limite[C(t)]
    <3>1. CASE req[t].tipo = "c"
      BY <1>3, <3>1 DEF Store, LimitInv, LocalLimit, HasBalance
    <3>2. CASE saldo[t] > -cache[P(t)][C(t)].limite
      <4>1. /\ cache[P(t)][C(t)].limite \in Nat
            /\ cache[P(t)][C(t)].limite <= Limite[C(t)]
        BY <2>1 DEF TypeOK, ServersOK, LimitInv, CacheLimit
      <4>2. QED
        BY <2>1, <3>2, <4>1, LimitType
    <3>3. QED
      BY <1>3, <3>1, <3>2 DEF Store, Accepted
  <2>3. \A u \in Threads : LocalLimit(u)'
    BY <1>3, <2>2, LocalLimitKept DEF Store, PC
  <2>4. CacheLimit'
    <3>1. ASSUME NEW p \in Procs, NEW c \in Clientes
          PROVE  /\ cache'[p][c].saldo >= -Limite[c]
                 /\ cache'[p][c].limite <= Limite[c]
      <4>1. CASE p = P(t) /\ c = C(t)
        <5>1. /\ cache'[p][c].saldo = saldo[t]
              /\ cache'[p][c].limite = cache[p][c].limite
          BY <1>3, <2>1, <4>1 DEF Store, TypeOK, ServersOK
        <5>2. QED
          BY <2>2, <4>1, <5>1 DEF LimitInv, CacheLimit
      <4>2. CASE ~(p = P(t) /\ c = C(t))
        <5>1. cache'[p][c] = cache[p][c]
          BY <1>3, <2>1, <4>2 DEF Store, TypeOK, ServersOK
        <5>2. QED
          BY <5>1 DEF LimitInv, CacheLimit
      <4>3. QED
        BY <4>1, <4>2
    <3>2. QED
      BY <3>1 DEF CacheLimit
  <2>5. QED
    BY <1>3, <2>3, <2>4 DEF Store, LimitInv, TableLimit, tables
<1>4. CASE Refuse(t)
  <2>1. pc'[t] = "answer" /\ status'[t] = 422
    BY <1>4 DEF Refuse, Goto, TypeOK, LocalsOK
  <2>2. \A u \in Threads : LocalLimit(u)'
    BY <1>4, <2>1, LocalLimitKept
       DEF Refuse, PC, HasBalance, TypeOK, LocalsOK
  <2>3. QED
    BY <1>4, <2>2 DEF Refuse, LimitInv, CacheLimit, TableLimit, tables
<1>5. CASE Insert(t)
  <2>1. \A u \in Threads : LocalLimit(u)'
    BY <1>5, LocalLimitKept DEF Insert, PC, LimitInv, LocalLimit, HasBalance
  <2>2. QED
    BY <1>5, <2>1 DEF Insert, LimitInv, CacheLimit, TableLimit, tables
<1>6. CASE Commit(t)
  <2>1. \A u \in Threads : LocalLimit(u)'
    BY <1>6, LocalLimitKept DEF Commit, PC, LimitInv, LocalLimit, HasBalance
  <2>2. QED
    BY <1>6, <2>1 DEF Commit, LimitInv, CacheLimit, TableLimit
<1>7. CASE Rows(t)
  <2>1. pc'[t] = "getlock"
    BY <1>7 DEF Rows, Goto, TypeOK, LocalsOK
  <2>2. \A u \in Threads : LocalLimit(u)'
    BY <1>7, <2>1, LocalLimitKept DEF Rows, PC, HasBalance
  <2>3. QED
    BY <1>7, <2>2 DEF Rows, LimitInv, CacheLimit, TableLimit, tables
<1>8. CASE Copy(t)
  <2>1. C(t) \in Clientes /\ P(t) \in Procs
    BY <1>8, InHandler DEF Copy
  <2>2. saldo'[t] = cache[P(t)][C(t)].saldo /\ saldo'[t] >= -Limite[C(t)]
    BY <1>8, <2>1 DEF Copy, TypeOK, LocalsOK, LimitInv, CacheLimit
  <2>3. \A u \in Threads : LocalLimit(u)'
    BY <1>8, <2>2, LocalLimitKept DEF Copy, PC, TypeOK, LocalsOK
  <2>4. QED
    BY <1>8, <2>3 DEF Copy, LimitInv, CacheLimit, TableLimit, tables
<1>9. CASE Update(t)
  <2>1. saldo[t] >= -Limite[C(t)]
    BY <1>9 DEF Update, LimitInv, LocalLimit, HasBalance
  <2>2. \A u \in Threads : LocalLimit(u)'
    BY <1>9, <2>1, LocalLimitKept DEF Update, PC
  <2>3. TableLimit'
    BY <1>9, <2>1 DEF Update, TypeOK, TablesOK, LimitInv, TableLimit
  <2>4. QED
    BY <1>9, <2>2, <2>3 DEF Update, LimitInv, CacheLimit
<1>10. CASE Fail(t)
  <2>1. HasBalance(t)' => saldo[t] >= -Limite[C(t)]
    BY <1>10 DEF Fail, Goto, TypeOK, LocalsOK, LimitInv, LocalLimit, HasBalance
  <2>2. \A u \in Threads : LocalLimit(u)'
    BY <1>10, <2>1, LocalLimitKept DEF Fail, PC
  <2>3. QED
    BY <1>10, <2>2 DEF Fail, LimitInv, CacheLimit, TableLimit, tables
<1>11. CASE Respond(t)
  <2>1. \A u \in Threads : LocalLimit(u)'
    BY <1>11, ClearLimit DEF Respond
  <2>2. QED
    BY <1>11, <2>1 DEF Respond, LimitInv, CacheLimit, TableLimit, tables
<1>12. QED
  BY <1>1, <1>2, <1>3, <1>4, <1>5, <1>6, <1>7, <1>8, <1>9, <1>10, <1>11 DEF Step

LEMMA ServerLimit ==
  ASSUME TypeOK, LimitInv, NEW s \in Servers, Boot(s) \/ Crash(s)
  PROVE  LimitInv'
<1> DEFINE Lido == [c \in Clientes |-> [limite |-> Limite[c], saldo |-> clientes[c]]]
<1>1. CASE Boot(s)
  <2>1. \A p \in Procs : cache'[p] \in {Lido, ZeroCache, cache[p]}
    BY <1>1 DEF Boot, AtServer
  <2>2. CacheLimit'
    BY <2>1, LimitType DEF CacheLimit, LimitInv, TableLimit, ZeroCache
  <2>3. QED
    BY <1>1, <2>2 DEF Boot, LimitInv, TableLimit, LocalLimit, HasBalance, C,
                      locals, tables
<1>2. CASE Crash(s)
  <2>1. \A p \in Procs : cache'[p] \in {ZeroCache, cache[p]}
    BY <1>2 DEF Crash, AtServer
  <2>2. CacheLimit'
    BY <2>1, LimitType DEF CacheLimit, LimitInv, ZeroCache
  <2>3. \A u \in Threads : LocalLimit(u)'
    BY <1>2, ClearLimit DEF Crash
  <2>4. ASSUME NEW t \in Threads, pc[t] \in {"commit", "update"}
        PROVE  saldo[t] >= -Limite[Row(t).cliente]
    BY <2>4 DEF LimitInv, LocalLimit, HasBalance, Row
  <2>5. TableLimit'
    BY <1>2, <2>4 DEF Crash, LimitInv, TableLimit
  <2>6. QED
    BY <2>2, <2>3, <2>5 DEF LimitInv
<1>3. QED
  BY <1>1, <1>2

LEMMA OrphanLimit ==
  ASSUME TypeOK, LimitInv, Orphan
  PROVE  LimitInv'
<1>1. TableLimit'
  BY DEF Orphan, TypeOK, TablesOK, Orfao, Linha, LimitInv, TableLimit
<1>2. QED
  BY <1>1 DEF Orphan, LimitInv, CacheLimit, LocalLimit, HasBalance, C, locals

LEMMA NextLimit ==
  ASSUME AmountsNotNegative, TypeOK, LimitInv, [Next]_vars
  PROVE  LimitInv'
<1>1. CASE UNCHANGED vars
  BY <1>1 DEF vars, locals, tables, LimitInv, CacheLimit, TableLimit, LocalLimit,
              HasBalance, C
<1>2. CASE Done
  BY <1>1, <1>2 DEF Done
<1>3. QED
  BY <1>1, <1>2, ReceiveLimit, StepLimit, ServerLimit, OrphanLimit DEF Next

\* gatling/simulations/RinhaBackendCrebitosSimulation.scala:50: no balance in
\* memory, in the database or in an answer is ever past the client's limit,
\* however requests overlap and whatever fails or restarts, when the amounts
\* are not negative.
THEOREM ApiLimitHeld == ASSUME AmountsNotNegative PROVE Spec => []LimitHeld
<1>1. AmountsNotNegative /\ TypeOK /\ LimitInv /\ [Next]_vars => LimitInv'
  BY NextLimit
<1>2. LimitInv => LimitHeld
  BY DEF LimitInv, CacheLimit, TableLimit, LocalLimit, HasBalance, LimitHeld
<1>3. QED
  BY <1>1, <1>2, InitLimit, ApiTypeOK, PTL DEF Spec

(***************************************************************************)
(* Api implements Ledger, with one worker for each server and no restart,  *)
(* for any number of servers, threads, clients, requests and failing       *)
(* statements.                                                             *)
(***************************************************************************)
\* docker-compose.yml: SERVER_WORKERS=1, and every server that nginx names
\* has its process.
OneWorkerPerServer ==
  /\ \A p, q \in Procs : ServerOf[p] = ServerOf[q] => p = q
  /\ \A c \in Clientes : \E p \in Procs : ServerOf[p] = Upstream[c]

NoRestart == MaxCrashes = 0 /\ ~BootMayFail

(***************************************************************************)
(* Who computes, stores or copies owns the mutex of its process, and what  *)
(* it has computed is still the cached balance and its own amount when it  *)
(* stores it; it serves a client of its own server.                        *)
(***************************************************************************)
CallInv(t) ==
  /\ pc[t] \in {"calc", "store", "copy"} => lock[P(t)] = t
  /\ pc[t] = "store" => saldo[t] = cache[P(t)][C(t)].saldo + Delta(t)
  /\ pc[t] # "idle" => ServerOf[P(t)] \in up
  /\ pc[t] # "idle" /\ status[t] \in {200, 422} =>
       /\ Pedido(t) \in Pedidos
       /\ P(t) = Home(C(t))
  /\ pc[t] \in {"lock", "calc", "store", "insert", "commit"} =>
       req[t].tipo \in {"c", "d"}
  /\ pc[t] \in {"rows", "getlock", "copy", "update"} => req[t].tipo = "extrato"

\* A server that is up knows the limits; until then the balances of its
\* clients are zero, in the database as in the cache.
ServerInv ==
  /\ \A p \in Procs, c \in Clientes :
       ServerOf[p] \in up => cache[p][c].limite = Limite[c]
  /\ \A c \in Clientes : Upstream[c] \notin up =>
       clientes[c] = 0 /\ cache[Home(c)][c].saldo = 0
  /\ orphans = {}

LedgerInv == ServerInv /\ \A t \in Threads : CallInv(t)

-----------------------------------------------------------------------------
LEMMA HomeProc ==
  ASSUME OneWorkerPerServer
  PROVE  /\ \A c \in Clientes : Home(c) \in Procs /\ ServerOf[Home(c)] = Upstream[c]
         /\ \A c \in Clientes, p \in Procs : ServerOf[p] = Upstream[c] => p = Home(c)
<1>1. ASSUME NEW c \in Clientes
      PROVE  Home(c) \in Procs /\ ServerOf[Home(c)] = Upstream[c]
  <2>1. \E p \in Procs : ServerOf[p] = Upstream[c]
    BY DEF OneWorkerPerServer
  <2>2. QED
    BY <2>1 DEF Home
<1>2. QED
  BY <1>1 DEF OneWorkerPerServer

LEMMA InitLedger == ASSUME OneWorkerPerServer, Init PROVE LedgerInv
BY HomeProc DEF Init, LedgerInv, ServerInv, CallInv, ZeroCache

\* A request in its handler is a call of a client of this server.
LEMMA InCall ==
  ASSUME TypeOK, LedgerInv, NEW t \in Threads, pc[t] \notin {"idle", "answer"}
  PROVE  /\ P(t) \in Procs /\ C(t) \in Clientes
         /\ status[t] = 200
         /\ P(t) = Home(C(t)) /\ ServerOf[P(t)] \in up
         /\ Pedido(t) \in Pedidos
         /\ lock[P(t)] \in Threads \cup {NULL}
BY InHandler DEF LedgerInv, CallInv, TypeOK, ServersOK

\* What a step of t has to leave alone, so that the invariant of the others
\* is kept.
LEMMA OthersKept ==
  ASSUME LedgerInv, NEW t \in Threads, NEW u \in Threads \ {t},
         pc'[u] = pc[u], req'[u] = req[u], status'[u] = status[u],
         saldo'[u] = saldo[u], up' = up,
         lock[P(u)] = u => lock'[P(u)] = u,
         lock[P(u)] = u =>
           cache'[P(u)][C(u)].saldo = cache[P(u)][C(u)].saldo
  PROVE  CallInv(u)'
BY DEF LedgerInv, CallInv, C, P, Pedido, Delta

\* A step of one handler from one place to another, with the same request,
\* cache and mutex.
LEMMA MoveKept ==
  ASSUME TypeOK, LedgerInv, NEW t \in Threads, NEW l \in PC, Goto(t, l),
         pc[t] \notin {"idle", "answer"},
         UNCHANGED <<up, req, status, cache, lock>>,
         \A u \in Threads \ {t} : saldo'[u] = saldo[u],
         l \notin {"calc", "copy"},
         l = "store" => /\ pc[t] = "calc"
                        /\ saldo'[t] = cache[P(t)][C(t)].saldo + Delta(t),
         l \in {"lock", "insert", "commit"} => req[t].tipo \in {"c", "d"},
         l \in {"rows", "getlock", "update"} => req[t].tipo = "extrato"
  PROVE  \A u \in Threads : CallInv(u)'
<1>1. pc'[t] = l /\ \A u \in Threads \ {t} : pc'[u] = pc[u]
  BY DEF Goto, TypeOK, LocalsOK
<1>2. \A u \in Threads \ {t} : CallInv(u)'
  BY <1>1, OthersKept
<1>3. CallInv(t)'
  BY <1>1, InCall DEF LedgerInv, CallInv, C, P, Pedido, Delta
<1>4. QED
  BY <1>2, <1>3

\* Nobody else had the mutex that t takes.
LEMMA LockKept ==
  ASSUME TypeOK, LedgerInv, NEW t \in Threads, Lock(t)
  PROVE  LedgerInv'
<1> USE DEF Lock
<1>1. /\ pc'[t] = (IF pc[t] = "lock" THEN "calc" ELSE "copy")
      /\ \A u \in Threads \ {t} : pc'[u] = pc[u]
  BY DEF Goto, TypeOK, LocalsOK
<1>2. P(t) \in Procs /\ lock'[P(t)] = t
  BY InCall DEF TypeOK, ServersOK
<1>3. ASSUME NEW u \in Threads \ {t} PROVE CallInv(u)'
  <2>1. lock[P(u)] = u => P(u) # P(t)
    BY ApiAssumption
  <2>2. lock[P(u)] = u => lock'[P(u)] = u
    BY <1>2, <2>1 DEF TypeOK, ServersOK
  <2>3. QED
    BY <1>1, <2>2, OthersKept
<1>4. CallInv(t)'
  BY <1>1, <1>2, InCall DEF LedgerInv, CallInv, C, P, Pedido, Delta
<1>5. QED
  BY <1>3, <1>4 DEF LedgerInv, ServerInv, tables

\* The owner releases the mutex; who waits for it did not have it.
LEMMA UnlockKept ==
  ASSUME TypeOK, LedgerInv, NEW t \in Threads, Unlock(t),
         pc[t] \in {"store", "copy"}
  PROVE  \A u \in Threads \ {t} :
           lock[P(u)] = u => P(u) # P(t) /\ lock'[P(u)] = u
<1>1. P(t) \in Procs /\ lock[P(t)] = t
  BY InCall DEF LedgerInv, CallInv
<1>2. QED
  BY <1>1 DEF Unlock, TypeOK, ServersOK

LEMMA CalcKept ==
  ASSUME TypeOK, LedgerInv, NEW t \in Threads, Calc(t)
  PROVE  LedgerInv'
<1> USE DEF Calc
<1>1. saldo'[t] = cache[P(t)][C(t)].saldo + Delta(t)
  BY DEF TypeOK, LocalsOK
<1>2. \A u \in Threads : CallInv(u)'
  BY <1>1, MoveKept DEF PC, TypeOK, LocalsOK
<1>3. QED
  BY <1>2 DEF LedgerInv, ServerInv, tables

LEMMA StoreKept ==
  ASSUME OneWorkerPerServer, TypeOK, LedgerInv, NEW t \in Threads, Store(t)
  PROVE  LedgerInv'
<1> USE DEF Store
<1>1. /\ P(t) \in Procs /\ C(t) \in Clientes
      /\ P(t) = Home(C(t)) /\ ServerOf[P(t)] \in up
  BY InCall
<1>2. \A p \in Procs, c \in Clientes :
        /\ cache'[p][c].limite = cache[p][c].limite
        /\ ~(p = P(t) /\ c = C(t)) => cache'[p][c].saldo = cache[p][c].saldo
  <2>1. ASSUME NEW p \in Procs, NEW c \in Clientes
        PROVE  /\ cache'[p][c].limite = cache[p][c].limite
               /\ ~(p = P(t) /\ c = C(t)) => cache'[p][c].saldo = cache[p][c].saldo
    <3>1. CASE p = P(t) /\ c = C(t)
      BY <1>1, <3>1 DEF TypeOK, ServersOK
    <3>2. CASE ~(p = P(t) /\ c = C(t))
      <4>1. cache'[p][c] = cache[p][c]
        BY <1>1, <3>2 DEF TypeOK, ServersOK
      <4>2. QED
        BY <3>2, <4>1
    <3>3. QED
      BY <3>1, <3>2
  <2>2. QED
    BY <2>1
<1>3. pc'[t] = "insert" /\ \A u \in Threads \ {t} : pc'[u] = pc[u]
  BY DEF Goto, TypeOK, LocalsOK
<1>4. ASSUME NEW u \in Threads \ {t} PROVE CallInv(u)'
  <2>1. CASE pc[u] = "store"
    <3>1. lock[P(u)] = u /\ P(u) # P(t)
      BY <2>1, UnlockKept DEF LedgerInv, CallInv
    <3>2. cache'[P(u)][C(u)].saldo = cache[P(u)][C(u)].saldo
      BY <1>2, <2>1, <3>1, InCall
    <3>3. QED
      BY <1>3, <3>1, <3>2, UnlockKept, OthersKept
  <2>2. CASE pc[u] # "store"
    BY <1>3, <2>2, UnlockKept DEF LedgerInv, CallInv, C, P, Pedido, Delta
  <2>3. QED
    BY <2>1, <2>2
<1>5. CallInv(t)'
  BY <1>1, <1>3, InCall DEF LedgerInv, CallInv, C, P, Pedido
<1>6. ServerInv'
  <2>1. ASSUME NEW c \in Clientes, Upstream[c] \notin up
        PROVE  cache'[Home(c)][c].saldo = 0
    <3>1. c # C(t)
      BY <1>1, <2>1, HomeProc
    <3>2. QED
      BY <1>2, <2>1, <3>1, HomeProc DEF LedgerInv, ServerInv
  <2>2. QED
    BY <1>2, <2>1 DEF LedgerInv, ServerInv, tables
<1>7. QED
  BY <1>4, <1>5, <1>6 DEF LedgerInv

\* A step that releases the mutex and leaves the cache alone.
LEMMA RefuseCopyKept ==
  ASSUME TypeOK, LedgerInv, NEW t \in Threads, Refuse(t) \/ Copy(t)
  PROVE  LedgerInv'
<1>1. /\ pc'[t] = (IF pc[t] = "copy" THEN "update" ELSE "answer")
      /\ \A u \in Threads \ {t} : /\ pc'[u] = pc[u]
                                  /\ status'[u] = status[u]
                                  /\ saldo'[u] = saldo[u]
      /\ UNCHANGED <<up, req, cache, clientes, orphans>>
  BY DEF Refuse, Copy, Goto, TypeOK, LocalsOK, tables
<1>2. ASSUME NEW u \in Threads \ {t} PROVE CallInv(u)'
  BY <1>1, UnlockKept, OthersKept DEF Refuse, Copy
<1>3. CallInv(t)'
  <2>1. CASE Refuse(t)
    BY <1>1, <2>1, InCall DEF Refuse, LedgerInv, CallInv, C, P, Pedido
  <2>2. CASE Copy(t)
    BY <1>1, <2>2, InCall DEF Copy, LedgerInv, CallInv, C, P, Pedido
  <2>3. QED
    BY <2>1, <2>2
<1>4. QED
  BY <1>1, <1>2, <1>3 DEF LedgerInv, ServerInv

LEMMA UpdateKept ==
  ASSUME OneWorkerPerServer, TypeOK, LedgerInv, NEW t \in Threads, Update(t)
  PROVE  LedgerInv'
<1> USE DEF Update
<1>1. \A u \in Threads : CallInv(u)'
  BY MoveKept DEF PC
<1>2. ASSUME NEW c \in Clientes, Upstream[c] \notin up PROVE clientes'[c] = 0
  <2>1. c # C(t)
    BY <1>2, InCall, HomeProc
  <2>2. QED
    BY <1>2, <2>1 DEF LedgerInv, ServerInv, TypeOK, TablesOK
<1>3. QED
  BY <1>1, <1>2 DEF LedgerInv, ServerInv

\* A call ends.
LEMMA RespondKept ==
  ASSUME TypeOK, LedgerInv, NEW t \in Threads, Respond(t)
  PROVE  LedgerInv'
<1> USE DEF Respond
<1>1. /\ pc'[t] = "idle"
      /\ \A u \in Threads \ {t} : /\ pc'[u] = pc[u] /\ req'[u] = req[u]
                                  /\ status'[u] = status[u]
                                  /\ saldo'[u] = saldo[u]
  BY DEF Clear
<1>2. \A u \in Threads \ {t} : CallInv(u)'
  BY <1>1, OthersKept
<1>3. CallInv(t)'
  BY <1>1 DEF CallInv
<1>4. QED
  BY <1>2, <1>3 DEF LedgerInv, ServerInv, tables

\* The statements of either handler, when they succeed and when they fail.
LEMMA StatementKept ==
  ASSUME TypeOK, LedgerInv, NEW t \in Threads,
         Insert(t) \/ Commit(t) \/ Rows(t) \/ Fail(t)
  PROVE  LedgerInv'
<1>1. /\ \E l \in {"commit", "answer", "getlock"} :
           /\ Goto(t, l)
           /\ l = "commit" => pc[t] = "insert"
           /\ l = "getlock" => pc[t] = "rows"
      /\ pc[t] \in {"insert", "commit", "rows", "update"}
      /\ UNCHANGED <<up, req, status, saldo, cache, lock, clientes, orphans>>
  BY DEF Insert, Commit, Rows, Fail, tables
<1>2. PICK l \in {"commit", "answer", "getlock"} :
           /\ Goto(t, l)
           /\ l = "commit" => pc[t] = "insert"
           /\ l = "getlock" => pc[t] = "rows"
  BY <1>1
<1>3. l = "commit" => req[t].tipo \in {"c", "d"}
  BY <1>2 DEF LedgerInv, CallInv
<1>4. l = "getlock" => req[t].tipo = "extrato"
  BY <1>2 DEF LedgerInv, CallInv
<1>5. \A u \in Threads : CallInv(u)'
  BY <1>1, <1>2, <1>3, <1>4, MoveKept DEF PC
<1>6. QED
  BY <1>1, <1>5 DEF LedgerInv, ServerInv

LEMMA StepKept ==
  ASSUME OneWorkerPerServer, TypeOK, LedgerInv, NEW t \in Threads, Step(t)
  PROVE  LedgerInv'
BY LockKept, CalcKept, StoreKept, RefuseCopyKept, UpdateKept, RespondKept,
   StatementKept DEF Step

\* Only a call of a client that the server knows passes the tests.
LEMMA VerdictLetsThrough ==
  \A r \in Pedidos \cup Malformed : Verdict(r) = 200 =>
    /\ r \in Pedidos
    /\ r = [tipo |-> r.tipo, cliente |-> r.cliente, valor |-> r.valor]
BY ApiAssumption DEF Pedidos, Malformed, Verdict

LEMMA Taken ==
  ASSUME TypeOK, NEW t \in Threads, NEW r \in Pedidos \cup Malformed, Take(t, r)
  PROVE  /\ req'[t].tipo = r.tipo /\ req'[t].cliente = r.cliente
         /\ req'[t].valor = r.valor
         /\ status'[t] = Verdict(r)
         /\ pc'[t] = IF Verdict(r) # 200 THEN "answer"
                     ELSE IF r.tipo = "extrato" THEN "rows" ELSE "lock"
         /\ \A u \in Threads \ {t} :
              pc'[u] = pc[u] /\ req'[u] = req[u] /\ status'[u] = status[u]
<1> USE DEF Take, TypeOK, LocalsOK
<1>1. pc'[t] = IF Verdict(r) # 200 THEN "answer"
               ELSE IF r.tipo = "extrato" THEN "rows" ELSE "lock"
  BY DEF Goto
<1>2. \A u \in Threads \ {t} : pc'[u] = pc[u]
  BY DEF Goto
<1>3. QED
  BY <1>1, <1>2

LEMMA ReceiveKept ==
  ASSUME OneWorkerPerServer, TypeOK, LedgerInv, NEW t \in Threads, Receive(t)
  PROVE  LedgerInv'
<1> USE DEF Receive
<1>1. PICK r \in Pedidos \cup Malformed : Take(t, r)
  OBVIOUS
<1>2. \A u \in Threads \ {t} : CallInv(u)'
  BY <1>1, Taken, OthersKept
<1>3. CallInv(t)'
  <2>1. CASE Verdict(r) = 200
    <3>1. r \in Pedidos /\ Pedido(t)' = r /\ C(t)' = r.cliente
      BY <1>1, <2>1, VerdictLetsThrough, Taken DEF Pedido, C
    <3>2. P(t) \in Procs /\ Upstream[r.cliente] = ServerOf[P(t)]
      BY <1>1, <2>1, VerdictType, ApiAssumption DEF Take, Routed, P
    <3>3. P(t) = Home(r.cliente)
      BY <2>1, <3>2, VerdictType, HomeProc
    <3>4. r.tipo \in {"extrato", "c", "d"}
      BY <2>1, VerdictType
    <3>5. QED
      BY <1>1, <2>1, <3>1, <3>3, <3>4, Taken DEF CallInv, P
  <2>2. CASE Verdict(r) # 200
    BY <1>1, <2>2, VerdictType, Taken DEF CallInv, P
  <2>3. QED
    BY <2>1, <2>2
<1>4. QED
  BY <1>2, <1>3 DEF LedgerInv, ServerInv, tables

\* A server starts: none of its threads has a call.
LEMMA BootKept ==
  ASSUME OneWorkerPerServer, NoRestart, TypeOK, LedgerInv,
         NEW s \in Servers, Boot(s)
  PROVE  /\ LedgerInv'
         /\ \A c \in Clientes : cache'[Home(c)][c].saldo = cache[Home(c)][c].saldo
<1> USE DEF Boot
<1>1. \A p \in Procs : cache'[p] = IF ServerOf[p] = s
        THEN [c \in Clientes |-> [limite |-> Limite[c], saldo |-> clientes[c]]]
        ELSE cache[p]
  BY DEF NoRestart, AtServer
<1>2. \A c \in Clientes : cache'[Home(c)][c].saldo = cache[Home(c)][c].saldo
  BY <1>1, HomeProc DEF LedgerInv, ServerInv
<1>3. ASSUME NEW u \in Threads PROVE CallInv(u)'
  <2>1. P(u) \in Procs
    BY ApiAssumption DEF P
  <2>2. pc[u] # "idle" => cache'[P(u)] = cache[P(u)]
    BY <1>1, <2>1 DEF LedgerInv, CallInv
  <2>3. QED
    BY <2>2 DEF LedgerInv, CallInv, C, P, Pedido, Delta, locals
<1>4. \A p \in Procs, c \in Clientes :
        ServerOf[p] \in up' => cache'[p][c].limite = Limite[c]
  BY <1>1 DEF LedgerInv, ServerInv
<1>5. QED
  BY <1>2, <1>3, <1>4 DEF LedgerInv, ServerInv, tables

LEMMA NextKept ==
  ASSUME OneWorkerPerServer, NoRestart, TypeOK, LedgerInv, [Next]_vars
  PROVE  LedgerInv'
<1>1. CASE UNCHANGED vars \/ Done
  BY <1>1 DEF Done, vars, locals, tables, LedgerInv, ServerInv, CallInv,
              C, P, Pedido, Delta
<1>2. ASSUME NEW s \in Servers PROVE ~Crash(s)
  BY DEF NoRestart, Crash, TypeOK, CountsOK
<1>3. ~Orphan
  BY DEF Orphan, LedgerInv, ServerInv
<1>4. QED
  BY <1>1, <1>2, <1>3, StepKept, ReceiveKept, BootKept DEF Next

-----------------------------------------------------------------------------
\* The refinement: the balances and the calls that Ledger sees.
Contas == [c \in Clientes |-> cache[Home(c)][c].saldo]
Chamadas == [t \in Threads |-> CallOf(t)]

\* What a step of t alone does to the calls.
LEMMA CallMoves ==
  ASSUME NEW t \in Threads, NEW v, CallOf(t)' = v,
         \A u \in Threads \ {t} : /\ pc'[u] = pc[u] /\ req'[u] = req[u]
                                  /\ status'[u] = status[u]
                                  /\ saldo'[u] = saldo[u]
  PROVE  Chamadas' = [Chamadas EXCEPT ![t] = v]
<1>1. \A u \in Threads \ {t} : CallOf(u)' = CallOf(u)
  BY DEF CallOf, Pedido, C
<1>2. QED
  BY <1>1 DEF Chamadas

LEMMA InitPromise == ASSUME OneWorkerPerServer, Init PROVE Promise!Init
<1>1. Chamadas = [t \in Threads |-> [fase |-> "livre"]]
  BY DEF Init, Chamadas, CallOf
<1>2. Contas = [c \in Clientes |-> 0]
  BY HomeProc DEF Init, Contas, ZeroCache
<1>3. QED
  BY <1>1, <1>2 DEF Promise!Init, Promise!Livre, Chamadas, Contas

\* Neither the balances nor the calls change.
LEMMA Stutter ==
  ASSUME \A c \in Clientes : cache'[Home(c)][c].saldo = cache[Home(c)][c].saldo,
         \A u \in Threads : CallOf(u)' = CallOf(u)
  PROVE  UNCHANGED <<Contas, Chamadas>>
BY DEF Contas, Chamadas

LEMMA Pending ==
  ASSUME TypeOK, LedgerInv, NEW t \in Threads, pc[t] \in {"store", "copy"}
  PROVE  /\ Chamadas[t].fase = "aberta" /\ Chamadas[t].pedido = Pedido(t)
         /\ Contas[C(t)] = cache[P(t)][C(t)].saldo
         /\ C(t) \in Clientes
BY InCall DEF Chamadas, CallOf, Contas

\* The actions of Ledger, said of these balances and calls.
TakesEffect(t, tipo, novo, total) ==
  /\ Chamadas[t].fase = "aberta"
  /\ Chamadas[t].pedido.tipo = tipo
  /\ Contas' = [Contas EXCEPT ![Chamadas[t].pedido.cliente] = novo]
  /\ Chamadas' = [Chamadas EXCEPT ![t] =
       [fase |-> "feita", pedido |-> Chamadas[t].pedido, total |-> total]]

LEMMA PromiseMeans ==
  ASSUME NEW t
  PROVE  /\ Promise!Conta(t) = Chamadas[t].pedido.cliente
         /\ Promise!Credited(t) =
              Contas[Chamadas[t].pedido.cliente] + Chamadas[t].pedido.valor
         /\ Promise!Debited(t) =
              Contas[Chamadas[t].pedido.cliente] - Chamadas[t].pedido.valor
BY DEF Promise!Conta, Promise!Credited, Promise!Debited, Contas, Chamadas

LEMMA StorePromise ==
  ASSUME OneWorkerPerServer, TypeOK, LedgerInv, NEW t \in Threads, Store(t)
  PROVE  Promise!Creditar(t) \/ Promise!Debitar(t)
<1> USE DEF Store
<1>1. /\ P(t) \in Procs /\ C(t) \in Clientes
      /\ P(t) = Home(C(t)) /\ ServerOf[P(t)] \in up
      /\ req[t].tipo \in {"c", "d"}
  BY InCall DEF LedgerInv, CallInv
<1>2. /\ saldo[t] = Contas[C(t)] + Delta(t)
      /\ Contas[C(t)] \in Int /\ req[t].valor \in Int
      /\ Limite[C(t)] \in Int
      /\ cache[P(t)][C(t)].limite = Limite[C(t)]
  <2>1. Contas[C(t)] = cache[P(t)][C(t)].saldo
    BY Pending
  <2>2. cache[P(t)][C(t)].saldo \in Int
    BY <1>1 DEF TypeOK, ServersOK
  <2>3. saldo[t] = cache[P(t)][C(t)].saldo + Delta(t)
    BY DEF LedgerInv, CallInv
  <2>4. req[t].valor \in Int
    BY DEF TypeOK, LocalsOK, Chamada
  <2>5. cache[P(t)][C(t)].limite = Limite[C(t)]
    BY <1>1 DEF LedgerInv, ServerInv
  <2>6. Limite[C(t)] \in Int
    BY <1>1, LimitType
  <2>7. QED
    BY <2>1, <2>2, <2>3, <2>4, <2>5, <2>6
<1>3. Chamadas' = [Chamadas EXCEPT ![t] =
                     [fase |-> "feita", pedido |-> Pedido(t), total |-> saldo[t]]]
  <2>1. pc'[t] = "insert" /\ \A u \in Threads \ {t} : pc'[u] = pc[u]
    BY DEF Goto, TypeOK, LocalsOK
  <2>2. CallOf(t)' = [fase |-> "feita", pedido |-> Pedido(t), total |-> saldo[t]]
    BY <2>1, InCall DEF CallOf, Pedido, C
  <2>3. QED
    BY <2>1, <2>2, CallMoves
<1>4. Contas' = [Contas EXCEPT ![C(t)] = saldo[t]]
  <2>1. ASSUME NEW c \in Clientes
        PROVE  cache'[Home(c)][c].saldo =
                 IF c = C(t) THEN saldo[t] ELSE cache[Home(c)][c].saldo
    <3>1. Home(c) \in Procs
      BY HomeProc
    <3>2. CASE c = C(t)
      BY <1>1, <3>1, <3>2 DEF TypeOK, ServersOK
    <3>3. CASE c # C(t)
      <4>1. cache'[Home(c)][c] = cache[Home(c)][c]
        BY <1>1, <3>1, <3>3 DEF TypeOK, ServersOK
      <4>2. QED
        BY <3>3, <4>1
    <3>4. QED
      BY <3>2, <3>3
  <2>2. QED
    BY <2>1 DEF Contas
<1>5. /\ Chamadas[t].fase = "aberta" /\ Chamadas[t].pedido = Pedido(t)
      /\ Pedido(t).tipo = req[t].tipo /\ Pedido(t).cliente = C(t)
      /\ Pedido(t).valor = req[t].valor
  <2>1. Chamadas[t].fase = "aberta" /\ Chamadas[t].pedido = Pedido(t)
    BY Pending
  <2>2. QED
    BY <2>1 DEF Pedido
<1>6. CASE req[t].tipo = "c"
  <2>1. saldo[t] = Contas[C(t)] + req[t].valor
    BY <1>2, <1>6 DEF Delta
  <2>2. Promise!Credited(t) = saldo[t]
    BY <1>5, <2>1, PromiseMeans
  <2>3. TakesEffect(t, "c", Promise!Credited(t), Promise!Credited(t))
    BY <1>3, <1>4, <1>5, <1>6, <2>2 DEF TakesEffect
  <2>4. QED
    BY <2>3 DEF Promise!Creditar, TakesEffect, Promise!Effect, Promise!Feita,
                Contas, Chamadas
<1>7. CASE req[t].tipo = "d"
  <2>1. saldo[t] = Contas[C(t)] - req[t].valor
    BY <1>2, <1>7 DEF Delta
  <2>2. saldo[t] > -Limite[C(t)]
    BY <1>2, <1>7 DEF Accepted
  <2>3. Promise!Debited(t) = saldo[t] /\ Promise!Conta(t) = C(t)
    BY <1>5, <2>1, PromiseMeans
  <2>4. TakesEffect(t, "d", Promise!Debited(t), Promise!Debited(t))
    BY <1>3, <1>4, <1>5, <1>7, <2>3 DEF TakesEffect
  <2>5. Promise!Effect(t, "d", Promise!Debited(t), Promise!Debited(t))
    BY <2>4 DEF TakesEffect, Promise!Effect, Promise!Feita, Contas, Chamadas
  <2>6. QED
    BY <1>5, <2>2, <2>3, <2>5 DEF Promise!Debitar, Chamadas
<1>8. QED
  BY <1>1, <1>6, <1>7

LEMMA RefusePromise ==
  ASSUME TypeOK, LedgerInv, NEW t \in Threads, Refuse(t)
  PROVE  Promise!Recusar(t)
<1> USE DEF Refuse
<1>1. /\ P(t) \in Procs /\ C(t) \in Clientes /\ ServerOf[P(t)] \in up
      /\ req[t].tipo \in {"c", "d"}
  BY InCall DEF LedgerInv, CallInv
<1>2. /\ Chamadas[t].fase = "aberta" /\ Chamadas[t].pedido = Pedido(t)
      /\ Contas[C(t)] = cache[P(t)][C(t)].saldo
  BY Pending
<1>3. /\ Pedido(t).tipo = req[t].tipo /\ Pedido(t).cliente = C(t)
      /\ Pedido(t).valor = req[t].valor
  BY DEF Pedido
<1>4. /\ Promise!Debited(t) = Contas[C(t)] - req[t].valor
      /\ Promise!Conta(t) = C(t)
  BY <1>2, <1>3, PromiseMeans
<1>5. Promise!Debited(t) <= -Limite[Promise!Conta(t)] /\ req[t].tipo = "d"
  <2>1. /\ cache[P(t)][C(t)].saldo \in Int
        /\ cache[P(t)][C(t)].limite = Limite[C(t)]
        /\ Limite[C(t)] \in Int /\ req[t].valor \in Int
    BY <1>1, LimitType
       DEF LedgerInv, ServerInv, TypeOK, ServersOK, LocalsOK, Chamada
  <2>2. saldo[t] = cache[P(t)][C(t)].saldo - req[t].valor /\ req[t].tipo = "d"
    BY <1>1, <2>1 DEF LedgerInv, CallInv, Delta, Accepted
  <2>3. ~(saldo[t] > -Limite[C(t)])
    BY <2>1 DEF Accepted
  <2>4. QED
    BY <1>2, <1>4, <2>1, <2>2, <2>3
<1>6. Chamadas' = [Chamadas EXCEPT ![t] =
                     [fase |-> "feita", pedido |-> Pedido(t), total |-> INT64_MIN]]
  <2>1. /\ pc'[t] = "answer" /\ status'[t] = 422 /\ saldo'[t] = INT64_MIN
        /\ \A u \in Threads \ {t} :
             pc'[u] = pc[u] /\ status'[u] = status[u] /\ saldo'[u] = saldo[u]
    BY DEF Goto, TypeOK, LocalsOK
  <2>2. CallOf(t)' = [fase |-> "feita", pedido |-> Pedido(t), total |-> INT64_MIN]
    BY <2>1 DEF CallOf, Pedido, C
  <2>3. QED
    BY <2>1, <2>2, CallMoves
<1>7. Contas' = [Contas EXCEPT ![C(t)] = Contas[Promise!Conta(t)]]
  BY <1>4 DEF Contas
<1>8. TakesEffect(t, "d", Contas[Promise!Conta(t)], INT64_MIN)
  BY <1>2, <1>3, <1>5, <1>6, <1>7 DEF TakesEffect
<1>9. QED
  BY <1>2, <1>5, <1>8 DEF Promise!Recusar, TakesEffect, Promise!Effect, Promise!Feita,
                          Contas, Chamadas

LEMMA CopyPromise ==
  ASSUME TypeOK, LedgerInv, NEW t \in Threads, Copy(t)
  PROVE  Promise!Consultar(t)
<1> USE DEF Copy
<1>1. req[t].tipo = "extrato" /\ status[t] = 200
  BY InCall DEF LedgerInv, CallInv
<1>2. /\ Chamadas[t].fase = "aberta" /\ Chamadas[t].pedido = Pedido(t)
      /\ Contas[C(t)] = cache[P(t)][C(t)].saldo
  BY Pending
<1>3. Pedido(t).tipo = req[t].tipo /\ Pedido(t).cliente = C(t)
  BY DEF Pedido
<1>4. Promise!Conta(t) = C(t)
  BY <1>2, <1>3, PromiseMeans
<1>5. Chamadas' = [Chamadas EXCEPT ![t] =
                     [fase |-> "feita", pedido |-> Pedido(t),
                      total |-> cache[P(t)][C(t)].saldo]]
  <2>1. /\ pc'[t] = "update" /\ saldo'[t] = cache[P(t)][C(t)].saldo
        /\ \A u \in Threads \ {t} : pc'[u] = pc[u] /\ saldo'[u] = saldo[u]
    BY DEF Goto, TypeOK, LocalsOK
  <2>2. CallOf(t)' = [fase |-> "feita", pedido |-> Pedido(t),
                      total |-> cache[P(t)][C(t)].saldo]
    BY <1>1, <2>1 DEF CallOf, Pedido, C
  <2>3. QED
    BY <2>1, <2>2, CallMoves
<1>6. Contas' = [Contas EXCEPT ![C(t)] = Contas[Promise!Conta(t)]]
  BY <1>4 DEF Contas
<1>7. TakesEffect(t, "extrato", Contas[Promise!Conta(t)], Contas[Promise!Conta(t)])
  BY <1>1, <1>2, <1>3, <1>4, <1>5, <1>6 DEF TakesEffect
<1>8. QED
  BY <1>2, <1>7 DEF Promise!Consultar, TakesEffect, Promise!Effect, Promise!Feita,
                    Contas, Chamadas

\* A request that passes the tests is a call; the others never are.
LEMMA ReceivePromise ==
  ASSUME TypeOK, LedgerInv, NEW t \in Threads, Receive(t)
  PROVE  Promise!Call(t) \/ UNCHANGED <<Contas, Chamadas>>
<1> USE DEF Receive
<1>1. PICK r \in Pedidos \cup Malformed : Take(t, r)
  OBVIOUS
<1>2. \A u \in Threads \ {t} : /\ pc'[u] = pc[u] /\ req'[u] = req[u]
                               /\ status'[u] = status[u] /\ saldo'[u] = saldo[u]
  BY <1>1, Taken
<1>3. Chamadas[t] = [fase |-> "livre"]
  BY DEF Chamadas, CallOf
<1>4. Contas' = Contas
  BY DEF Contas
<1>5. CASE Verdict(r) = 200
  <2>1. r \in Pedidos /\ Pedido(t)' = r
    BY <1>1, <1>5, VerdictLetsThrough, Taken DEF Pedido, C
  <2>2. CallOf(t)' = [fase |-> "aberta", pedido |-> r]
    BY <1>1, <1>5, <2>1, Taken DEF CallOf
  <2>3. Chamadas' = [Chamadas EXCEPT ![t] = [fase |-> "aberta", pedido |-> r]]
    BY <1>2, <2>2, CallMoves
  <2>4. Promise!Call(t)
    BY <1>3, <1>4, <2>1, <2>3
       DEF Promise!Call, Promise!Livre, Promise!Aberta, Chamadas, Contas
  <2>5. QED
    BY <2>4
<1>6. CASE Verdict(r) # 200
  <2>1. CallOf(t)' = [fase |-> "livre"]
    BY <1>1, <1>6, VerdictType, Taken DEF CallOf
  <2>2. Chamadas' = [Chamadas EXCEPT ![t] = [fase |-> "livre"]]
    BY <1>2, <2>1, CallMoves
  <2>3. QED
    BY <1>3, <1>4, <2>2 DEF Chamadas
<1>7. QED
  BY <1>5, <1>6

LEMMA RespondPromise ==
  ASSUME TypeOK, LedgerInv, NEW t \in Threads, Respond(t)
  PROVE  Promise!Return(t) \/ UNCHANGED <<Contas, Chamadas>>
<1> USE DEF Respond
<1>1. /\ pc'[t] = "idle"
      /\ \A u \in Threads \ {t} : /\ pc'[u] = pc[u] /\ req'[u] = req[u]
                                  /\ status'[u] = status[u]
                                  /\ saldo'[u] = saldo[u]
  BY DEF Clear
<1>2. CallOf(t)' = [fase |-> "livre"]
  BY <1>1 DEF CallOf
<1>3. Chamadas' = [Chamadas EXCEPT ![t] = [fase |-> "livre"]]
  BY <1>1, <1>2, CallMoves
<1>4. Contas' = Contas
  BY DEF Contas
<1>5. CASE status[t] \in {200, 422}
  <2>1. Chamadas[t].fase = "feita"
    BY <1>5 DEF Chamadas, CallOf
  <2>2. Promise!Return(t)
    BY <1>3, <1>4, <2>1 DEF Promise!Return, Promise!Livre, Chamadas, Contas
  <2>3. QED
    BY <2>2
<1>6. CASE status[t] \notin {200, 422}
  <2>1. Chamadas[t] = [fase |-> "livre"]
    BY <1>6 DEF Chamadas, CallOf, TypeOK, LocalsOK
  <2>2. QED
    BY <1>3, <1>4, <2>1 DEF Chamadas
<1>7. QED
  BY <1>5, <1>6

\* The other steps of a handler change no cached balance, and leave a call
\* where it was: a transaction before its answer is computed, a statement
\* before it copies, or either with its effect behind it.
LEMMA HandlerStutters ==
  ASSUME TypeOK, LedgerInv, NEW t \in Threads,
         \/ Lock(t) \/ Calc(t) \/ Insert(t) \/ Commit(t)
         \/ Rows(t) \/ Update(t) \/ Fail(t)
  PROVE  UNCHANGED <<Contas, Chamadas>>
<1>1. UNCHANGED <<cache, req, status>>
  BY DEF Lock, Calc, Insert, Commit, Rows, Update, Fail
<1>2. \A u \in Threads \ {t} : pc'[u] = pc[u] /\ saldo'[u] = saldo[u]
  BY DEF Lock, Calc, Insert, Commit, Rows, Update, Fail, Goto, TypeOK, LocalsOK
<1>3. /\ pc[t] # "idle" /\ pc'[t] # "idle"
      /\ pc'[t] \in {"insert", "commit", "update", "answer"} <=>
           pc[t] \in {"insert", "commit", "update", "answer"}
      /\ pc[t] \in {"insert", "commit", "update", "answer"} => saldo'[t] = saldo[t]
  BY DEF Lock, Calc, Insert, Commit, Rows, Update, Fail, Goto, TypeOK, LocalsOK
<1>4. ASSUME NEW u \in Threads PROVE CallOf(u)' = CallOf(u)
  <2>1. CASE u = t
    BY <1>1, <1>3, <2>1 DEF CallOf, Pedido, C
  <2>2. CASE u # t
    BY <1>1, <1>2, <2>2 DEF CallOf, Pedido, C
  <2>3. QED
    BY <2>1, <2>2
<1>5. QED
  BY <1>1, <1>4, Stutter

LEMMA NextPromise ==
  ASSUME OneWorkerPerServer, NoRestart, TypeOK, LedgerInv, [Next]_vars
  PROVE  [Promise!Next]_<<Contas, Chamadas>>
<1>1. CASE UNCHANGED vars \/ Done
  BY <1>1 DEF Done, vars, locals, Contas, Chamadas, CallOf, Pedido, C
<1>2. CASE \E t \in Threads : Receive(t) \/ Step(t)
  <2>1. PICK t \in Threads : Receive(t) \/ Step(t)
    BY <1>2
  <2>2. CASE Receive(t)
    BY <2>2, ReceivePromise DEF Promise!Next
  <2>3. CASE Store(t)
    BY <2>3, StorePromise DEF Promise!Next
  <2>4. CASE Refuse(t)
    BY <2>4, RefusePromise DEF Promise!Next
  <2>5. CASE Copy(t)
    BY <2>5, CopyPromise DEF Promise!Next
  <2>6. CASE Respond(t)
    BY <2>6, RespondPromise DEF Promise!Next
  <2>7. QED
    BY <2>1, <2>2, <2>3, <2>4, <2>5, <2>6, HandlerStutters DEF Step
<1>3. CASE \E s \in Servers : Boot(s)
  <2>1. PICK s \in Servers : Boot(s)
    BY <1>3
  <2>2. \A c \in Clientes : cache'[Home(c)][c].saldo = cache[Home(c)][c].saldo
    BY <2>1, BootKept
  <2>3. \A u \in Threads : CallOf(u)' = CallOf(u)
    BY <2>1 DEF Boot, locals, CallOf, Pedido, C
  <2>4. QED
    BY <2>2, <2>3, Stutter
<1>4. ASSUME NEW s \in Servers PROVE ~Crash(s)
  BY DEF NoRestart, Crash, TypeOK, CountsOK
<1>5. ~Orphan
  BY DEF Orphan, LedgerInv, ServerInv
<1>6. QED
  BY <1>1, <1>2, <1>3, <1>4, <1>5 DEF Next

\* models/cliente.h:42-70: every use of the cached balances is under one mutex.
\* With one worker for each server and no restart, each call therefore takes
\* effect on the one balance of its client in a single step between its
\* arrival and its answer, for any number of servers, threads, clients and
\* requests, whatever statements fail.
THEOREM ApiImplementsLedger ==
  ASSUME OneWorkerPerServer, NoRestart
  PROVE  Spec => ImplementsLedger
<1>1. Init => LedgerInv /\ Promise!Init
  BY InitLedger, InitPromise
<1>2. TypeOK /\ LedgerInv /\ [Next]_vars => LedgerInv'
  BY NextKept
<1>3. TypeOK /\ LedgerInv /\ [Next]_vars =>
        [Promise!Next]_<<[c \in Clientes |-> cache[Home(c)][c].saldo],
                         [t \in Threads |-> CallOf(t)]>>
  BY NextPromise DEF Contas, Chamadas
<1>4. QED
  BY <1>1, <1>2, <1>3, ApiTypeOK, PTL DEF Spec, ImplementsLedger, Promise!Spec

(***************************************************************************)
(* What is proved of the balances and of the history of the clients.       *)
(*                                                                         *)
(* SumsInv: each balance is the sum of movements none of which belongs to  *)
(* a request that has still to store its own, so no movement is counted    *)
(* twice.  It needs nothing of the deployment.                             *)
(*                                                                         *)
(* HistoryInv: what the balance, the table, the answers and the statements *)
(* of a client have in common.  It needs one worker for each server, and   *)
(* that no server is killed.                                               *)
(***************************************************************************)
(***************************************************************************)
(* The sum of a finite set of movements.  Sum is a fold, which takes the   *)
(* members one at a time in an order that CHOOSE makes; SumOfMore says     *)
(* that the order does not matter.                                         *)
(***************************************************************************)

\* A family of finite sets has a member that contains no other: induction over
\* a set takes the family of its subsets without the property.
LEMMA MinimalSet ==
  ASSUME NEW S, IsFiniteSet(S), NEW Bad, Bad \subseteq SUBSET S, Bad # {}
  PROVE  \E T \in Bad : \A U \in Bad : U \subseteq T => U = T
<1>1. Bad \subseteq FiniteSubsetsOf(S)
  BY FS_Subset DEF FiniteSubsetsOf
<1>2. PICK T \in Bad : \A U \in Bad : ~(<<U, T>> \in StrictSubsetOrdering(S))
  BY <1>1, FS_StrictSubsetOrderingWellFounded, WFMin
<1>3. QED
  BY <1>2 DEF StrictSubsetOrdering

\* The fold: the member it takes first, what it adds, and the function of it.
Chosen(s) == CHOOSE b \in s : TRUE
Added(g, s) == IF s = {} THEN 0 ELSE Chosen(s).delta + g[s \ {Chosen(s)}]
Adds(g, S) == g = [s \in SUBSET S |-> Added(g, s)]
Fold(S) == CHOOSE g : Adds(g, S)

\* Sum, as the community modules define it.
LEMMA SumIsFold == ASSUME NEW S PROVE Sum(S) = Fold(S)[S]
BY DEF Sum, MapThenSumSet, MapThenFoldSet, Fold, Adds, Added, Chosen

\* The folds of two sets agree on what they share.
LEMMA AddsAgree ==
  ASSUME NEW S, NEW T, IsFiniteSet(S), NEW g, NEW h, Adds(g, S), Adds(h, T),
         NEW s, s \subseteq S, s \subseteq T
  PROVE  g[s] = h[s]
<1> DEFINE Bad == {r \in SUBSET S : r \subseteq T /\ g[r] # h[r]}
<1> SUFFICES ASSUME Bad # {} PROVE FALSE
  OBVIOUS
<1>1. PICK r \in Bad : \A q \in Bad : q \subseteq r => q = r
  <2> HIDE DEF Bad
  <2>1. Bad \subseteq SUBSET S
    BY DEF Bad
  <2> QED BY <2>1, MinimalSet
<1>2. g[r] = Added(g, r) /\ h[r] = Added(h, r)
  BY <1>1 DEF Adds
<1>3. CASE r = {}
  BY <1>1, <1>2, <1>3 DEF Added
<1>4. CASE r # {}
  <2>1. Chosen(r) \in r
    BY <1>4 DEF Chosen
  <2>2. g[r \ {Chosen(r)}] = h[r \ {Chosen(r)}]
    <3>1. /\ r \ {Chosen(r)} \subseteq r /\ r \ {Chosen(r)} # r
          /\ r \ {Chosen(r)} \in SUBSET S /\ r \ {Chosen(r)} \subseteq T
      BY <1>1, <2>1
    <3>2. QED BY <1>1, <3>1
  <2>3. QED
    BY <1>1, <1>2, <1>4, <2>2 DEF Added
<1>5. QED BY <1>3, <1>4

\* There is such a function: that of a set is made of those of its subsets.
LEMMA FoldAdds ==
  ASSUME NEW S, IsFiniteSet(S)
  PROVE  Adds(Fold(S), S)
<1> DEFINE Bad == {r \in SUBSET S : ~Adds(Fold(r), r)}
<1> SUFFICES ASSUME Bad # {} PROVE FALSE
  OBVIOUS
<1>1. PICK r \in Bad : \A q \in Bad : q \subseteq r => q = r
  <2> HIDE DEF Bad
  <2>1. Bad \subseteq SUBSET S
    BY DEF Bad
  <2> QED BY <2>1, MinimalSet
<1>2. \A q \in SUBSET r : q # r => Adds(Fold(q), q) /\ IsFiniteSet(q)
  BY <1>1, FS_Subset
<1> DEFINE At(q) == IF q = {} THEN 0 ELSE Chosen(q).delta + Fold(q \ {Chosen(q)})[q \ {Chosen(q)}]
           g == [q \in SUBSET r |-> At(q)]
<1>3. ASSUME NEW q \in SUBSET r PROVE At(q) = Added(g, q)
  <2>1. CASE q = {}
    BY <2>1 DEF Added
  <2>2. CASE q # {}
    <3> DEFINE p == q \ {Chosen(q)}
    <3>1. p \in SUBSET r /\ p # r
      BY <2>2 DEF Chosen
    <3>2. Adds(Fold(p), p)
      BY <3>1, <1>2
    <3>3. Fold(p)[p] = Added(Fold(p), p)
      <4> HIDE DEF p
      <4> QED BY <3>2 DEF Adds
    <3>4. Fold(p)[p] = At(p)
      <4>1. CASE p = {}
        BY <3>3, <4>1 DEF Added
      <4>2. CASE p # {}
        <5> DEFINE o == p \ {Chosen(p)}
        <5>1. o \in SUBSET r /\ o # r /\ o \subseteq p
          BY <3>1
        <5>2. Adds(Fold(o), o) /\ IsFiniteSet(o)
          BY <5>1, <1>2
        <5>3. Fold(p)[o] = Fold(o)[o]
          <6> HIDE DEF o, p
          <6> QED BY <5>1, <5>2, <3>2, AddsAgree
        <5> QED BY <3>3, <4>2, <5>3 DEF Added
      <4> QED BY <4>1, <4>2
    <3>5. g[p] = At(p)
      BY <3>1
    <3> QED BY <2>2, <3>4, <3>5 DEF Added
  <2> QED BY <2>1, <2>2
<1>4. Adds(g, r)
  <2> HIDE DEF At
  <2> QED BY <1>3 DEF Adds
<1>5. Adds(Fold(r), r)
  <2> HIDE DEF g
  <2> QED BY <1>4 DEF Fold
<1> QED BY <1>1, <1>5

\* The recursion of Sum.
LEMMA SumUnfolds ==
  ASSUME NEW S, IsFiniteSet(S)
  PROVE  /\ S = {} => Sum(S) = 0
         /\ S # {} => Chosen(S) \in S /\ Sum(S) = Chosen(S).delta + Sum(S \ {Chosen(S)})
<1>1. CASE S = {}
  BY <1>1, SumIsFold, FoldAdds DEF Adds, Added
<1>2. CASE S # {}
  <2> DEFINE T == S \ {Chosen(S)}
  <2>1. Chosen(S) \in S
    BY <1>2 DEF Chosen
  <2>2. IsFiniteSet(T) /\ T \subseteq S
    BY FS_Subset
  <2>3. Adds(Fold(S), S) /\ Adds(Fold(T), T)
    BY <2>2, FoldAdds
  <2>4. Fold(S)[T] = Fold(T)[T]
    <3> HIDE DEF T
    <3> QED BY <2>2, <2>3, AddsAgree
  <2>5. Fold(S)[S] = Chosen(S).delta + Fold(S)[T]
    BY <2>3, <1>2 DEF Adds, Added
  <2> QED BY <1>2, <2>1, <2>4, <2>5, SumIsFold
<1> QED BY <1>1, <1>2

Summable(S) == \A b \in S : b.delta \in Int

\* The sum of numbers is a number.
LEMMA SumType ==
  ASSUME NEW S, IsFiniteSet(S), Summable(S)
  PROVE  Sum(S) \in Int
<1> DEFINE Bad == {r \in SUBSET S : Sum(r) \notin Int}
<1> SUFFICES ASSUME Bad # {} PROVE FALSE
  OBVIOUS
<1>1. PICK r \in Bad : \A q \in Bad : q \subseteq r => q = r
  <2> HIDE DEF Bad
  <2>1. Bad \subseteq SUBSET S
    BY DEF Bad
  <2> QED BY <2>1, MinimalSet
<1>2. IsFiniteSet(r)
  BY FS_Subset
<1>3. r # {}
  <2>1. r = {} => Sum(r) = 0
    BY <1>2, SumUnfolds
  <2>2. Sum(r) # 0
    BY <1>1
  <2>3. QED
    BY <2>1, <2>2
<1>4. Chosen(r) \in r /\ Sum(r) = Chosen(r).delta + Sum(r \ {Chosen(r)})
  <2> HIDE DEF Bad
  <2>1. IsFiniteSet(r) /\ r # {}
    BY <1>2, <1>3
  <2>2. QED
    BY <2>1, SumUnfolds
<1>5. Sum(r \ {Chosen(r)}) \in Int
  BY <1>1, <1>4
<1>6. Chosen(r).delta \in Int
  BY <1>1, <1>4 DEF Summable
<1> QED BY <1>1, <1>4, <1>5, <1>6

\* The sum may start with any member.
LEMMA SumTakesAny ==
  ASSUME NEW S, IsFiniteSet(S), Summable(S), NEW b \in S
  PROVE  Sum(S) = b.delta + Sum(S \ {b})
<1> DEFINE Bad == {r \in SUBSET S : \E a \in r : Sum(r) # a.delta + Sum(r \ {a})}
<1> SUFFICES ASSUME Bad # {} PROVE FALSE
  OBVIOUS
<1>1. PICK r \in Bad : \A q \in Bad : q \subseteq r => q = r
  <2> HIDE DEF Bad
  <2>1. Bad \subseteq SUBSET S
    BY DEF Bad
  <2> QED BY <2>1, MinimalSet
<1>2. PICK a \in r : Sum(r) # a.delta + Sum(r \ {a})
  BY <1>1
<1> DEFINE x == Chosen(r)
<1>3. IsFiniteSet(r)
  BY FS_Subset
<1>4. x \in r /\ Sum(r) = x.delta + Sum(r \ {x})
  BY <1>2, <1>3, SumUnfolds
<1>5. a # x
  BY <1>2, <1>4
<1>6. Sum(r \ {x}) = a.delta + Sum((r \ {x}) \ {a})
  <2>1. r \ {x} \in SUBSET S /\ r \ {x} # r /\ r \ {x} \subseteq r /\ a \in r \ {x}
    BY <1>4, <1>5
  <2> HIDE DEF x
  <2> QED BY <1>1, <2>1
<1>7. Sum(r \ {a}) = x.delta + Sum((r \ {a}) \ {x})
  <2>1. r \ {a} \in SUBSET S /\ r \ {a} # r /\ r \ {a} \subseteq r /\ x \in r \ {a}
    BY <1>4, <1>5
  <2> HIDE DEF x
  <2> QED BY <1>1, <2>1
<1>8. (r \ {x}) \ {a} = (r \ {a}) \ {x}
  OBVIOUS
<1>9. a.delta \in Int /\ x.delta \in Int
  BY <1>4 DEF Summable
<1>10. Sum((r \ {a}) \ {x}) \in Int
  <2>1. IsFiniteSet((r \ {a}) \ {x}) /\ Summable((r \ {a}) \ {x})
    BY FS_Subset DEF Summable
  <2> QED BY <2>1, SumType
<1> DEFINE rest == Sum((r \ {a}) \ {x})
<1>11. Sum(r) = x.delta + (a.delta + rest) /\ a.delta + Sum(r \ {a}) = a.delta + (x.delta + rest)
  BY <1>4, <1>6, <1>7, <1>8
<1> HIDE DEF x, rest
<1>12. rest \in Int
  BY <1>10 DEF rest
<1>13. x.delta + (a.delta + rest) = a.delta + (x.delta + rest)
  BY <1>9, <1>12
<1> QED BY <1>2, <1>11, <1>13

\* A movement that is new adds its amount.
LEMMA SumOfMore ==
  ASSUME NEW S, IsFiniteSet(S), Summable(S), NEW b, b \notin S, b.delta \in Int
  PROVE  Sum(S \cup {b}) = Sum(S) + b.delta
<1>1. IsFiniteSet(S \cup {b})
  BY FS_AddElement
<1>2. Summable(S \cup {b}) /\ (S \cup {b}) \ {b} = S
  BY DEF Summable
<1>3. Sum(S) \in Int
  BY SumType
<1>4. Sum(S \cup {b}) = b.delta + Sum((S \cup {b}) \ {b})
  BY <1>1, <1>2, SumTakesAny
<1>5. Sum(S \cup {b}) = b.delta + Sum(S)
  BY <1>2, <1>4
<1>6. QED
  BY <1>3, <1>5

-----------------------------------------------------------------------------
\* A balance that is the sum of movements, none of which is that of a request
\* still to be counted.
Backed(valor, B, last, open) ==
  /\ IsFiniteSet(B) /\ B \subseteq Movements
  /\ valor = Sum(B)
  /\ \A m \in B : m.tx <= last /\ m.tx \notin open

\* The transactions whose balance is not stored.
Asks(t) == pc[t] \in {"lock", "calc", "store"}
Open == {req[t].tx : t \in {u \in Threads : Asks(u)}}

\* In memory, in the database, and in the statements a dead server left behind.
BalancesBacked ==
  /\ \A p \in Procs, c \in Clientes : Backed(cache[p][c].saldo, booked[p][c], served, Open)
  /\ \A c \in Clientes : Backed(clientes[c], saved[c], served, Open)
  /\ \A o \in orphans : o.tipo = "extrato" => Backed(o.saldo, o.covers, served, Open)

\* What a call holds: a balance it is to save is backed, who computes or stores
\* has the mutex and the balance is as it was, and its number is its own.
CallBacked(t) ==
  /\ pc[t] = "update" => Backed(saldo[t], covers[t], served, Open)
  /\ pc[t] \in {"calc", "store", "copy"} => lock[P(t)] = t
  /\ pc[t] = "store" => saldo[t] = cache[P(t)][C(t)].saldo + Delta(t)
  /\ Asks(t) => /\ req[t].tx <= served
                /\ \A u \in Threads \ {t} : Asks(u) => req[u].tx # req[t].tx
  /\ pc[t] \in {"lock", "calc", "store", "insert", "commit"} => req[t].tipo \in {"c", "d"}
  /\ pc[t] # "idle" => ServerOf[P(t)] \in up

\* What BalancesAreSums rests on.
SumsInv == BalancesBacked /\ \A t \in Threads : CallBacked(t)

\* Zero is the sum of no movements.
LEMMA NothingBacked ==
  ASSUME NEW last, NEW open
  PROVE  Backed(0, {}, last, open)
BY SumUnfolds, FS_EmptySet DEF Backed

\* New numbers leave a backed balance backed.
LEMMA BackedLater ==
  ASSUME NEW last \in Nat, NEW last2 \in Nat, last <= last2, NEW open, NEW open2,
         \A x \in open2 : x \in open \/ x > last,
         NEW valor, NEW B, Backed(valor, B, last, open)
  PROVE  Backed(valor, B, last2, open2)
BY DEF Backed, Movements

\* A request that stores its balance adds its own movement, and only once.
LEMMA BackedWithMore ==
  ASSUME NEW last \in Nat, NEW open, NEW valor, NEW B, Backed(valor, B, last, open),
         NEW m \in Movements, m.tx \in open, m.tx <= last
  PROVE  Backed(valor + m.delta, B \cup {m}, last, open \ {m.tx})
<1>1. IsFiniteSet(B) /\ B \subseteq Movements /\ valor = Sum(B) /\ m \notin B
  BY DEF Backed
<1>2. IsFiniteSet(B \cup {m})
  BY <1>1, FS_AddElement
<1>3. Summable(B) /\ m.delta \in Int
  BY <1>1 DEF Summable, Movements
<1>4. Sum(B \cup {m}) = valor + m.delta
  BY <1>1, <1>3, SumOfMore
<1>5. \A x \in B \cup {m} : x.tx <= last /\ x.tx \notin open \ {m.tx}
  BY DEF Backed
<1>6. B \cup {m} \subseteq Movements
  BY <1>1
<1>7. QED
  BY <1>2, <1>4, <1>5, <1>6 DEF Backed

-----------------------------------------------------------------------------
\* What a step does to the numbers of requests: those who ask asked before,
\* or came with a new number.
Numbered ==
  /\ served \in Nat /\ served' \in Nat /\ served <= served'
  /\ \A t \in Threads : Asks(t)' =>
       \/ Asks(t) /\ req'[t].tx = req[t].tx
       \/ req'[t].tx > served

\* A balance that the step leaves stays backed.
LEMMA StaysBacked ==
  ASSUME Numbered, NEW valor, NEW B, Backed(valor, B, served, Open)
  PROVE  Backed(valor, B, served', Open')
<1>1. \A x \in Open' : x \in Open \/ x > served
  BY DEF Numbered, Open
<1>2. QED
  BY <1>1, BackedLater DEF Numbered

\* A step that leaves the balances.
LEMMA BalancesStay ==
  ASSUME SumsInv, Numbered, UNCHANGED <<cache, booked, clientes, saved, orphans>>
  PROVE  BalancesBacked'
BY StaysBacked DEF SumsInv, BalancesBacked

\* A step leaves the call of u as it is, when what u relies on is left.
LEMMA OthersBacked ==
  ASSUME SumsInv, Numbered, NEW u \in Threads,
         pc'[u] = pc[u], req'[u] = req[u], saldo'[u] = saldo[u], covers'[u] = covers[u],
         lock[P(u)] = u => lock'[P(u)] = u,
         lock[P(u)] = u /\ pc[u] = "store" =>
           cache'[P(u)][C(u)].saldo = cache[P(u)][C(u)].saldo,
         ServerOf[P(u)] \in up => ServerOf[P(u)] \in up',
         TypeOK
  PROVE  CallBacked(u)'
<1>1. CallBacked(u)
  BY DEF SumsInv
<1>2. (pc[u] = "update" => Backed(saldo[u], covers[u], served, Open))'
  BY <1>1, StaysBacked DEF CallBacked
<1>3. Asks(u)' => /\ req'[u].tx <= served'
                  /\ \A w \in Threads \ {u} : Asks(w)' => req'[w].tx # req'[u].tx
  <2>1. SUFFICES ASSUME Asks(u)' PROVE /\ req'[u].tx <= served'
                  /\ \A w \in Threads \ {u} : Asks(w)' => req'[w].tx # req'[u].tx
    OBVIOUS
  <2>2. Asks(u) /\ req[u].tx <= served /\ req[u].tx \in Nat
    BY <1>1, <2>1 DEF CallBacked, Asks, TypeOK, LocalsOK, Chamada
  <2>3. ASSUME NEW w \in Threads \ {u}, Asks(w)' PROVE req'[w].tx # req'[u].tx
    <3>1. CASE Asks(w) /\ req'[w].tx = req[w].tx
      BY <3>1, <1>1, <2>2 DEF CallBacked
    <3>2. CASE req'[w].tx > served
      BY <3>2, <2>2 DEF Numbered
    <3>3. QED BY <2>3, <3>1, <3>2 DEF Numbered
  <2>4. QED BY <2>2, <2>3 DEF Numbered
<1>4. QED
  BY <1>1, <1>2, <1>3 DEF CallBacked, P, C, Delta

\* A request in its handler, with what the invariant says of it.
LEMMA ThisBacked ==
  ASSUME TypeOK, SumsInv, NEW t \in Threads, pc[t] \notin {"idle", "answer"}
  PROVE  /\ P(t) \in Procs /\ C(t) \in Clientes /\ req[t].tx \in Nat
         /\ lock[P(t)] \in Threads \cup {NULL}
         /\ served \in Nat
         /\ CallBacked(t)
BY InHandler DEF SumsInv, TypeOK, LocalsOK, ServersOK, CountsOK, Chamada

\* Steps that change neither a balance nor a number: the mutex, the balance
\* computed or copied, the statements that do not save one, and the answer.
Quiet(t) ==
  \/ Lock(t) \/ Calc(t) \/ Refuse(t) \/ Insert(t) \/ Commit(t)
  \/ Rows(t) \/ Copy(t) \/ Fail(t) \/ Respond(t)

\* Such a step changes only the call of its thread.
LEMMA QuietNumbered ==
  ASSUME TypeOK, NEW t \in Threads, Quiet(t)
  PROVE  /\ Numbered /\ UNCHANGED <<up, served, cache, booked, clientes, saved, orphans>>
         /\ \A u \in Threads \ {t} : /\ pc'[u] = pc[u] /\ req'[u] = req[u]
                                     /\ saldo'[u] = saldo[u] /\ covers'[u] = covers[u]
         /\ pc'[t] # "idle" => req'[t] = req[t]
<1>1. UNCHANGED <<up, served, cache, booked, clientes, saved, orphans>>
  BY DEF Quiet, Lock, Calc, Refuse, Insert, Commit, Rows, Copy, Fail, Respond, tables, bounds
<1>2. \A u \in Threads \ {t} : /\ pc'[u] = pc[u] /\ req'[u] = req[u]
                               /\ saldo'[u] = saldo[u] /\ covers'[u] = covers[u]
  BY DEF Quiet, Lock, Calc, Refuse, Insert, Commit, Rows, Copy, Fail, Respond, Clear, Goto,
         TypeOK, LocalsOK
<1>3. pc'[t] # "idle" => req'[t] = req[t]
  BY DEF Quiet, Lock, Calc, Refuse, Insert, Commit, Rows, Copy, Fail, Respond, Clear
<1>4. Asks(t)' => Asks(t)
  BY DEF Quiet, Lock, Calc, Refuse, Insert, Commit, Rows, Copy, Fail, Respond, Clear, Goto,
         Asks, TypeOK, LocalsOK
<1>5. Numbered
  <2>1. \A u \in Threads : Asks(u)' => Asks(u) /\ req'[u].tx = req[u].tx
    BY <1>2, <1>3, <1>4 DEF Asks
  <2>2. QED
    BY <1>1, <2>1 DEF Numbered, TypeOK, CountsOK
<1>6. QED
  BY <1>1, <1>2, <1>3, <1>5

\* The mutex is only taken from nobody, and only released by its owner.
LEMMA QuietLocks ==
  ASSUME TypeOK, SumsInv, NEW t \in Threads, Quiet(t)
  PROVE  \A u \in Threads \ {t} : lock[P(u)] = u => lock'[P(u)] = u
<1>1. ASSUME NEW u \in Threads \ {t}, lock[P(u)] = u PROVE lock'[P(u)] = u
  <2>1. CASE Lock(t)
    BY <1>1, <2>1, ApiAssumption DEF Lock, TypeOK, ServersOK
  <2>2. CASE Refuse(t) \/ Copy(t)
    <3>1. lock[P(t)] = t
      BY <2>2, ThisBacked DEF Refuse, Copy, CallBacked
    <3>2. P(u) # P(t)
      BY <1>1, <3>1
    <3>3. QED
      BY <1>1, <2>2, <3>2, ApiAssumption DEF Refuse, Copy, Unlock, TypeOK, ServersOK, P
  <2>3. CASE UNCHANGED lock
    BY <1>1, <2>3
  <2>4. QED
    BY <2>1, <2>2, <2>3 DEF Quiet, Calc, Insert, Commit, Rows, Fail, Respond
<1>2. QED
  BY <1>1

\* And so it keeps the invariant.
LEMMA QuietSums ==
  ASSUME TypeOK, SumsInv, NEW t \in Threads, Quiet(t)
  PROVE  SumsInv'
<1>1. BalancesBacked'
  BY QuietNumbered, BalancesStay
<1>2. \A u \in Threads \ {t} : CallBacked(u)'
  BY QuietNumbered, QuietLocks, OthersBacked
<1>3. CallBacked(t)'
  <2>1. (Asks(t) => /\ req[t].tx <= served
                   /\ \A u \in Threads \ {t} : Asks(u) => req[u].tx # req[t].tx)'
    <3>1. SUFFICES ASSUME Asks(t)'
          PROVE  /\ req'[t].tx <= served'
                 /\ \A u \in Threads \ {t} : Asks(u)' => req'[u].tx # req'[t].tx
      OBVIOUS
    <3>2. Asks(t) /\ req'[t] = req[t] /\ UNCHANGED served
      BY <3>1, QuietNumbered
         DEF Quiet, Lock, Calc, Refuse, Insert, Commit, Rows, Copy, Fail, Respond, Clear, Goto,
             Asks, TypeOK, LocalsOK
    <3>3. CallBacked(t)
      BY DEF SumsInv
    <3>4. QED
      BY <3>2, <3>3, QuietNumbered DEF CallBacked, Asks
  <2>2. (pc[t] = "update" => Backed(saldo[t], covers[t], served, Open))'
    <3>1. SUFFICES ASSUME pc'[t] = "update"
          PROVE  Backed(saldo'[t], covers'[t], served', Open')
      OBVIOUS
    <3>2. Copy(t)
      BY <3>1 DEF Quiet, Lock, Calc, Refuse, Insert, Commit, Rows, Copy, Fail, Respond, Clear,
                  Goto, TypeOK, LocalsOK
    <3>3. /\ saldo'[t] = cache[P(t)][C(t)].saldo
          /\ covers'[t] = booked[P(t)][C(t)]
      BY <3>2 DEF Copy, TypeOK, LocalsOK
    <3>4. P(t) \in Procs /\ C(t) \in Clientes
      BY <3>2, ThisBacked DEF Copy
    <3>5. Backed(cache[P(t)][C(t)].saldo, booked[P(t)][C(t)], served, Open)
      BY <3>4 DEF SumsInv, BalancesBacked
    <3>6. QED
      BY <3>3, <3>5, QuietNumbered, StaysBacked
  <2>3. (pc[t] \in {"calc", "store", "copy"} => lock[P(t)] = t)'
    <3>1. CASE Lock(t)
      BY <3>1, ThisBacked DEF Lock, Goto, P, TypeOK, LocalsOK, ServersOK
    <3>2. CASE Calc(t)
      BY <3>2, ThisBacked DEF Calc, CallBacked, P
    <3>3. CASE ~(Lock(t) \/ Calc(t))
      BY <3>3 DEF Quiet, Refuse, Insert, Commit, Rows, Copy, Fail, Respond, Clear, Goto,
                  TypeOK, LocalsOK
    <3>4. QED
      BY <3>1, <3>2, <3>3
  <2>4. (pc[t] = "store" => saldo[t] = cache[P(t)][C(t)].saldo + Delta(t))'
    BY DEF Quiet, Lock, Calc, Refuse, Insert, Commit, Rows, Copy, Fail, Respond, Clear, Goto,
           TypeOK, LocalsOK, P, C, Delta
  <2>5. (pc[t] \in {"lock", "calc", "store", "insert", "commit"} => req[t].tipo \in {"c", "d"})'
    <3>1. CallBacked(t)
      BY DEF SumsInv
    <3>2. QED
      BY <3>1 DEF Quiet, Lock, Calc, Refuse, Insert, Commit, Rows, Copy, Fail, Respond, Clear, Goto,
             CallBacked, TypeOK, LocalsOK
  <2>6. (pc[t] # "idle" => ServerOf[P(t)] \in up)'
    <3>1. pc[t] # "idle" /\ CallBacked(t)
      BY DEF Quiet, Lock, Calc, Refuse, Insert, Commit, Rows, Copy, Fail, Respond, SumsInv
    <3>2. QED
      BY <3>1, QuietNumbered DEF CallBacked, P
  <2>7. QED
    BY <2>1, <2>2, <2>3, <2>4, <2>5, <2>6 DEF CallBacked
<1>4. QED
  BY <1>1, <1>2, <1>3 DEF SumsInv

\* The balance that t stores is the old one and its own movement, which nobody
\* else still asks for.
LEMMA StoreSums ==
  ASSUME TypeOK, SumsInv, NEW t \in Threads, Store(t)
  PROVE  SumsInv'
<1> DEFINE tx == req[t].tx
<1>1. /\ pc[t] = "store" /\ pc'[t] = "insert"
      /\ \A u \in Threads \ {t} : pc'[u] = pc[u]
      /\ UNCHANGED <<up, req, saldo, covers, served, clientes, saved, orphans>>
  BY DEF Store, Goto, TypeOK, LocalsOK, tables, bounds
<1>2. /\ P(t) \in Procs /\ C(t) \in Clientes /\ tx \in Nat /\ served \in Nat
      /\ CallBacked(t)
  BY <1>1, ThisBacked
<1>3. /\ Movement(t) \in Movements /\ Movement(t).tx = tx /\ Movement(t).delta = Delta(t)
      /\ saldo[t] = cache[P(t)][C(t)].saldo + Delta(t)
      /\ lock[P(t)] = t /\ tx <= served /\ tx \in Open
  BY <1>1, <1>2, MovementType DEF Movement, CallBacked, Asks, Open
<1>4. Numbered
  BY <1>1, <1>2 DEF Numbered, Asks
<1>5. \A x \in Open' : x \in Open \ {tx}
  BY <1>1, <1>2 DEF Open, Asks, CallBacked
<1>6. /\ cache'[P(t)][C(t)].saldo = saldo[t]
      /\ booked'[P(t)][C(t)] = booked[P(t)][C(t)] \cup {Movement(t)}
  BY <1>2 DEF Store, TypeOK, ServersOK
<1>7. \A p \in Procs, c \in Clientes : ~(p = P(t) /\ c = C(t)) =>
        cache'[p][c].saldo = cache[p][c].saldo /\ booked'[p][c] = booked[p][c]
  <2>1. ASSUME NEW p \in Procs, NEW c \in Clientes, ~(p = P(t) /\ c = C(t))
        PROVE  cache'[p][c] = cache[p][c] /\ booked'[p][c] = booked[p][c]
    BY <1>2, <2>1 DEF Store, TypeOK, ServersOK
  <2>2. QED
    BY <2>1
<1>8. Backed(cache'[P(t)][C(t)].saldo, booked'[P(t)][C(t)], served', Open')
  <2>1. Backed(cache[P(t)][C(t)].saldo, booked[P(t)][C(t)], served, Open)
    BY <1>2 DEF SumsInv, BalancesBacked
  <2>2. Backed(saldo[t], booked[P(t)][C(t)] \cup {Movement(t)}, served, Open \ {tx})
    <3> HIDE DEF tx
    <3>1. Backed(cache[P(t)][C(t)].saldo + Movement(t).delta,
                 booked[P(t)][C(t)] \cup {Movement(t)}, served, Open \ {Movement(t).tx})
      BY <1>2, <1>3, <2>1, BackedWithMore
    <3>2. QED
      BY <1>3, <3>1
  <2>3. QED
    BY <1>1, <1>2, <1>5, <1>6, <2>2, BackedLater
<1>9. BalancesBacked'
  <2>1. \A p \in Procs, c \in Clientes :
          Backed(cache'[p][c].saldo, booked'[p][c], served', Open')
    BY <1>4, <1>7, <1>8, StaysBacked DEF SumsInv, BalancesBacked
  <2>2. \A c \in Clientes : Backed(clientes'[c], saved'[c], served', Open')
    BY <1>1, <1>4, StaysBacked DEF SumsInv, BalancesBacked
  <2>3. \A o \in orphans' : o.tipo = "extrato" => Backed(o.saldo, o.covers, served', Open')
    BY <1>1, <1>4, StaysBacked DEF SumsInv, BalancesBacked
  <2>4. QED
    BY <2>1, <2>2, <2>3 DEF BalancesBacked
<1>10. ASSUME NEW u \in Threads \ {t} PROVE CallBacked(u)'
  <2>1. lock[P(u)] = u => P(u) # P(t) /\ lock'[P(u)] = u
    BY <1>3, ApiAssumption DEF Store, Unlock, P, TypeOK, ServersOK
  <2>2. lock[P(u)] = u /\ pc[u] = "store" =>
          cache'[P(u)][C(u)].saldo = cache[P(u)][C(u)].saldo
    BY <1>7, <2>1, ThisBacked
  <2>3. QED
    BY <1>1, <1>4, <2>1, <2>2, OthersBacked
<1>11. CallBacked(t)'
  BY <1>1, <1>2 DEF CallBacked, Asks, P
<1>12. QED
  BY <1>9, <1>10, <1>11 DEF SumsInv

\* A statement writes the balance and the movements it has copied.
LEMMA UpdateSums ==
  ASSUME TypeOK, SumsInv, NEW t \in Threads, Update(t)
  PROVE  SumsInv'
<1>1. /\ pc[t] = "update" /\ pc'[t] = "answer"
      /\ \A u \in Threads \ {t} : pc'[u] = pc[u]
      /\ UNCHANGED <<up, req, saldo, covers, lock, served, cache, booked, orphans>>
  BY DEF Update, Goto, TypeOK, LocalsOK, bounds
<1>2. C(t) \in Clientes /\ CallBacked(t) /\ served \in Nat
  BY <1>1, ThisBacked
<1>3. Numbered
  BY <1>1, <1>2 DEF Numbered, Asks
<1>4. \A c \in Clientes : Backed(clientes'[c], saved'[c], served', Open')
  <2>1. ASSUME NEW c \in Clientes PROVE Backed(clientes'[c], saved'[c], served, Open)
    <3>1. CASE c = C(t)
      BY <1>1, <1>2, <3>1 DEF Update, TypeOK, TablesOK, CallBacked
    <3>2. CASE c # C(t)
      <4>1. clientes'[c] = clientes[c] /\ saved'[c] = saved[c]
        BY <3>2 DEF Update, TypeOK, TablesOK
      <4>2. QED
        BY <4>1 DEF SumsInv, BalancesBacked
    <3>3. QED
      BY <3>1, <3>2
  <2>2. QED
    BY <1>3, <2>1, StaysBacked
<1>5. BalancesBacked'
  <2>1. \A p \in Procs, c \in Clientes :
          Backed(cache'[p][c].saldo, booked'[p][c], served', Open')
    BY <1>1, <1>3, StaysBacked DEF SumsInv, BalancesBacked
  <2>2. \A o \in orphans' : o.tipo = "extrato" => Backed(o.saldo, o.covers, served', Open')
    BY <1>1, <1>3, StaysBacked DEF SumsInv, BalancesBacked
  <2>3. QED
    BY <1>4, <2>1, <2>2 DEF BalancesBacked
<1>6. \A u \in Threads \ {t} : CallBacked(u)'
  BY <1>1, <1>3, OthersBacked
<1>7. CallBacked(t)'
  BY <1>1, <1>2 DEF CallBacked, Asks, P
<1>8. QED
  BY <1>5, <1>6, <1>7 DEF SumsInv

\* A request comes with a number that nobody has had.
LEMMA ReceiveSums ==
  ASSUME TypeOK, SumsInv, NEW t \in Threads, Receive(t)
  PROVE  SumsInv'
<1>1. PICK r \in Pedidos \cup Malformed : Take(t, r)
  BY DEF Receive
<1>2. /\ req'[t].tipo = r.tipo
      /\ pc'[t] = IF Verdict(r) # 200 THEN "answer"
                  ELSE IF r.tipo = "extrato" THEN "rows" ELSE "lock"
      /\ \A u \in Threads \ {t} : pc'[u] = pc[u] /\ req'[u] = req[u]
  BY <1>1, Taken
<1>3. /\ req'[t].tx = served + 1 /\ served' = served + 1 /\ served \in Nat
      /\ UNCHANGED <<up, saldo, covers, lock, cache, booked, clientes, saved, orphans>>
  BY <1>1 DEF Receive, Take, TypeOK, LocalsOK, CountsOK, tables
<1>4. Numbered
  BY <1>2, <1>3 DEF Numbered, Asks
<1>5. BalancesBacked'
  BY <1>3, <1>4, BalancesStay
<1>6. \A u \in Threads \ {t} : CallBacked(u)'
  BY <1>2, <1>3, <1>4, OthersBacked
<1>7. CallBacked(t)'
  <2>1. Verdict(r) = 200 => r.tipo \in {"extrato", "c", "d"}
    BY VerdictType
  <2>2. ASSUME NEW u \in Threads \ {t}, Asks(u)' PROVE req'[u].tx # req'[t].tx
    <3>1. Asks(u) /\ req'[u] = req[u]
      BY <1>2, <2>2 DEF Asks
    <3>2. CallBacked(u) /\ req[u].tx \in Nat
      BY DEF SumsInv, TypeOK, LocalsOK, Chamada
    <3>3. QED
      BY <1>3, <3>1, <3>2 DEF CallBacked
  <2>3. ServerOf[P(t)] \in up
    BY DEF Receive
  <2>4. QED
    BY <1>2, <1>3, <2>1, <2>2, <2>3 DEF CallBacked, Asks, P
<1>8. QED
  BY <1>5, <1>6, <1>7 DEF SumsInv

\* A server starts with the balances of the database, or with nothing: nobody
\* serves a request in it yet.
LEMMA BootSums ==
  ASSUME TypeOK, SumsInv, NEW s \in Servers, Boot(s)
  PROVE  SumsInv'
<1>1. /\ UNCHANGED <<pc, req, saldo, covers, lock, served, clientes, saved, orphans>>
      /\ s \notin up /\ up' = up \cup {s}
  BY DEF Boot, locals, tables, bounds
<1>2. Numbered
  BY <1>1 DEF Numbered, Asks, TypeOK, CountsOK
<1>3. \A p \in Procs : ServerOf[p] # s => cache'[p] = cache[p] /\ booked'[p] = booked[p]
  BY DEF Boot, AtServer
<1>4. ASSUME NEW p \in Procs, NEW c \in Clientes
      PROVE  Backed(cache'[p][c].saldo, booked'[p][c], served', Open')
  <2>1. CASE ServerOf[p] # s
    BY <1>2, <1>3, <2>1, StaysBacked DEF SumsInv, BalancesBacked
  <2>2. CASE ServerOf[p] = s
    <3>1. \/ cache'[p][c].saldo = clientes[c] /\ booked'[p][c] = saved[c]
          \/ cache'[p][c].saldo = 0 /\ booked'[p][c] = {}
      BY <2>2 DEF Boot, AtServer, ZeroCache, NoBooks
    <3>2. Backed(clientes[c], saved[c], served', Open')
      BY <1>2, StaysBacked DEF SumsInv, BalancesBacked
    <3>3. QED
      BY <3>1, <3>2, NothingBacked
  <2>3. QED
    BY <2>1, <2>2
<1>5. BalancesBacked'
  <2>1. \A c \in Clientes : Backed(clientes'[c], saved'[c], served', Open')
    BY <1>1, <1>2, StaysBacked DEF SumsInv, BalancesBacked
  <2>2. \A o \in orphans' : o.tipo = "extrato" => Backed(o.saldo, o.covers, served', Open')
    BY <1>1, <1>2, StaysBacked DEF SumsInv, BalancesBacked
  <2>3. QED
    BY <1>4, <2>1, <2>2 DEF BalancesBacked
<1>6. ASSUME NEW u \in Threads PROVE CallBacked(u)'
  <2>1. CallBacked(u) /\ P(u) \in Procs
    BY ApiAssumption DEF SumsInv, P
  <2>2. pc[u] = "store" => cache'[P(u)] = cache[P(u)]
    BY <1>1, <1>3, <2>1 DEF CallBacked
  <2>3. QED
    BY <1>1, <1>2, <2>2, OthersBacked
<1>7. QED
  BY <1>5, <1>6 DEF SumsInv

\* What a killed process has sent to save a balance saves one that was copied.
LEMMA CrashSums ==
  ASSUME TypeOK, SumsInv, NEW s \in Servers, Crash(s)
  PROVE  SumsInv'
<1> DEFINE Gone == {t \in Threads : ServerOf[P(t)] = s}
<1>1. /\ UNCHANGED <<clientes, saved, served>>
      /\ up' = up \ {s}
      /\ \A p \in Procs : ServerOf[p] # s =>
           cache'[p] = cache[p] /\ booked'[p] = booked[p] /\ lock'[p] = lock[p]
      /\ \A p \in Procs, c \in Clientes : ServerOf[p] = s =>
           cache'[p][c].saldo = 0 /\ booked'[p][c] = {}
  BY DEF Crash, AtServer, ZeroCache, NoBooks
<1>2. /\ \A u \in Gone : pc'[u] = "idle"
      /\ \A u \in Threads \ Gone : /\ pc'[u] = pc[u] /\ req'[u] = req[u]
                                   /\ saldo'[u] = saldo[u] /\ covers'[u] = covers[u]
  BY DEF Crash, Clear
<1>3. Numbered
  <2>1. \A u \in Threads : Asks(u)' => Asks(u) /\ req'[u].tx = req[u].tx
    BY <1>2 DEF Asks
  <2>2. QED
    BY <1>1, <2>1 DEF Numbered, TypeOK, CountsOK
<1>4. \A p \in Procs, c \in Clientes :
        Backed(cache'[p][c].saldo, booked'[p][c], served', Open')
  <2>1. ASSUME NEW p \in Procs, NEW c \in Clientes, ServerOf[p] = s
        PROVE  Backed(cache'[p][c].saldo, booked'[p][c], served', Open')
    BY <1>1, <2>1, NothingBacked
  <2>2. ASSUME NEW p \in Procs, NEW c \in Clientes, ServerOf[p] # s
        PROVE  Backed(cache'[p][c].saldo, booked'[p][c], served', Open')
    BY <1>1, <1>3, <2>2, StaysBacked DEF SumsInv, BalancesBacked
  <2>3. QED
    BY <2>1, <2>2
<1>5. \A c \in Clientes : Backed(clientes'[c], saved'[c], served', Open')
  BY <1>1, <1>3, StaysBacked DEF SumsInv, BalancesBacked
<1>6. ASSUME NEW o \in orphans', o.tipo = "extrato"
      PROVE  Backed(o.saldo, o.covers, served', Open')
  <2>1. CASE o \in orphans
    BY <1>3, <1>6, <2>1, StaysBacked DEF SumsInv, BalancesBacked
  <2>2. CASE o \notin orphans
    <3>1. PICK t \in Threads :
            /\ pc[t] \in {"commit", "update"}
            /\ o = [row |-> Row(t), tipo |-> req[t].tipo, saldo |-> saldo[t],
                    covers |-> covers[t]]
      BY <2>2 DEF Crash
    <3>2. CallBacked(t) /\ req[t].tipo = "extrato"
      BY <1>6, <3>1 DEF SumsInv
    <3>3. Backed(saldo[t], covers[t], served, Open)
      BY <3>1, <3>2 DEF CallBacked
    <3>4. o.saldo = saldo[t] /\ o.covers = covers[t]
      BY <3>1
    <3>5. QED
      BY <1>3, <3>3, <3>4, StaysBacked
  <2>3. QED
    BY <2>1, <2>2
<1>7. ASSUME NEW u \in Threads PROVE CallBacked(u)'
  <2>1. CASE u \in Gone
    BY <1>2, <2>1 DEF CallBacked, Asks
  <2>2. CASE u \notin Gone
    <3>1. P(u) \in Procs /\ ServerOf[P(u)] # s
      BY <2>2, ApiAssumption DEF P
    <3>2. QED
      BY <1>1, <1>2, <1>3, <2>2, <3>1, OthersBacked
  <2>3. QED
    BY <2>1, <2>2
<1>8. QED
  BY <1>4, <1>5, <1>6, <1>7 DEF SumsInv, BalancesBacked

\* The database executes what a killed process had sent.
LEMMA OrphanSums ==
  ASSUME TypeOK, SumsInv, Orphan
  PROVE  SumsInv'
<1>1. PICK o \in orphans :
        /\ orphans' = orphans \ {o}
        /\ IF o.tipo = "extrato"
             THEN /\ clientes' = [clientes EXCEPT ![o.row.cliente] = o.saldo]
                  /\ saved' = [saved EXCEPT ![o.row.cliente] = o.covers]
             ELSE UNCHANGED <<clientes, saved>>
  BY DEF Orphan
<1>2. UNCHANGED <<up, cache, lock, booked, pc, req, saldo, covers, served>>
  BY DEF Orphan, locals, bounds
<1>3. Numbered
  BY <1>2 DEF Numbered, Asks, TypeOK, CountsOK
<1>4. o.tipo = "extrato" => Backed(o.saldo, o.covers, served', Open')
  BY <1>3, StaysBacked DEF SumsInv, BalancesBacked
<1>5. ASSUME NEW c \in Clientes
      PROVE  Backed(clientes'[c], saved'[c], served', Open')
  <2>1. \/ clientes'[c] = clientes[c] /\ saved'[c] = saved[c]
        \/ o.tipo = "extrato" /\ clientes'[c] = o.saldo /\ saved'[c] = o.covers
    BY <1>1 DEF TypeOK, TablesOK
  <2>2. QED
    BY <1>3, <1>4, <2>1, StaysBacked DEF SumsInv, BalancesBacked
<1>6. BalancesBacked'
  <2>1. \A p \in Procs, c \in Clientes :
          Backed(cache'[p][c].saldo, booked'[p][c], served', Open')
    BY <1>2, <1>3, StaysBacked DEF SumsInv, BalancesBacked
  <2>2. \A q \in orphans' : q.tipo = "extrato" => Backed(q.saldo, q.covers, served', Open')
    BY <1>1, <1>3, StaysBacked DEF SumsInv, BalancesBacked
  <2>3. QED
    BY <1>5, <2>1, <2>2 DEF BalancesBacked
<1>7. \A u \in Threads : CallBacked(u)'
  BY <1>2, <1>3, OthersBacked
<1>8. QED
  BY <1>6, <1>7 DEF SumsInv

\* At first every balance is zero.
LEMMA InitSums == Init => SumsInv
<1> SUFFICES ASSUME Init PROVE SumsInv
  OBVIOUS
<1>1. BalancesBacked
  BY NothingBacked DEF Init, BalancesBacked, ZeroCache, NoBooks
<1>2. QED
  BY <1>1 DEF Init, SumsInv, CallBacked, Asks

\* SumsInv is inductive, beside the types.
LEMMA NextSums ==
  ASSUME TypeOK, SumsInv, [Next]_vars
  PROVE  SumsInv'
<1>1. CASE UNCHANGED vars \/ Done
  <2>1. UNCHANGED vars
    BY <1>1 DEF Done
  <2>2. Numbered
    BY <2>1 DEF vars, locals, bounds, Numbered, Asks, TypeOK, CountsOK
  <2>3. BalancesBacked'
    BY <2>1, <2>2, BalancesStay DEF vars, tables
  <2>4. \A u \in Threads : CallBacked(u)'
    BY <2>1, <2>2, OthersBacked DEF vars, locals
  <2>5. QED
    BY <2>3, <2>4 DEF SumsInv
<1>2. CASE \E t \in Threads : Receive(t) \/ Step(t)
  BY <1>2, ReceiveSums, StoreSums, UpdateSums, QuietSums DEF Step, Quiet
<1>3. CASE \E s \in Servers : Boot(s) \/ Crash(s)
  BY <1>3, BootSums, CrashSums
<1>4. CASE Orphan
  BY <1>4, OrphanSums
<1>5. QED
  BY <1>1, <1>2, <1>3, <1>4 DEF Next

\* No update is lost and none is counted twice, for any number of servers with
\* any number of workers and threads, failing statements, failed starts, and
\* servers killed between any two steps: each balance, in memory and in the
\* database, is the sum of the movements that were accepted into it.
THEOREM ApiBalancesAreSums == Spec => []BalancesAreSums
<1>1. SumsInv => BalancesAreSums
  BY DEF SumsInv, BalancesBacked, Backed, BalancesAreSums
<1>2. QED
  BY <1>1, ApiTypeOK, InitSums, NextSums, PTL DEF Spec

-----------------------------------------------------------------------------
(***************************************************************************)
(* The history of a client, with one worker for each server that is never  *)
(* killed: what the balance, the table, the answers and the statements     *)
(* have in common.  None of the four properties is inductive alone; each   *)
(* needs the calls that are on their way, which the invariant below        *)
(* follows from the store to the insert, the answer, and the statement.    *)
(***************************************************************************)
\* No server is killed; the start of one may fail and be tried again.
NoCrash == MaxCrashes = 0

\* The movements that the balance of c counts, and the transactions.
Counted(c) == booked[Home(c)][c]
CountedTx(c) == Tx(Counted(c))
RowsTx(c) == Tx(RowsOf(c))

\* Those that have no row and whose insert is not on its way.
Lost(c) == (CountedTx(c) \ RowsTx(c)) \ InFlight(c)

\* A transaction has one row.
RowsUnique == \A q, r \in transacoes : q.tx = r.tx => q = r

\* Every row and every saved movement is counted, and every answered
\* transaction, which also has its row if no statement has failed.
RecordsInv ==
  /\ orphans = {}
  /\ IsFiniteSet(transacoes) /\ RowsUnique
  /\ \A c \in Clientes :
       /\ RowsTx(c) \subseteq CountedTx(c)
       /\ saved[c] \subseteq Counted(c)
       /\ Upstream[c] \notin up => Counted(c) = {}
       /\ IsFiniteSet(Lost(c)) /\ Cardinality(Lost(c)) <= failures
  /\ \A a \in answered :
       /\ a.tx \in CountedTx(a.cliente)
       /\ failures = 0 => a.tx \in RowsTx(a.cliente)

\* t answers a transaction, or has read the list of a statement.
Posts(t) == pc[t] = "answer" /\ status[t] = 200 /\ req[t].tipo \in {"c", "d"}
Reads(t) == pc[t] \in {"getlock", "copy"} \/ Showing(t)

\* r is in the list, or the list is full of rows that are not older.
ListedBy(t, r) ==
  \/ r \in lista[t]
  \/ /\ Cardinality(lista[t]) = ExtratoLimit
     /\ \A q \in lista[t] : q.stamp >= r.stamp

\* A call has a number of its own and sees what it must; a movement that is
\* stored is counted until its insert and its answer.
CallRecorded(t) ==
  /\ pc[t] # "idle" =>
       /\ req[t].tx <= served
       /\ \A u \in Threads \ {t} : pc[u] # "idle" => req[u].tx # req[t].tx
  /\ pc[t] # "idle" /\ C(t) \in Clientes =>
       /\ P(t) = Home(C(t))
       /\ must[t] \subseteq CountedTx(C(t))
       /\ failures = 0 => must[t] \subseteq RowsTx(C(t))
  /\ pc[t] \in {"insert", "commit"} => req[t].tx \notin Tx(transacoes)
  /\ pc[t] \in {"insert", "commit"} \/ Posts(t) => req[t].tx \in CountedTx(C(t))
  /\ Posts(t) /\ failures = 0 => req[t].tx \in RowsTx(C(t))

\* What a statement has read is counted by the balance it goes on to show, and
\* what it must list it lists.
StatementRecorded(t) ==
  /\ pc[t] \in {"rows", "getlock", "copy", "update"} => req[t].tipo = "extrato"
  /\ pc[t] \in {"idle", "rows"} => lista[t] = {}
  /\ pc[t] \in {"getlock", "copy"} => Tx(lista[t]) \subseteq CountedTx(C(t))
  /\ pc[t] = "update" => covers[t] \subseteq Counted(C(t))
  /\ Showing(t) => Tx(lista[t]) \cup must[t] \subseteq Tx(covers[t])
  /\ Reads(t) /\ failures = 0 =>
       \A r \in RowsOf(C(t)) : r.tx \in must[t] => ListedBy(t, r)

\* What the four properties rest on.
HistoryInv ==
  RecordsInv /\ \A t \in Threads : CallRecorded(t) /\ StatementRecorded(t)

\* A part of a finite set is no larger.
LEMMA NoMore ==
  ASSUME NEW A, IsFiniteSet(A), NEW n \in Nat, Cardinality(A) <= n, NEW B, B \subseteq A
  PROVE  IsFiniteSet(B) /\ Cardinality(B) <= n
BY FS_Subset, FS_CardinalityType

\* A set with one member more is larger by one at most.
LEMMA OneMore ==
  ASSUME NEW A, IsFiniteSet(A), NEW n \in Nat, Cardinality(A) <= n, NEW x,
         NEW B, B \subseteq A \cup {x}
  PROVE  IsFiniteSet(B) /\ Cardinality(B) <= n + 1
<1> DEFINE m == Cardinality(A \cup {x})
<1>1. IsFiniteSet(A \cup {x})
  BY FS_AddElement
<1>2. Cardinality(A) \in Nat
  BY FS_CardinalityType
<1>3. m = Cardinality(A) \/ m = Cardinality(A) + 1
  BY FS_AddElement
<1>4. m <= n + 1
  <2> HIDE DEF m
  <2> QED BY <1>2, <1>3
<1>5. QED
  BY <1>1, <1>4, NoMore

\* A request in its handler, with what the history says of it.
LEMMA Recorded ==
  ASSUME TypeOK, HistoryInv, NEW t \in Threads, pc[t] \notin {"idle", "answer"}
  PROVE  /\ P(t) \in Procs /\ C(t) \in Clientes /\ P(t) = Home(C(t))
         /\ status[t] = 200 /\ req[t].tx \in Nat /\ served \in Nat /\ failures \in Nat
         /\ Counted(C(t)) = booked[P(t)][C(t)]
         /\ CallRecorded(t) /\ StatementRecorded(t)
<1>1. /\ P(t) \in Procs /\ C(t) \in Clientes /\ status[t] = 200
      /\ req[t].tx \in Nat /\ served \in Nat /\ failures \in Nat
  BY InHandler DEF TypeOK, LocalsOK, CountsOK, Chamada
<1>2. CallRecorded(t) /\ StatementRecorded(t)
  BY DEF HistoryInv
<1>3. QED
  BY <1>1, <1>2 DEF CallRecorded, Counted

\* What a step never takes back.
Onward ==
  /\ served <= served' /\ failures <= failures'
  /\ {served, failures, served', failures'} \subseteq Nat
  /\ \A c \in Clientes : Counted(c) \subseteq Counted(c)'
  /\ transacoes \subseteq transacoes' /\ RowsUnique'

\* Nor do the transactions.
LEMMA TxGrows ==
  ASSUME Onward, NEW c \in Clientes
  PROVE  CountedTx(c) \subseteq CountedTx(c)' /\ RowsTx(c) \subseteq RowsTx(c)'
BY DEF Onward, CountedTx, RowsTx, RowsOf, Tx

\* A new row is not one that t should have seen, nor that of t.
LEMMA NewRows ==
  ASSUME Onward, failures' = 0, NEW t \in Threads, C(t) \in Clientes,
         pc[t] # "idle", CallRecorded(t), NEW r \in RowsOf(C(t))', r.tx \in must[t]
  PROVE  r \in RowsOf(C(t))
<1>1. failures = 0
  BY DEF Onward
<1>2. must[t] \subseteq RowsTx(C(t))
  BY <1>1 DEF CallRecorded
<1>3. PICK q \in RowsOf(C(t)) : q.tx = r.tx
  BY <1>2 DEF RowsTx, Tx
<1>4. q \in transacoes' /\ r \in transacoes'
  BY <1>3 DEF Onward, RowsOf
<1>5. QED
  BY <1>3, <1>4 DEF Onward, RowsUnique

\* A step leaves the call of u as it is, when it leaves the locals of u and
\* adds neither a row nor a call with the number of u.
LEMMA OthersRecorded ==
  ASSUME TypeOK, HistoryInv, Onward, NEW u \in Threads,
         pc'[u] = pc[u], req'[u] = req[u], status'[u] = status[u],
         lista'[u] = lista[u], covers'[u] = covers[u], must'[u] = must[u],
         pc[u] \in {"insert", "commit"} => req[u].tx \notin Tx(transacoes'),
         \A w \in Threads \ {u} : pc'[w] # "idle" =>
            \/ pc[w] # "idle" /\ req'[w].tx = req[w].tx
            \/ req'[w].tx = served + 1
  PROVE  CallRecorded(u)' /\ StatementRecorded(u)'
<1>1. CallRecorded(u) /\ StatementRecorded(u)
  BY DEF HistoryInv
<1>2. req[u].tx \in Nat
  BY DEF TypeOK, LocalsOK, Chamada
<1>3. pc[u] \in {"insert", "commit", "getlock", "copy", "update"} \/ Posts(u) =>
        C(u) \in Clientes
  BY InHandler DEF Posts, TypeOK, HandlerOK
<1>4. CallRecorded(u)'
  <2>1. (pc[u] # "idle" =>
           /\ req[u].tx <= served
           /\ \A w \in Threads \ {u} : pc[w] # "idle" => req[w].tx # req[u].tx)'
    BY <1>1, <1>2 DEF CallRecorded, Onward
  <2>2. (pc[u] # "idle" /\ C(u) \in Clientes =>
           /\ P(u) = Home(C(u))
           /\ must[u] \subseteq CountedTx(C(u))
           /\ failures = 0 => must[u] \subseteq RowsTx(C(u)))'
    <3>1. SUFFICES ASSUME pc[u] # "idle", C(u) \in Clientes
          PROVE  /\ P(u) = Home(C(u))
                 /\ must[u] \subseteq CountedTx(C(u))'
                 /\ failures' = 0 => must[u] \subseteq RowsTx(C(u))'
      BY DEF C, P, CountedTx, RowsTx, RowsOf, Counted
    <3>2. failures' = 0 => failures = 0
      BY DEF Onward
    <3>3. CountedTx(C(u)) \subseteq CountedTx(C(u))' /\ RowsTx(C(u)) \subseteq RowsTx(C(u))'
      BY <3>1, TxGrows DEF C
    <3>4. QED
      BY <1>1, <3>1, <3>2, <3>3 DEF CallRecorded
  <2>3. (pc[u] \in {"insert", "commit"} => req[u].tx \notin Tx(transacoes))'
    BY DEF Tx
  <2>4. (pc[u] \in {"insert", "commit"} \/ Posts(u) => req[u].tx \in CountedTx(C(u)))'
    <3>1. SUFFICES ASSUME pc[u] \in {"insert", "commit"} \/ Posts(u)
          PROVE  req[u].tx \in CountedTx(C(u))'
      BY DEF Posts, C, CountedTx, Counted
    <3>2. QED
      BY <1>1, <1>3, <3>1, TxGrows DEF CallRecorded, C
  <2>5. (Posts(u) /\ failures = 0 => req[u].tx \in RowsTx(C(u)))'
    <3>1. SUFFICES ASSUME Posts(u), failures' = 0
          PROVE  req[u].tx \in RowsTx(C(u))'
      BY DEF Posts, C, RowsTx, RowsOf
    <3>2. failures = 0
      BY <3>1 DEF Onward
    <3>3. QED
      BY <1>1, <1>3, <3>1, <3>2, TxGrows DEF CallRecorded, C
  <2>6. QED
    BY <2>1, <2>2, <2>3, <2>4, <2>5 DEF CallRecorded
<1>5. StatementRecorded(u)'
  <2>1. (pc[u] \in {"getlock", "copy"} => Tx(lista[u]) \subseteq CountedTx(C(u)))'
    <3>1. SUFFICES ASSUME pc[u] \in {"getlock", "copy"}
          PROVE  Tx(lista[u]) \subseteq CountedTx(C(u))'
      BY DEF C, CountedTx, Counted, Tx
    <3>2. QED
      BY <1>1, <1>3, <3>1, TxGrows DEF StatementRecorded, C
  <2>2. (pc[u] = "update" => covers[u] \subseteq Counted(C(u)))'
    <3>1. SUFFICES ASSUME pc[u] = "update" PROVE covers[u] \subseteq Counted(C(u))'
      BY DEF C, Counted
    <3>2. QED
      BY <1>1, <1>3, <3>1 DEF StatementRecorded, Onward, C
  <2>3. (Showing(u) => Tx(lista[u]) \cup must[u] \subseteq Tx(covers[u]))'
    BY <1>1 DEF StatementRecorded, Showing, C, Tx
  <2>4. (Reads(u) /\ failures = 0 =>
           \A r \in RowsOf(C(u)) : r.tx \in must[u] => ListedBy(u, r))'
    <3>1. SUFFICES ASSUME Reads(u), failures' = 0, NEW r \in RowsOf(C(u))', r.tx \in must[u]
          PROVE  ListedBy(u, r)
      BY DEF Reads, Showing, C, RowsOf, ListedBy
    <3>2. C(u) \in Clientes /\ pc[u] # "idle"
      BY <1>3, <3>1 DEF Reads, Showing
    <3>3. r \in RowsOf(C(u))
      BY <1>1, <3>1, <3>2, NewRows
    <3>4. failures = 0
      BY <3>1 DEF Onward
    <3>5. QED
      BY <1>1, <3>1, <3>3, <3>4 DEF StatementRecorded
  <2>5. QED
    BY <1>1, <2>1, <2>2, <2>3, <2>4 DEF StatementRecorded
<1>6. QED
  BY <1>4, <1>5

\* A step that leaves the records and the movements on their way.
LEMMA RecordsStay ==
  ASSUME TypeOK, HistoryInv,
         UNCHANGED <<orphans, transacoes, saved, answered, failures>>, up \subseteq up',
         \A c \in Clientes : Counted(c)' = Counted(c),
         \A c \in Clientes : InFlight(c) \subseteq InFlight(c)'
  PROVE  RecordsInv'
<1>1. \A c \in Clientes : /\ Counted(c)' = Counted(c)
                          /\ CountedTx(c)' = CountedTx(c)
                          /\ RowsTx(c)' = RowsTx(c)
  BY DEF CountedTx, RowsTx, RowsOf, Tx
<1>2. ASSUME NEW c \in Clientes
      PROVE  IsFiniteSet(Lost(c)') /\ Cardinality(Lost(c)') <= failures'
  <2>1. Lost(c)' \subseteq Lost(c)
    BY <1>1 DEF Lost
  <2>2. failures \in Nat /\ IsFiniteSet(Lost(c)) /\ Cardinality(Lost(c)) <= failures
    BY DEF TypeOK, CountsOK, HistoryInv, RecordsInv
  <2>3. QED
    BY <2>1, <2>2, NoMore
<1>3. \A a \in answered : a.cliente \in Clientes
  BY DEF TypeOK, CountsOK
<1>4. QED
  BY <1>1, <1>2, <1>3 DEF HistoryInv, RecordsInv, RowsUnique

\* The latest rows leave out only what is not newer, when the list is full.
LEMMA LatestLists ==
  ASSUME NEW c \in Clientes, IsFiniteSet(transacoes), NEW S \in Latest(c), NEW r \in RowsOf(c)
  PROVE  \/ r \in S
         \/ Cardinality(S) = ExtratoLimit /\ \A q \in S : q.stamp >= r.stamp
<1> SUFFICES ASSUME r \notin S
             PROVE  Cardinality(S) = ExtratoLimit /\ \A q \in S : q.stamp >= r.stamp
  OBVIOUS
<1>1. IsFiniteSet(RowsOf(c)) /\ S \subseteq RowsOf(c) /\ S # RowsOf(c)
  BY FS_Subset DEF RowsOf, Latest
<1>2. Cardinality(S) # Cardinality(RowsOf(c))
  BY <1>1, FS_Subset, FS_CardinalityType
<1>3. QED
  BY <1>1, <1>2 DEF Latest

\* A step that leaves the rows and the balances takes nothing back.
LEMMA OnwardStays ==
  ASSUME TypeOK, HistoryInv, UNCHANGED <<transacoes, failures>>,
         \A c \in Clientes : Counted(c)' = Counted(c),
         served' \in {served, served + 1}
  PROVE  Onward
BY DEF TypeOK, CountsOK, HistoryInv, RecordsInv, Onward, RowsUnique

\* The steps of a handler before the balance is stored, and those of a
\* statement but for the last: nothing is recorded.
Unrecorded(t) == Lock(t) \/ Calc(t) \/ Refuse(t) \/ Insert(t) \/ Rows(t) \/ Copy(t)

\* What such a step changes.
LEMMA UnrecordedMoves ==
  ASSUME TypeOK, NEW t \in Threads, Unrecorded(t)
  PROVE  /\ UNCHANGED <<up, served, failures, req, must, transacoes, booked, saved, orphans,
                        answered>>
         /\ \A u \in Threads \ {t} :
              /\ pc'[u] = pc[u] /\ status'[u] = status[u]
              /\ lista'[u] = lista[u] /\ covers'[u] = covers[u]
         /\ pc[t] \notin {"idle", "answer", "commit", "update"} /\ pc'[t] \notin {"idle", "rows"}
         /\ pc'[t] = "commit" <=> pc[t] = "insert"
         /\ pc'[t] # "insert"
BY DEF Unrecorded, Lock, Calc, Refuse, Insert, Rows, Copy, Goto, tables, bounds,
       TypeOK, LocalsOK

\* And so it keeps the invariant.
LEMMA UnrecordedKept ==
  ASSUME TypeOK, SumsInv, HistoryInv, NEW t \in Threads, Unrecorded(t)
  PROVE  HistoryInv'
<1>1. \A c \in Clientes : Counted(c)' = Counted(c)
  BY UnrecordedMoves DEF Counted
<1>2. Onward
  BY <1>1, UnrecordedMoves, OnwardStays
<1>3. RecordsInv'
  <2>1. \A c \in Clientes : InFlight(c) \subseteq InFlight(c)'
    BY UnrecordedMoves DEF InFlight, C
  <2>2. QED
    BY <1>1, <2>1, UnrecordedMoves, RecordsStay
<1>4. ASSUME NEW u \in Threads \ {t} PROVE CallRecorded(u)' /\ StatementRecorded(u)'
  <2>1. pc[u] \in {"insert", "commit"} => req[u].tx \notin Tx(transacoes')
    BY UnrecordedMoves DEF HistoryInv, CallRecorded
  <2>2. QED
    BY <1>2, <2>1, UnrecordedMoves, OthersRecorded
<1>5. /\ CallRecorded(t) /\ StatementRecorded(t) /\ C(t) \in Clientes /\ C(t)' = C(t)
      /\ CountedTx(C(t))' = CountedTx(C(t)) /\ RowsTx(C(t))' = RowsTx(C(t))
      /\ Counted(C(t)) = booked[P(t)][C(t)] /\ Counted(C(t))' = Counted(C(t))
      /\ RowsOf(C(t))' = RowsOf(C(t)) /\ UNCHANGED <<failures, must>>
  BY Recorded, UnrecordedMoves DEF CountedTx, Counted, RowsTx, RowsOf, C, Tx
<1>6. ~Posts(t)'
  <2>1. CASE Refuse(t)
    BY <2>1 DEF Refuse, Posts, TypeOK, LocalsOK
  <2>2. CASE ~Refuse(t)
    BY <2>2 DEF Unrecorded, Lock, Calc, Insert, Rows, Copy, Goto, Posts, TypeOK, LocalsOK
  <2>3. QED
    BY <2>1, <2>2
<1>7. CallRecorded(t)'
  <2>1. \A u \in Threads \ {t} : pc'[u] = pc[u] /\ req'[u] = req[u]
    BY UnrecordedMoves
  <2>2. QED
    BY <1>5, <1>6, <2>1, UnrecordedMoves DEF CallRecorded, P, Tx
<1>8. StatementRecorded(t)'
  <2>1. CASE Lock(t)
    <3>1. /\ pc[t] \in {"lock", "getlock"}
          /\ pc'[t] = IF pc[t] = "lock" THEN "calc" ELSE "copy"
          /\ UNCHANGED <<lista, req, covers, must>>
      BY <2>1 DEF Lock, Goto, TypeOK, LocalsOK
    <3>2. QED
      BY <1>5, <3>1 DEF StatementRecorded, Showing, Reads, ListedBy
  <2>2. CASE Calc(t) \/ Refuse(t) \/ Insert(t)
    <3>1. /\ pc[t] \in {"calc", "store", "insert"} /\ pc'[t] \in {"store", "answer", "commit"}
          /\ UNCHANGED req
      BY <2>2 DEF Calc, Refuse, Insert, Goto, TypeOK, LocalsOK
    <3>2. req[t].tipo \in {"c", "d"}
      BY <3>1 DEF SumsInv, CallBacked
    <3>3. QED
      BY <3>1, <3>2 DEF StatementRecorded, Showing, Reads
  <2>3. CASE Rows(t)
    <3>1. pc[t] = "rows" /\ pc'[t] = "getlock" /\ UNCHANGED req
      BY <2>3 DEF Rows, Goto, TypeOK, LocalsOK
    <3>2. PICK S \in Latest(C(t)) : lista'[t] = S
      BY <2>3 DEF Rows, TypeOK, LocalsOK
    <3>3. Tx(S) \subseteq CountedTx(C(t))
      BY <1>5 DEF HistoryInv, RecordsInv, Latest, RowsTx, Tx
    <3>4. ASSUME NEW r \in RowsOf(C(t)) PROVE ListedBy(t, r)'
      BY <1>5, <3>2, LatestLists DEF HistoryInv, RecordsInv, ListedBy
    <3>5. Tx(lista[t])' = Tx(S)
      BY <3>2 DEF Tx
    <3>6. QED
      BY <1>5, <3>1, <3>3, <3>4, <3>5 DEF StatementRecorded, Showing
  <2>4. CASE Copy(t)
    <3>1. /\ pc[t] = "copy" /\ pc'[t] = "update" /\ UNCHANGED <<req, lista>>
          /\ covers'[t] = Counted(C(t))
      BY <1>5, <2>4 DEF Copy, Goto, TypeOK, LocalsOK
    <3>2. Tx(covers[t])' = CountedTx(C(t)) /\ Tx(lista[t])' = Tx(lista[t])
      BY <3>1 DEF CountedTx, Tx
    <3>3. QED
      BY <1>5, <3>1, <3>2 DEF StatementRecorded, CallRecorded, Showing, Reads, ListedBy
  <2>5. QED
    BY <2>1, <2>2, <2>3, <2>4 DEF Unrecorded
<1>9. QED
  BY <1>3, <1>4, <1>7, <1>8 DEF HistoryInv

\* The transaction that is stored was not counted, and has no row.
LEMMA StoreRecorded ==
  ASSUME OneWorkerPerServer, TypeOK, SumsInv, HistoryInv, NEW t \in Threads, Store(t)
  PROVE  HistoryInv'
<1> DEFINE tx == req[t].tx
<1>1. /\ pc[t] = "store" /\ pc'[t] = "insert"
      /\ \A u \in Threads \ {t} : pc'[u] = pc[u]
      /\ UNCHANGED <<up, req, status, lista, covers, must, served, failures, transacoes, saved,
                     orphans, answered>>
  BY DEF Store, Goto, TypeOK, LocalsOK, tables, bounds
<1>2. /\ P(t) \in Procs /\ C(t) \in Clientes /\ P(t) = Home(C(t))
      /\ Counted(C(t)) = booked[P(t)][C(t)] /\ C(t)' = C(t)
      /\ CallRecorded(t) /\ StatementRecorded(t)
  BY <1>1, Recorded DEF C
<1>3. tx \in Open /\ ServerOf[P(t)] \in up /\ req[t].tipo \in {"c", "d"}
  BY <1>1 DEF SumsInv, CallBacked, Open, Asks
<1>4. ASSUME NEW c \in Clientes
      PROVE  Counted(c)' = IF c = C(t) THEN Counted(c) \cup {Movement(t)} ELSE Counted(c)
  <2>1. CASE c = C(t)
    BY <1>2, <2>1 DEF Store, Counted, TypeOK, ServersOK
  <2>2. CASE c # C(t)
    BY <1>2, <2>2, HomeProc DEF Store, Counted, TypeOK, ServersOK
  <2>3. QED
    BY <2>1, <2>2
<1>5. Onward
  <2>1. \A c \in Clientes : Counted(c) \subseteq Counted(c)'
    BY <1>4
  <2>2. QED
    BY <1>1, <2>1 DEF Onward, HistoryInv, RecordsInv, RowsUnique, TypeOK, CountsOK
<1>6. tx \notin Tx(transacoes)
  <2>1. SUFFICES ASSUME NEW r \in transacoes, r.tx = tx PROVE FALSE
    BY DEF Tx
  <2>2. r.cliente \in Clientes /\ Home(r.cliente) \in Procs
    BY HomeProc DEF TypeOK, TablesOK, Linha
  <2>3. tx \in CountedTx(r.cliente)
    BY <2>1, <2>2 DEF HistoryInv, RecordsInv, RowsTx, RowsOf, Tx
  <2>4. PICK m \in booked[Home(r.cliente)][r.cliente] : m.tx = tx
    BY <2>3 DEF CountedTx, Counted, Tx
  <2>5. Backed(cache[Home(r.cliente)][r.cliente].saldo, booked[Home(r.cliente)][r.cliente],
               served, Open)
    BY <2>2 DEF SumsInv, BalancesBacked
  <2>6. QED
    BY <1>3, <2>4, <2>5 DEF Backed
<1>7. \A c \in Clientes :
        CountedTx(c)' = IF c = C(t) THEN CountedTx(c) \cup {tx} ELSE CountedTx(c)
  <2>1. Movement(t).tx = tx
    BY DEF Movement
  <2>2. QED
    BY <1>4, <2>1 DEF CountedTx, Tx
<1>8. ASSUME NEW c \in Clientes
      PROVE  (/\ RowsTx(c) \subseteq CountedTx(c)
              /\ saved[c] \subseteq Counted(c)
              /\ Upstream[c] \notin up => Counted(c) = {}
              /\ IsFiniteSet(Lost(c)) /\ Cardinality(Lost(c)) <= failures)'
  <2>1. /\ RowsTx(c) \subseteq CountedTx(c) /\ saved[c] \subseteq Counted(c)
        /\ Upstream[c] \notin up => Counted(c) = {}
        /\ failures \in Nat /\ IsFiniteSet(Lost(c)) /\ Cardinality(Lost(c)) <= failures
    BY DEF HistoryInv, RecordsInv, TypeOK, CountsOK
  <2>2. RowsTx(c)' = RowsTx(c)
    BY <1>1 DEF RowsTx, RowsOf, Tx
  <2>3. Upstream[C(t)] \in up
    BY <1>2, <1>3, HomeProc
  <2>4. InFlight(c) \subseteq InFlight(c)' /\ (c = C(t) => tx \in InFlight(c)')
    BY <1>1 DEF InFlight, C
  <2>5. Lost(c)' \subseteq Lost(c)
    <3> HIDE DEF tx
    <3>1. QED
      BY <1>7, <2>2, <2>4 DEF Lost
  <2>6. IsFiniteSet(Lost(c)') /\ Cardinality(Lost(c)') <= failures
    BY <2>1, <2>5, NoMore
  <2>7. Counted(c) \subseteq Counted(c)' /\ CountedTx(c) \subseteq CountedTx(c)'
    BY <1>5, TxGrows DEF Onward
  <2>8. QED
    BY <1>1, <1>4, <2>1, <2>2, <2>3, <2>6, <2>7
<1>9. RecordsInv'
  <2>1. ASSUME NEW a \in answered
        PROVE  a.tx \in CountedTx(a.cliente)' /\ (failures = 0 => a.tx \in RowsTx(a.cliente)')
    <3>1. a.cliente \in Clientes
      BY DEF TypeOK, CountsOK
    <3>2. QED
      BY <1>5, <3>1, TxGrows DEF HistoryInv, RecordsInv
  <2>2. QED
    BY <1>1, <1>5, <1>8, <2>1 DEF HistoryInv, RecordsInv, Onward
<1>10. ASSUME NEW u \in Threads \ {t} PROVE CallRecorded(u)' /\ StatementRecorded(u)'
  <2>1. pc[u] \in {"insert", "commit"} => req[u].tx \notin Tx(transacoes')
    BY <1>1 DEF HistoryInv, CallRecorded
  <2>2. QED
    BY <1>1, <1>5, <2>1, OthersRecorded
<1>11. CallRecorded(t)'
  <2>1. CountedTx(C(t))' = CountedTx(C(t)) \cup {tx} /\ RowsTx(C(t))' = RowsTx(C(t))
    BY <1>1, <1>2, <1>7 DEF RowsTx, RowsOf, Tx
  <2>2. tx \notin Tx(transacoes)'
    BY <1>1, <1>6 DEF Tx
  <2>3. QED
    BY <1>1, <1>2, <2>1, <2>2 DEF CallRecorded, Posts, P
<1>12. StatementRecorded(t)'
  BY <1>1 DEF StatementRecorded, Showing, Reads
<1>13. QED
  BY <1>9, <1>10, <1>11, <1>12 DEF HistoryInv

\* The row of a counted transaction; the others keep waiting for theirs.
LEMMA CommitRecorded ==
  ASSUME OneWorkerPerServer, TypeOK, SumsInv, HistoryInv, NEW t \in Threads, Commit(t)
  PROVE  HistoryInv'
<1> DEFINE tx == req[t].tx
<1>1. /\ pc[t] = "commit" /\ pc'[t] = "answer"
      /\ \A u \in Threads \ {t} : pc'[u] = pc[u]
      /\ transacoes' = transacoes \cup {Row(t)}
      /\ UNCHANGED <<up, req, status, lista, covers, must, served, failures, booked, saved,
                     orphans, answered>>
  BY DEF Commit, Goto, TypeOK, LocalsOK, bounds
<1>2. /\ C(t) \in Clientes /\ C(t)' = C(t) /\ tx \notin Tx(transacoes)
      /\ tx \in CountedTx(C(t)) /\ req[t].tipo \in {"c", "d"}
      /\ CallRecorded(t) /\ StatementRecorded(t)
  BY <1>1, Recorded DEF C, CallRecorded, SumsInv, CallBacked
<1>3. Row(t).tx = tx /\ Row(t).cliente = C(t)
  BY DEF Row
<1>4. RowsUnique' /\ IsFiniteSet(transacoes')
  <2>1. RowsUnique /\ IsFiniteSet(transacoes)
    BY DEF HistoryInv, RecordsInv
  <2>2. \A r \in transacoes : r.tx # Row(t).tx
    BY <1>2, <1>3 DEF Tx
  <2>3. QED
    BY <1>1, <2>1, <2>2, FS_AddElement DEF RowsUnique
<1>5. \A c \in Clientes : Counted(c)' = Counted(c) /\ CountedTx(c)' = CountedTx(c)
  BY <1>1 DEF Counted, CountedTx, Tx
<1>6. Onward
  BY <1>1, <1>4, <1>5 DEF Onward, TypeOK, CountsOK
<1>7. \A c \in Clientes :
        RowsTx(c)' = IF c = C(t) THEN RowsTx(c) \cup {tx} ELSE RowsTx(c)
  <2>1. ASSUME NEW c \in Clientes
        PROVE  RowsOf(c)' = IF c = C(t) THEN RowsOf(c) \cup {Row(t)} ELSE RowsOf(c)
    BY <1>1, <1>3 DEF RowsOf
  <2>2. QED
    BY <1>3, <2>1 DEF RowsTx, Tx
<1>8. ASSUME NEW c \in Clientes
      PROVE  (/\ RowsTx(c) \subseteq CountedTx(c)
              /\ saved[c] \subseteq Counted(c)
              /\ Upstream[c] \notin up => Counted(c) = {}
              /\ IsFiniteSet(Lost(c)) /\ Cardinality(Lost(c)) <= failures)'
  <2>1. /\ RowsTx(c) \subseteq CountedTx(c) /\ saved[c] \subseteq Counted(c)
        /\ Upstream[c] \notin up => Counted(c) = {}
        /\ failures \in Nat /\ IsFiniteSet(Lost(c)) /\ Cardinality(Lost(c)) <= failures
    BY DEF HistoryInv, RecordsInv, TypeOK, CountsOK
  <2>2. \A x \in InFlight(c) : x \in InFlight(c)' \/ (c = C(t) /\ x = tx)
    BY <1>1 DEF InFlight, C
  <2>3. Lost(c)' \subseteq Lost(c)
    <3> HIDE DEF tx
    <3>1. QED
      BY <1>5, <1>7, <2>2 DEF Lost
  <2>4. IsFiniteSet(Lost(c)') /\ Cardinality(Lost(c)') <= failures
    BY <2>1, <2>3, NoMore
  <2>5. QED
    BY <1>1, <1>2, <1>5, <1>7, <2>1, <2>4
<1>9. RecordsInv'
  <2>1. ASSUME NEW a \in answered
        PROVE  a.tx \in CountedTx(a.cliente)' /\ (failures = 0 => a.tx \in RowsTx(a.cliente)')
    <3>1. a.cliente \in Clientes
      BY DEF TypeOK, CountsOK
    <3>2. QED
      BY <1>6, <3>1, TxGrows DEF HistoryInv, RecordsInv
  <2>2. QED
    BY <1>1, <1>4, <1>8, <2>1 DEF HistoryInv, RecordsInv
<1>10. ASSUME NEW u \in Threads \ {t} PROVE CallRecorded(u)' /\ StatementRecorded(u)'
  <2>1. pc[u] \in {"insert", "commit"} => req[u].tx \notin Tx(transacoes')
    <3>1. SUFFICES ASSUME pc[u] \in {"insert", "commit"} PROVE req[u].tx \notin Tx(transacoes')
      OBVIOUS
    <3>2. req[u].tx \notin Tx(transacoes) /\ req[u].tx # tx
      BY <1>1, <3>1 DEF HistoryInv, CallRecorded
    <3>3. QED
      BY <1>1, <1>3, <3>2 DEF Tx
  <2>2. QED
    BY <1>1, <1>6, <2>1, OthersRecorded
<1>11. CallRecorded(t)'
  <2>1. /\ CountedTx(C(t))' = CountedTx(C(t))
        /\ RowsTx(C(t))' = RowsTx(C(t)) \cup {tx}
    BY <1>2, <1>5, <1>7
  <2>2. QED
    BY <1>1, <1>2, <2>1 DEF CallRecorded, Posts, P
<1>12. StatementRecorded(t)'
  BY <1>1, <1>2 DEF StatementRecorded, Showing, Reads
<1>13. QED
  BY <1>9, <1>10, <1>11, <1>12 DEF HistoryInv

\* A statement saves movements that are counted.
LEMMA UpdateRecorded ==
  ASSUME TypeOK, SumsInv, HistoryInv, NEW t \in Threads, Update(t)
  PROVE  HistoryInv'
<1>1. /\ pc[t] = "update" /\ pc'[t] = "answer"
      /\ \A u \in Threads \ {t} : pc'[u] = pc[u]
      /\ UNCHANGED <<up, req, status, lista, covers, must, served, failures, booked, transacoes,
                     orphans, answered>>
  BY DEF Update, Goto, TypeOK, LocalsOK, bounds
<1>2. /\ C(t) \in Clientes /\ C(t)' = C(t) /\ req[t].tipo = "extrato"
      /\ covers[t] \subseteq Counted(C(t))
      /\ CallRecorded(t) /\ StatementRecorded(t)
  BY <1>1, Recorded DEF C, StatementRecorded
<1>3. \A c \in Clientes : /\ Counted(c)' = Counted(c)
                          /\ CountedTx(c)' = CountedTx(c) /\ RowsTx(c)' = RowsTx(c)
                          /\ RowsOf(c)' = RowsOf(c)
  BY <1>1 DEF Counted, CountedTx, RowsTx, RowsOf, Tx
<1>4. Onward
  BY <1>1, <1>3, OnwardStays
<1>5. ASSUME NEW c \in Clientes
      PROVE  (/\ RowsTx(c) \subseteq CountedTx(c)
              /\ saved[c] \subseteq Counted(c)
              /\ Upstream[c] \notin up => Counted(c) = {}
              /\ IsFiniteSet(Lost(c)) /\ Cardinality(Lost(c)) <= failures)'
  <2>1. /\ RowsTx(c) \subseteq CountedTx(c) /\ saved[c] \subseteq Counted(c)
        /\ Upstream[c] \notin up => Counted(c) = {}
        /\ IsFiniteSet(Lost(c)) /\ Cardinality(Lost(c)) <= failures
    BY DEF HistoryInv, RecordsInv
  <2>2. InFlight(c)' = InFlight(c)
    BY <1>1 DEF InFlight, C
  <2>3. Lost(c)' = Lost(c)
    BY <1>3, <2>2 DEF Lost
  <2>4. saved'[c] \in {saved[c], covers[t]} /\ (c # C(t) => saved'[c] = saved[c])
    BY DEF Update, TypeOK, TablesOK
  <2>5. QED
    BY <1>1, <1>2, <1>3, <2>1, <2>3, <2>4
<1>6. RecordsInv'
  <2>1. \A a \in answered : a.cliente \in Clientes
    BY DEF TypeOK, CountsOK
  <2>2. QED
    BY <1>1, <1>3, <1>4, <1>5, <2>1 DEF HistoryInv, RecordsInv, Onward
<1>7. ASSUME NEW u \in Threads \ {t} PROVE CallRecorded(u)' /\ StatementRecorded(u)'
  <2>1. pc[u] \in {"insert", "commit"} => req[u].tx \notin Tx(transacoes')
    BY <1>1 DEF HistoryInv, CallRecorded
  <2>2. QED
    BY <1>1, <1>4, <2>1, OthersRecorded
<1>8. /\ CountedTx(C(t))' = CountedTx(C(t)) /\ RowsTx(C(t))' = RowsTx(C(t))
      /\ RowsOf(C(t))' = RowsOf(C(t))
  BY <1>2, <1>3
<1>9. CallRecorded(t)'
  BY <1>1, <1>2, <1>8 DEF CallRecorded, Posts, P
<1>10. StatementRecorded(t)'
  BY <1>1, <1>2, <1>8 DEF StatementRecorded, Showing, Reads, ListedBy, Tx
<1>11. QED
  BY <1>6, <1>7, <1>9, <1>10 DEF HistoryInv

\* A statement fails: a row more may be missing, or a list is empty.
LEMMA FailRecorded ==
  ASSUME TypeOK, SumsInv, HistoryInv, NEW t \in Threads, Fail(t)
  PROVE  HistoryInv'
<1>1. /\ pc[t] \in {"insert", "rows", "update"}
      /\ pc'[t] = IF pc[t] = "rows" THEN "getlock" ELSE "answer"
      /\ \A u \in Threads \ {t} : pc'[u] = pc[u]
      /\ failures' = failures + 1 /\ failures \in Nat
      /\ UNCHANGED <<up, req, status, lista, covers, must, served, booked, transacoes, saved,
                     orphans, answered>>
  BY DEF Fail, Goto, TypeOK, LocalsOK, CountsOK, tables
<1>2. /\ C(t) \in Clientes /\ C(t)' = C(t)
      /\ CallRecorded(t) /\ StatementRecorded(t)
      /\ pc[t] = "insert" => req[t].tipo \in {"c", "d"}
  BY <1>1, Recorded DEF C, SumsInv, CallBacked
<1>3. \A c \in Clientes : /\ Counted(c)' = Counted(c)
                          /\ CountedTx(c)' = CountedTx(c) /\ RowsTx(c)' = RowsTx(c)
  BY <1>1 DEF Counted, CountedTx, RowsTx, RowsOf, Tx
<1>4. Onward
  BY <1>1, <1>3 DEF Onward, HistoryInv, RecordsInv, RowsUnique, TypeOK, CountsOK
<1>5. RecordsInv'
  <2>1. ASSUME NEW c \in Clientes
        PROVE  IsFiniteSet(Lost(c)') /\ Cardinality(Lost(c)') <= failures'
    <3>1. IsFiniteSet(Lost(c)) /\ Cardinality(Lost(c)) <= failures
      BY DEF HistoryInv, RecordsInv
    <3>2. \A x \in InFlight(c) : x \in InFlight(c)' \/ x = req[t].tx
      BY <1>1 DEF InFlight, C
    <3>3. Lost(c)' \subseteq Lost(c) \cup {req[t].tx}
      BY <1>3, <3>2 DEF Lost
    <3>4. QED
      BY <1>1, <3>1, <3>3, OneMore
  <2>2. \A a \in answered : a.cliente \in Clientes
    BY DEF TypeOK, CountsOK
  <2>3. QED
    BY <1>1, <1>3, <1>4, <2>1, <2>2 DEF HistoryInv, RecordsInv, Onward
<1>6. ASSUME NEW u \in Threads \ {t} PROVE CallRecorded(u)' /\ StatementRecorded(u)'
  <2>1. pc[u] \in {"insert", "commit"} => req[u].tx \notin Tx(transacoes')
    BY <1>1 DEF HistoryInv, CallRecorded
  <2>2. QED
    BY <1>1, <1>4, <2>1, OthersRecorded
<1>7. failures' # 0 /\ CountedTx(C(t))' = CountedTx(C(t))
  BY <1>1, <1>2, <1>3
<1>8. CallRecorded(t)'
  BY <1>1, <1>2, <1>7 DEF CallRecorded, StatementRecorded, Posts, P
<1>9. StatementRecorded(t)'
  BY <1>1, <1>2, <1>7 DEF StatementRecorded, Showing, Tx
<1>10. QED
  BY <1>5, <1>6, <1>8, <1>9 DEF HistoryInv

\* What is answered is counted, and has its row.
LEMMA RespondRecorded ==
  ASSUME TypeOK, SumsInv, HistoryInv, NEW t \in Threads, Respond(t)
  PROVE  HistoryInv'
<1>1. /\ pc[t] = "answer" /\ pc'[t] = "idle" /\ lista'[t] = {}
      /\ \A u \in Threads \ {t} :
           /\ pc'[u] = pc[u] /\ req'[u] = req[u] /\ status'[u] = status[u]
           /\ lista'[u] = lista[u] /\ covers'[u] = covers[u] /\ must'[u] = must[u]
      /\ answered' = IF Posts(t) THEN answered \cup {[tx |-> req[t].tx, cliente |-> C(t)]}
                     ELSE answered
      /\ UNCHANGED <<up, served, failures, booked, transacoes, saved, orphans>>
  BY DEF Respond, Clear, Posts, tables, bounds
<1>2. \A c \in Clientes : /\ Counted(c)' = Counted(c)
                          /\ CountedTx(c)' = CountedTx(c) /\ RowsTx(c)' = RowsTx(c)
  BY <1>1 DEF Counted, CountedTx, RowsTx, RowsOf, Tx
<1>3. Onward
  BY <1>1, <1>2, OnwardStays
<1>4. RecordsInv'
  <2>1. ASSUME NEW c \in Clientes
        PROVE  IsFiniteSet(Lost(c)') /\ Cardinality(Lost(c)') <= failures
    <3>1. InFlight(c) \subseteq InFlight(c)'
      BY <1>1 DEF InFlight, C
    <3>2. Lost(c)' \subseteq Lost(c)
      BY <1>2, <3>1 DEF Lost
    <3>3. failures \in Nat /\ IsFiniteSet(Lost(c)) /\ Cardinality(Lost(c)) <= failures
      BY DEF HistoryInv, RecordsInv, TypeOK, CountsOK
    <3>4. QED
      BY <3>2, <3>3, NoMore
  <2>2. ASSUME NEW a \in answered'
        PROVE  a.tx \in CountedTx(a.cliente)' /\ (failures = 0 => a.tx \in RowsTx(a.cliente)')
    <3>1. CASE a \in answered
      <4>1. a.cliente \in Clientes
        BY <3>1 DEF TypeOK, CountsOK
      <4>2. QED
        BY <1>2, <3>1, <4>1 DEF HistoryInv, RecordsInv
    <3>2. CASE a \notin answered
      <4>1. Posts(t) /\ a.tx = req[t].tx /\ a.cliente = C(t)
        BY <1>1, <3>2
      <4>2. a.cliente \in Clientes
        BY <4>1 DEF Posts, TypeOK, HandlerOK
      <4>3. CallRecorded(t)
        BY DEF HistoryInv
      <4>4. QED
        BY <1>2, <4>1, <4>2, <4>3 DEF CallRecorded
    <3>3. QED
      BY <3>1, <3>2
  <2>3. QED
    BY <1>1, <1>2, <1>3, <2>1, <2>2 DEF HistoryInv, RecordsInv, Onward
<1>5. ASSUME NEW u \in Threads \ {t} PROVE CallRecorded(u)' /\ StatementRecorded(u)'
  <2>1. pc[u] \in {"insert", "commit"} => req[u].tx \notin Tx(transacoes')
    BY <1>1 DEF HistoryInv, CallRecorded
  <2>2. QED
    BY <1>1, <1>3, <2>1, OthersRecorded
<1>6. CallRecorded(t)' /\ StatementRecorded(t)'
  BY <1>1 DEF CallRecorded, StatementRecorded, Posts, Showing, Reads
<1>7. QED
  BY <1>4, <1>5, <1>6 DEF HistoryInv

\* A request comes after all that was answered, and nginx brings it to the
\* process that counts it.
LEMMA ReceiveRecorded ==
  ASSUME OneWorkerPerServer, TypeOK, SumsInv, HistoryInv, NEW t \in Threads, Receive(t)
  PROVE  HistoryInv'
<1>1. PICK r \in Pedidos \cup Malformed : Take(t, r)
  BY DEF Receive
<1>2. /\ pc[t] = "idle"
      /\ req'[t].tipo = r.tipo /\ req'[t].cliente = r.cliente /\ status'[t] = Verdict(r)
      /\ pc'[t] = IF Verdict(r) # 200 THEN "answer"
                  ELSE IF r.tipo = "extrato" THEN "rows" ELSE "lock"
      /\ \A u \in Threads \ {t} :
           pc'[u] = pc[u] /\ req'[u] = req[u] /\ status'[u] = status[u]
  BY <1>1, Taken DEF Receive
<1>3. /\ req'[t].tx = served + 1 /\ served' = served + 1 /\ served \in Nat
      /\ must'[t] = AnsweredTo(r.cliente) /\ \A u \in Threads \ {t} : must'[u] = must[u]
      /\ UNCHANGED <<up, lista, covers, failures, booked, transacoes, saved, orphans, answered>>
  BY <1>1 DEF Receive, Take, TypeOK, LocalsOK, CountsOK, tables
<1>4. \A c \in Clientes : /\ Counted(c)' = Counted(c)
                          /\ CountedTx(c)' = CountedTx(c) /\ RowsTx(c)' = RowsTx(c)
  BY <1>3 DEF Counted, CountedTx, RowsTx, RowsOf, Tx
<1>5. Onward
  BY <1>3, <1>4, OnwardStays
<1>6. RecordsInv'
  <2>1. \A c \in Clientes : InFlight(c) \subseteq InFlight(c)'
    BY <1>2 DEF InFlight, C
  <2>2. QED
    BY <1>3, <1>4, <2>1, RecordsStay
<1>7. ASSUME NEW u \in Threads \ {t} PROVE CallRecorded(u)' /\ StatementRecorded(u)'
  <2>1. pc[u] \in {"insert", "commit"} => req[u].tx \notin Tx(transacoes')
    BY <1>3 DEF HistoryInv, CallRecorded
  <2>2. QED
    BY <1>2, <1>3, <1>5, <2>1, OthersRecorded
<1>8. C(t)' = r.cliente /\ ~Posts(t)' /\ ~Reads(t)' /\ ~Showing(t)'
  BY <1>2, VerdictType DEF C, Posts, Reads, Showing, Verdict, Pedidos, Malformed
<1>9. CallRecorded(t)'
  <2>1. ASSUME NEW u \in Threads \ {t}, pc'[u] # "idle" PROVE req'[u].tx # req'[t].tx
    <3>1. req[u].tx <= served /\ req[u].tx \in Nat /\ req'[u] = req[u]
      BY <1>2, <2>1 DEF HistoryInv, CallRecorded, TypeOK, LocalsOK, Chamada
    <3>2. QED
      BY <1>3, <3>1
  <2>2. ASSUME r.cliente \in Clientes
        PROVE  /\ P(t) = Home(r.cliente)
               /\ AnsweredTo(r.cliente) \subseteq CountedTx(r.cliente)
               /\ failures = 0 => AnsweredTo(r.cliente) \subseteq RowsTx(r.cliente)
    <3>1. Upstream[r.cliente] = ServerOf[P(t)] /\ P(t) \in Procs
      BY <1>1, <2>2, ApiAssumption DEF Take, Routed, P
    <3>2. QED
      BY <2>2, <3>1, HomeProc DEF HistoryInv, RecordsInv, AnsweredTo
  <2>3. QED
    BY <1>2, <1>3, <1>4, <1>8, <2>1, <2>2 DEF CallRecorded, P
<1>10. StatementRecorded(t)'
  <2>1. lista[t] = {}
    BY <1>2 DEF HistoryInv, StatementRecorded
  <2>2. QED
    BY <1>2, <1>3, <1>8, <2>1 DEF StatementRecorded
<1>11. QED
  BY <1>6, <1>7, <1>9, <1>10 DEF HistoryInv

\* A server starts for the first time: nothing has been saved for its clients.
LEMMA BootRecorded ==
  ASSUME OneWorkerPerServer, TypeOK, SumsInv, HistoryInv, NEW s \in Servers, Boot(s)
  PROVE  HistoryInv'
<1>1. /\ s \notin up /\ up' = up \cup {s}
      /\ UNCHANGED <<pc, req, status, lista, covers, must, served, failures, transacoes, saved,
                     orphans, answered>>
  BY DEF Boot, locals, tables, bounds
<1>2. ASSUME NEW c \in Clientes PROVE Counted(c)' = Counted(c)
  <2>1. Home(c) \in Procs /\ ServerOf[Home(c)] = Upstream[c]
    BY HomeProc
  <2>2. CASE Upstream[c] # s
    BY <2>1, <2>2 DEF Boot, AtServer, Counted
  <2>3. CASE Upstream[c] = s
    <3>1. Counted(c) = {} /\ saved[c] = {}
      BY <1>1, <2>3 DEF HistoryInv, RecordsInv
    <3>2. Counted(c)' \in {saved[c], {}}
      BY <2>1, <2>3 DEF Boot, AtServer, Counted, NoBooks
    <3>3. QED
      BY <3>1, <3>2
  <2>4. QED
    BY <2>2, <2>3
<1>3. Onward
  BY <1>1, <1>2, OnwardStays
<1>4. RecordsInv'
  <2>1. \A c \in Clientes : InFlight(c) \subseteq InFlight(c)'
    BY <1>1 DEF InFlight, C
  <2>2. QED
    BY <1>1, <1>2, <2>1, RecordsStay
<1>5. ASSUME NEW u \in Threads PROVE CallRecorded(u)' /\ StatementRecorded(u)'
  <2>1. pc[u] \in {"insert", "commit"} => req[u].tx \notin Tx(transacoes')
    BY <1>1 DEF HistoryInv, CallRecorded
  <2>2. QED
    BY <1>1, <1>3, <2>1, OthersRecorded
<1>6. QED
  BY <1>4, <1>5 DEF HistoryInv

\* At first there is no history.
LEMMA InitHistory == ASSUME OneWorkerPerServer, Init PROVE HistoryInv
<1>1. ASSUME NEW c \in Clientes
      PROVE  Counted(c) = {} /\ CountedTx(c) = {} /\ RowsTx(c) = {} /\ Lost(c) = {}
  BY HomeProc DEF Init, Counted, NoBooks, CountedTx, RowsTx, RowsOf, Lost, Tx
<1>2. RecordsInv
  <2>1. IsFiniteSet({}) /\ Cardinality({}) = 0
    BY FS_EmptySet
  <2>2. \A c \in Clientes : IsFiniteSet(Lost(c)) /\ Cardinality(Lost(c)) <= failures
    <3>1. \A c \in Clientes : IsFiniteSet(Lost(c)) /\ Cardinality(Lost(c)) = 0
      BY <1>1, <2>1, Zenon
    <3>2. failures = 0
      BY DEF Init
    <3>3. QED
      BY <3>1, <3>2
  <2>3. QED
    BY <1>1, <2>1, <2>2 DEF Init, RecordsInv, RowsUnique
<1>3. ASSUME NEW t \in Threads PROVE CallRecorded(t) /\ StatementRecorded(t)
  BY DEF Init, CallRecorded, StatementRecorded, Posts, Showing, Reads
<1>4. QED
  BY <1>2, <1>3 DEF HistoryInv

\* HistoryInv is inductive, beside the types and SumsInv.
LEMMA NextRecorded ==
  ASSUME OneWorkerPerServer, NoCrash, TypeOK, SumsInv, HistoryInv, [Next]_vars
  PROVE  HistoryInv'
<1>1. CASE UNCHANGED vars \/ Done
  <2>1. UNCHANGED <<up, served, failures, booked, transacoes, saved, orphans, answered,
                    pc, req, status, lista, covers, must>>
    BY <1>1 DEF Done, vars, locals, tables, bounds
  <2>2. \A c \in Clientes : Counted(c)' = Counted(c) /\ InFlight(c) \subseteq InFlight(c)'
    BY <2>1 DEF Counted, InFlight, C
  <2>3. Onward /\ RecordsInv'
    BY <2>1, <2>2, OnwardStays, RecordsStay
  <2>4. \A u \in Threads : CallRecorded(u)' /\ StatementRecorded(u)'
    <3>1. ASSUME NEW u \in Threads PROVE CallRecorded(u)' /\ StatementRecorded(u)'
      <4>1. pc[u] \in {"insert", "commit"} => req[u].tx \notin Tx(transacoes')
        BY <2>1 DEF HistoryInv, CallRecorded
      <4>2. QED
        BY <2>1, <2>3, <4>1, OthersRecorded
    <3>2. QED
      BY <3>1
  <2>5. QED
    BY <2>3, <2>4 DEF HistoryInv
<1>2. ASSUME NEW s \in Servers PROVE ~Crash(s)
  BY DEF NoCrash, Crash, TypeOK, CountsOK
<1>3. ~Orphan
  BY DEF Orphan, HistoryInv, RecordsInv
<1>4. ASSUME NEW t \in Threads, Receive(t) \/ Step(t) PROVE HistoryInv'
  BY <1>4, ReceiveRecorded, UnrecordedKept, StoreRecorded, CommitRecorded, UpdateRecorded,
     FailRecorded, RespondRecorded DEF Step, Unrecorded
<1>5. QED
  BY <1>1, <1>2, <1>3, <1>4, BootRecorded DEF Next

\* It holds in every state.
LEMMA HistoryHolds == ASSUME OneWorkerPerServer, NoCrash PROVE Spec => []HistoryInv
BY ApiTypeOK, InitSums, NextSums, InitHistory, NextRecorded, PTL DEF Spec

\* While no server is killed, the database never holds a balance that counts
\* a movement the cache does not know, however late a statement writes it.
THEOREM ApiSavedNeverAhead ==
  ASSUME OneWorkerPerServer, NoCrash PROVE Spec => []SavedNeverAhead
<1>1. HistoryInv => SavedNeverAhead
  BY DEF HistoryInv, RecordsInv, SavedNeverAhead, Counted
<1>2. QED
  BY <1>1, HistoryHolds, PTL

\* The total of a statement counts every transaction that it lists.
THEOREM ApiTotalCoversListed ==
  ASSUME OneWorkerPerServer, NoCrash PROVE Spec => []TotalCoversListed
<1>1. HistoryInv => TotalCoversListed
  BY DEF HistoryInv, StatementRecorded, TotalCoversListed
<1>2. QED
  BY <1>1, HistoryHolds, PTL

\* A statement asked for after a transaction was answered counts it, and lists
\* it, unless its row was not stored, the query failed, or the list is full of
\* rows that are not older.
THEOREM ApiReadYourWrites ==
  ASSUME OneWorkerPerServer, NoCrash PROVE Spec => []ReadYourWrites
<1>1. HistoryInv => ReadYourWrites
  BY DEF HistoryInv, StatementRecorded, ReadYourWrites, Reads, ListedBy
<1>2. QED
  BY <1>1, HistoryHolds, PTL

\* The table holds the movements of the balance and no others, but for the
\* inserts on their way and at most one for each statement that failed.
THEOREM ApiRowsMatchBalance ==
  ASSUME OneWorkerPerServer, NoCrash PROVE Spec => []RowsMatchBalance
<1>1. ASSUME TypeOK, HistoryInv PROVE RowsMatchBalance
  <2>1. SUFFICES ASSUME NEW c \in Clientes
                 PROVE  /\ RowsTx(c) \subseteq CountedTx(c)
                        /\ InFlight(c) \subseteq CountedTx(c) \ RowsTx(c)
                        /\ Cardinality((CountedTx(c) \ RowsTx(c)) \ InFlight(c)) <= failures
    BY DEF RowsMatchBalance, RowsTx, CountedTx, Counted
  <2>2. RowsTx(c) \subseteq CountedTx(c) /\ Cardinality(Lost(c)) <= failures
    BY <1>1 DEF HistoryInv, RecordsInv
  <2>3. ASSUME NEW x \in InFlight(c) PROVE x \in CountedTx(c) \ RowsTx(c)
    <3>1. PICK t \in Threads : C(t) = c /\ pc[t] \in {"insert", "commit"} /\ x = req[t].tx
      BY DEF InFlight
    <3>2. CallRecorded(t)
      BY <1>1 DEF HistoryInv
    <3>3. x \in CountedTx(c) /\ x \notin Tx(transacoes)
      BY <3>1, <3>2 DEF CallRecorded
    <3>4. QED
      BY <3>3 DEF RowsTx, RowsOf, Tx
  <2>4. QED
    BY <2>2, <2>3 DEF Lost
<1>2. QED
  BY <1>1, ApiTypeOK, HistoryHolds, PTL
=============================================================================
