------------------------------- MODULE Ledger -------------------------------
(***************************************************************************)
(* What the service promises to whoever calls it, whichever server, thread *)
(* or lock is behind: one balance for each client, and each call takes     *)
(* effect on it in one step between its arrival and its answer.  The       *)
(* controllers and the cache of Api implement it.                          *)
(***************************************************************************)
EXTENDS Integers

CONSTANTS Threads,     \* the callers
          Clientes,    \* the clients
          Limite,      \* Limite[c]: how far c may go below zero
          Pedidos,     \* the calls: [tipo, cliente, valor]
          INT64_MIN    \* the total of a refused debit

VARIABLES saldo,       \* saldo[c]: the balance of c
          chamada      \* chamada[t]: the call of t

Livre == [fase |-> "livre"]
Aberta(r) == [fase |-> "aberta", pedido |-> r]
Feita(r, total) == [fase |-> "feita", pedido |-> r, total |-> total]

Init ==
  /\ saldo = [c \in Clientes |-> 0]
  /\ chamada = [t \in Threads |-> Livre]

Call(t) ==
  /\ chamada[t] = Livre
  /\ \E r \in Pedidos : chamada' = [chamada EXCEPT ![t] = Aberta(r)]
  /\ UNCHANGED saldo

\* The call of t takes effect: the balance of its client becomes novo and the
\* answer is total.
Effect(t, tipo, novo, total) ==
  /\ chamada[t].fase = "aberta"
  /\ LET r == chamada[t].pedido IN
       /\ r.tipo = tipo
       /\ saldo' = [saldo EXCEPT ![r.cliente] = novo]
       /\ chamada' = [chamada EXCEPT ![t] = Feita(r, total)]

Conta(t) == chamada[t].pedido.cliente
Credited(t) == saldo[Conta(t)] + chamada[t].pedido.valor
Debited(t) == saldo[Conta(t)] - chamada[t].pedido.valor

Creditar(t) == Effect(t, "c", Credited(t), Credited(t))

Debitar(t) ==
  /\ chamada[t].fase = "aberta"
  /\ Debited(t) > -Limite[Conta(t)]
  /\ Effect(t, "d", Debited(t), Debited(t))

Recusar(t) ==
  /\ chamada[t].fase = "aberta"
  /\ Debited(t) <= -Limite[Conta(t)]
  /\ Effect(t, "d", saldo[Conta(t)], INT64_MIN)

Consultar(t) ==
  /\ chamada[t].fase = "aberta"
  /\ Effect(t, "extrato", saldo[Conta(t)], saldo[Conta(t)])

Return(t) ==
  /\ chamada[t].fase = "feita"
  /\ chamada' = [chamada EXCEPT ![t] = Livre]
  /\ UNCHANGED saldo

Next == \E t \in Threads :
  Call(t) \/ Creditar(t) \/ Debitar(t) \/ Recusar(t) \/ Consultar(t) \/ Return(t)

Spec == Init /\ [][Next]_<<saldo, chamada>>
=============================================================================
