----------------------------- MODULE Statement -----------------------------
(***************************************************************************)
(* What becomes of a statement a handler runs: its integer parameters are  *)
(* printed (db_exec_function_postgres), libpq answers with a result, an    *)
(* error or a null pointer, and the result becomes a code the handler      *)
(* tests (src/src/db_postgres.h).  One client; threads each borrow a       *)
(* connection for a statement (ConnPool).                                  *)
(*                                                                         *)
(* The database can end all sessions, by a restart or by a crash, which    *)
(* empties the unlogged tables of init.sql.  The first statement on a      *)
(* session that has gone gets an error and libpq marks the connection bad; *)
(* later ones get a null pointer.  Nothing ever connects again.            *)
(***************************************************************************)
EXTENDS Integers, Sequences, FiniteSets

CONSTANTS
  Threads, Conns,
  IntMax,        \* the largest int, 2^31 - 1 in the program
  Amounts,       \* what parseTransa may make of a valor
  NoConn, NoRow,
  MaxPosts, MaxFailures, MaxLosses, MaxRestarts   \* bounds

ASSUME StatementAssumption ==
  /\ IntMax \in Nat
  /\ Amounts \subseteq Int
  /\ NoConn \notin Conns
  /\ NoRow \notin Int

VARIABLES
  saldo,     \* the cached balance of the client, 64 bits wide
  rows,      \* transacoes: the column valor, an int
  column,    \* clientes.saldo
  session,   \* of each connection: "good", "gone" or, to libpq too, "bad"
  conn,      \* the connection thread t has borrowed
  pc,        \* "idle", "sent" or "back": the statement of thread t
  call,      \* its procedure and parameter
  done,      \* has the database executed it?
  code,      \* results->code
  had,       \* history: the balances the cache has had
  posted,    \* history: the amounts answered
  told,      \* history: connections on which a failure was reported
  failures, losses, restarts

vars == <<saldo, rows, column, session, conn, pc, call, done, code,
          had, posted, told, failures, losses, restarts>>
tables == <<rows, column>>
cache == <<saldo, had, posted>>
bounds == <<failures, losses, restarts>>

\* The statuses of a result, and the code db_error_map_postgres gives each.
StatusCode ==
  [EMPTY_QUERY |-> "ok", COMMAND_OK |-> "ok", TUPLES_OK |-> "ok", SINGLE_TUPLE |-> "ok",
   COPY_OUT |-> "processing", COPY_IN |-> "processing", COPY_BOTH |-> "processing",
   PIPELINE_SYNC |-> "processing", NONFATAL_ERROR |-> "info", PIPELINE_ABORTED |-> "info",
   BAD_RESPONSE |-> "fatal", FATAL_ERROR |-> "fatal"]

Messages == {"invalid input syntax", "violates unique constraint", "too long", "too short", "other"}

\* Mutant: an error without a text of its own counts as a notice.
Remap_Notice(msg) ==
  CASE msg = "invalid input syntax" -> "invalid_type"
    [] msg = "violates unique constraint" -> "unique_constrain_violation"
    [] msg \in {"too long", "too short"} -> "invalid_range"
    [] OTHER -> "info"

\* What a fatal error is remapped to by the text of its message.
Remap(msg) ==
  CASE msg = "invalid input syntax" -> "invalid_type"
    [] msg = "violates unique constraint" -> "unique_constrain_violation"
    [] msg \in {"too long", "too short"} -> "invalid_range"
    [] OTHER -> "fatal"

\* results->code starts as ok and only a fatal error changes it; a null result
\* changes nothing but the message.
Code(status, msg) ==
  IF status # "null" /\ StatusCode[status] = "fatal" THEN Remap(msg) ELSE "ok"

Codes == {"ok", "invalid_type", "unique_constrain_violation", "invalid_range", "fatal"}

\* Half of the values of an int are not negative.
Half == IntMax + 1
Fits(v) == v \in -Half..(Half - 1)

\* Mutant: the parameter is printed without its sign.
AsInt_Unsigned(v) == v % (2 * Half)

\* An int64_t that becomes an int, by assignment (valor) or by "%d" (saldo).
AsInt(v) == ((v + Half) % (2 * Half)) - Half

Nothing == [proc |-> "none", arg |-> 0]

TypeOK ==
  /\ saldo \in Int
  /\ rows \in Seq(Int)
  /\ column \in Int \cup {NoRow}
  /\ session \in [Conns -> {"good", "gone", "bad"}]
  /\ conn \in [Threads -> Conns \cup {NoConn}]
  /\ pc \in [Threads -> {"idle", "sent", "back"}]
  /\ call \in [Threads -> [proc : {"none", "transar", "extrato", "saldar"}, arg : Int]]
  /\ done \in [Threads -> BOOLEAN]
  /\ code \in [Threads -> Codes]
  /\ had \subseteq Int /\ posted \in Seq(Amounts) /\ told \subseteq Conns

Init ==
  /\ saldo = 0 /\ had = {0} /\ posted = <<>>
  /\ rows = <<>> /\ column = 0
  /\ session = [c \in Conns |-> "good"] /\ told = {}
  /\ conn = [t \in Threads |-> NoConn]
  /\ pc = [t \in Threads |-> "idle"]
  /\ call = [t \in Threads |-> Nothing]
  /\ done = [t \in Threads |-> FALSE]
  /\ code = [t \in Threads |-> "ok"]
  /\ failures = 0 /\ losses = 0 /\ restarts = 0

Free(c) == \A t \in Threads : conn[t] # c

\* db_exec: borrow a connection and send the statement.
Send(t, c, proc, arg) ==
  /\ conn' = [conn EXCEPT ![t] = c]
  /\ pc' = [pc EXCEPT ![t] = "sent"]
  /\ call' = [call EXCEPT ![t] = [proc |-> proc, arg |-> arg]]
  /\ done' = [done EXCEPT ![t] = FALSE]
  /\ UNCHANGED code

\* Mutant: a debit is sent with its sign.
Post_Signed(t) ==
  /\ pc[t] = "idle"
  /\ Len(posted) < MaxPosts
  /\ \E v \in Amounts, c \in Conns :
       /\ Free(c)
       /\ saldo' \in {saldo + v, saldo - v}
       /\ had' = had \cup {saldo'}
       /\ posted' = Append(posted, v)
       /\ Send(t, c, "transar", AsInt(saldo' - saldo))
  /\ UNCHANGED <<tables, session, told, bounds>>

\* post_transa, past the limit test: the balance moves by valor, up or down, and
\* the row is asked for with valor as an int.
Post(t) ==
  /\ pc[t] = "idle"
  /\ Len(posted) < MaxPosts
  /\ \E v \in Amounts, c \in Conns :
       /\ Free(c)
       /\ saldo' \in {saldo + v, saldo - v}
       /\ had' = had \cup {saldo'}
       /\ posted' = Append(posted, v)
       /\ Send(t, c, "transar", AsInt(v))
  /\ UNCHANGED <<tables, session, told, bounds>>

\* get_extrato.
Get(t) ==
  /\ pc[t] = "idle"
  /\ \E c \in Conns : Free(c) /\ Send(t, c, "extrato", 0)
  /\ UNCHANGED <<cache, tables, session, told, bounds>>

\* The database executes the statement; saldar finds no row in an empty table.
Execute(t) ==
  /\ pc[t] = "sent" /\ ~done[t] /\ session[conn[t]] = "good"
  /\ done' = [done EXCEPT ![t] = TRUE]
  /\ rows' = IF call[t].proc = "transar" THEN Append(rows, call[t].arg) ELSE rows
  /\ column' = IF call[t].proc = "saldar" /\ column # NoRow THEN call[t].arg ELSE column
  /\ UNCHANGED <<cache, session, conn, pc, call, code, told, bounds>>

\* The call of PQexec or PQexecParams returns.
Return(t, status, msg) ==
  /\ pc' = [pc EXCEPT ![t] = "back"]
  /\ code' = [code EXCEPT ![t] = Code(status, msg)]
  /\ UNCHANGED <<cache, tables, conn, call, done, told, losses, restarts>>

Answer(t) ==
  /\ pc[t] = "sent" /\ done[t] /\ session[conn[t]] = "good"
  /\ Return(t, IF call[t].proc = "extrato" THEN "TUPLES_OK" ELSE "COMMAND_OK", "")
  /\ UNCHANGED <<session, failures>>

Refuse(t) ==
  /\ pc[t] = "sent" /\ ~done[t] /\ session[conn[t]] = "good"
  /\ failures < MaxFailures
  /\ failures' = failures + 1
  /\ \E msg \in Messages : Return(t, "FATAL_ERROR", msg)
  /\ UNCHANGED session

Broken(t) ==
  /\ pc[t] = "sent" /\ session[conn[t]] = "gone"
  /\ session' = [session EXCEPT ![conn[t]] = "bad"]
  /\ Return(t, "FATAL_ERROR", "other")
  /\ UNCHANGED failures

NullResult(t) ==
  /\ pc[t] = "sent" /\ session[conn[t]] = "bad"
  /\ Return(t, "null", "")
  /\ UNCHANGED <<session, failures>>

\* Mutant: the handler looks at the code only of what it inserts.
Report_Inserts(t) ==
  told' = IF code[t] # "ok" /\ call[t].proc = "transar" THEN told \cup {conn[t]} ELSE told

\* The handler prints a message when the code is not ok.
Report(t) == told' = IF code[t] # "ok" THEN told \cup {conn[t]} ELSE told

\* The end of transar or saldar: the handler answers, whatever the code was.
Finish(t) ==
  /\ pc[t] = "back" /\ call[t].proc # "extrato"
  /\ Report(t)
  /\ pc' = [pc EXCEPT ![t] = "idle"]
  /\ conn' = [conn EXCEPT ![t] = NoConn]
  /\ call' = [call EXCEPT ![t] = Nothing]
  /\ done' = [done EXCEPT ![t] = FALSE]
  /\ code' = [code EXCEPT ![t] = "ok"]
  /\ UNCHANGED <<cache, tables, session, bounds>>

\* get_extrato goes on to clientes_update, on a connection that may be another.
Save(t) ==
  /\ pc[t] = "back" /\ call[t].proc = "extrato"
  /\ Report(t)
  /\ \E c \in Conns : (c = conn[t] \/ Free(c)) /\ Send(t, c, "saldar", AsInt(saldo))
  /\ UNCHANGED <<cache, tables, session, bounds>>

\* The database ends its sessions; after a crash unlogged tables are empty.
Lose ==
  /\ losses < MaxLosses
  /\ losses' = losses + 1
  /\ session' = [c \in Conns |-> IF session[c] = "good" THEN "gone" ELSE session[c]]
  /\ \/ UNCHANGED tables
     \/ rows' = <<>> /\ column' = NoRow
  /\ UNCHANGED <<cache, conn, pc, call, done, code, told, failures, restarts>>

\* The server process is started again: new connections, and clientes_init
\* reads the column, or leaves zero when there is no row.
Restart ==
  /\ restarts < MaxRestarts
  /\ restarts' = restarts + 1
  /\ saldo' = IF column = NoRow THEN 0 ELSE column
  /\ had' = had \cup {saldo'}
  /\ session' = [c \in Conns |-> "good"] /\ told' = {}
  /\ pc' = [t \in Threads |-> "idle"]
  /\ conn' = [t \in Threads |-> NoConn]
  /\ call' = [t \in Threads |-> Nothing]
  /\ done' = [t \in Threads |-> FALSE]
  /\ code' = [t \in Threads |-> "ok"]
  /\ UNCHANGED <<tables, posted, failures, losses>>

Step(t) == \/ Post(t) \/ Get(t) \/ Execute(t) \/ Answer(t) \/ Refuse(t)
           \/ Broken(t) \/ NullResult(t) \/ Finish(t) \/ Save(t)

Next == (\E t \in Threads : Step(t)) \/ Lose \/ Restart

Spec == Init /\ [][Next]_vars

-----------------------------------------------------------------------------
Same(x, v) == x = v \/ (~Fits(v) /\ (x - v) % (2 * Half) = 0)

\* A handler is left to believe in a statement that was not executed only on a
\* connection that an earlier statement was told has failed: the first failure
\* on each connection is always reported.
SilentOnlyWhenTold ==
  \A t \in Threads :
    pc[t] = "back" /\ ~done[t] /\ code[t] = "ok" =>
      session[conn[t]] = "bad" /\ conn[t] \in told

\* The saved balance is one the cache has had, or where that did not fit an
\* int the same modulo its width: through failures, losses and restarts.
SavedWasCached == column # NoRow => \E b \in had : Same(column, b)

\* The table never shows more movements of an amount than were posted; what
\* fits an int is shown as it was posted.
RowsWerePosted ==
  \A k \in DOMAIN rows :
    Cardinality({j \in DOMAIN rows : rows[j] = rows[k]})
      <= Cardinality({j \in DOMAIN posted : Same(rows[k], posted[j])})

\* What the comment at db_postgres.h:853 sets out to do: the cases the error
\* map cannot handle are errors, so a statement that was not executed does not
\* come back as ok.
EveryFailureReported ==
  \A t \in Threads : pc[t] = "back" /\ ~done[t] => code[t] # "ok"
=============================================================================
