--------------------------- MODULE StatementProofs ---------------------------
(***************************************************************************)
(* What is proved of the statements of the handlers, for any number of     *)
(* threads and connections and any width of an int: through failing        *)
(* statements, lost sessions, emptied tables and restarts.                 *)
(***************************************************************************)
EXTENDS Statement, FiniteSetTheorems, TLAPS

\* The widths of an int are whole numbers, and the width is not zero.
LEMMA HalfType == Half \in Nat \ {0}
BY StatementAssumption DEF Half

\* A whole number of widths is zero modulo the width.
LEMMA WholeTurns ==
  ASSUME NEW b \in Nat \ {0}, NEW q \in Int
  PROVE  (b * q) % b = 0
OBVIOUS

\* An int64_t that becomes an int: what fits is kept, the rest is the same
\* modulo the width.
LEMMA AsIntSame ==
  ASSUME NEW v \in Int
  PROVE  AsInt(v) \in Int /\ Same(AsInt(v), v)
<1> DEFINE b == 2 * Half
           q == (v + Half) \div b
<1>1. Half \in Int /\ b \in Nat \ {0} /\ v + Half \in Int
  BY HalfType
<1>2. q \in Int /\ v + Half = b * q + ((v + Half) % b) /\ (v + Half) % b \in 0..(b - 1)
  BY <1>1
<1>3. AsInt(v) \in Int
  BY <1>1, <1>2 DEF AsInt
<1>4. CASE Fits(v)
  <2>1. v + Half \in 0..(b - 1)
    BY <1>1, <1>4 DEF Fits
  <2>2. (v + Half) % b = v + Half
    BY <1>1, <2>1
  <2>3. AsInt(v) = v
    BY <1>1, <2>2 DEF AsInt
  <2>4. QED
    BY <1>3, <2>3 DEF Same
<1>5. CASE ~Fits(v)
  <2>1. AsInt(v) - v = b * (-q)
    <3>1. AsInt(v) = ((v + Half) % b) - Half
      BY DEF AsInt
    <3> HIDE DEF b, q
    <3>2. QED
      BY <1>1, <1>2, <3>1
  <2>2. (b * (-q)) % b = 0
    <3> HIDE DEF b, q
    <3>1. -q \in Int
      BY <1>2
    <3>2. QED
      BY <1>1, <3>1, WholeTurns
  <2>3. (AsInt(v) - v) % b = 0
    <3> HIDE DEF b, q
    <3>1. QED
      BY <2>1, <2>2
  <2>4. QED
    BY <1>3, <1>5, <2>3 DEF Same
<1>6. QED
  BY <1>4, <1>5

-----------------------------------------------------------------------------
(***************************************************************************)
(* SilentOnlyWhenTold needs what the pool promises, that a connection is   *)
(* borrowed by one thread, and who has yet to report the failure of a      *)
(* connection.  SavedWasCached needs the parameter of a saldar on its way. *)
(***************************************************************************)
\* No connection is borrowed by two threads.
Apart == \A t, u \in Threads : t # u /\ conn[t] = conn[u] => conn[t] = NoConn

\* The failure of a bad connection is reported, or its borrower has it to report.
Told(c) ==
  session[c] = "bad" =>
    \/ c \in told
    \/ \E t \in Threads : conn[t] = c /\ pc[t] = "back" /\ code[t] # "ok"

\* What SilentOnlyWhenTold rests on.
SessionInv ==
  /\ Apart
  /\ \A c \in Conns : Told(c)
  /\ \A t \in Threads : pc[t] # "idle" => conn[t] \in Conns
  /\ SilentOnlyWhenTold

\* What SavedWasCached rests on: the balance on its way is one the cache had.
SavedInv ==
  /\ saldo \in had
  /\ SavedWasCached
  /\ \A t \in Threads : pc[t] = "sent" /\ call[t].proc = "saldar" =>
       \E b \in had : Same(call[t].arg, b)

Good == TypeOK /\ SessionInv

\* All three hold at first, when nothing is borrowed and nothing posted.
LEMMA InitGood == Init => Good /\ SavedInv
<1> SUFFICES ASSUME Init PROVE Good /\ SavedInv
  OBVIOUS
<1>1. TypeOK
  BY DEF Init, TypeOK, Nothing, Codes
<1>2. SessionInv
  BY StatementAssumption DEF Init, SessionInv, Apart, Told, SilentOnlyWhenTold
<1>3. SavedInv
  BY DEF Init, SavedInv, SavedWasCached, Nothing, Same
<1>4. QED
  BY <1>1, <1>2, <1>3 DEF Good

\* A fatal error never becomes ok.
LEMMA FatalTold ==
  ASSUME NEW msg
  PROVE  Remap(msg) \in Codes \ {"ok"}
BY DEF Remap, Codes

\* A result's code is one of the codes.
LEMMA CodeType ==
  ASSUME NEW status \in DOMAIN StatusCode \cup {"null"}, NEW msg
  PROVE  Code(status, msg) \in Codes
BY FatalTold DEF Code, Codes

\* A failed statement never comes back as ok.
LEMMA CodeOfFailure ==
  ASSUME NEW msg
  PROVE  Code("FATAL_ERROR", msg) \in Codes \ {"ok"}
BY FatalTold DEF Code, StatusCode

\* A null pointer, and what an executed statement answers, come back as ok.
LEMMA CodeOfOther ==
  \A status \in {"null", "TUPLES_OK", "COMMAND_OK"} : Code(status, "") = "ok"
<1>1. Code("null", "") = "ok"
  BY DEF Code
<1>2. Code("TUPLES_OK", "") = "ok"
  BY DEF Code, StatusCode
<1>3. Code("COMMAND_OK", "") = "ok"
  BY DEF Code, StatusCode
<1>4. QED
  BY <1>1, <1>2, <1>3

\* What a result is that the handler gets.
LEMMA ReturnType ==
  ASSUME TypeOK, NEW t \in Threads, Answer(t) \/ Refuse(t) \/ Broken(t) \/ NullResult(t)
  PROVE  /\ pc[t] = "sent" /\ pc' = [pc EXCEPT ![t] = "back"]
         /\ UNCHANGED <<cache, tables, conn, call, done, told>>
         /\ code' \in [Threads -> Codes] /\ \A u \in Threads \ {t} : code'[u] = code[u]
         /\ \/ code'[t] = "ok" /\ (done[t] \/ session[conn[t]] = "bad") /\ UNCHANGED session
            \/ code'[t] # "ok" /\ UNCHANGED session
            \/ code'[t] # "ok" /\ session' = [session EXCEPT ![conn[t]] = "bad"]
<1>1. CASE Answer(t) \/ NullResult(t)
  <2>1. code' = [code EXCEPT ![t] = "ok"] /\ UNCHANGED session
    BY <1>1, CodeOfOther DEF Answer, NullResult, Return
  <2>2. QED
    BY <1>1, <2>1 DEF Answer, NullResult, Return, TypeOK, Codes
<1>2. CASE Refuse(t) \/ Broken(t)
  <2>1. PICK msg : code' = [code EXCEPT ![t] = Code("FATAL_ERROR", msg)]
    BY <1>2 DEF Refuse, Broken, Return
  <2>2. Code("FATAL_ERROR", msg) \in Codes \ {"ok"}
    BY CodeOfFailure
  <2>3. code' \in [Threads -> Codes] /\ code'[t] # "ok" /\ \A u \in Threads \ {t} : code'[u] = code[u]
    BY <2>1, <2>2 DEF TypeOK
  <2>4. QED
    BY <1>2, <2>3 DEF Refuse, Broken, Return
<1>3. QED
  BY <1>1, <1>2

\* A statement is sent on a connection that nobody else has.
LEMMA SendGood ==
  ASSUME TypeOK, SessionInv, NEW t \in Threads, NEW c \in Conns, NEW proc, NEW arg,
         Send(t, c, proc, arg), c = conn[t] \/ Free(c), UNCHANGED session,
         proc \in {"transar", "extrato", "saldar"}, arg \in Int,
         told \subseteq told',
         pc[t] = "back" /\ code[t] # "ok" => conn[t] \in told',
         told' \subseteq told \cup {conn[t]}
  PROVE  SessionInv'
<1> USE DEF Send
<1>1. /\ conn'[t] = c /\ pc'[t] = "sent"
      /\ \A u \in Threads \ {t} : conn'[u] = conn[u] /\ pc'[u] = pc[u] /\ done'[u] = done[u]
      /\ UNCHANGED code
  BY DEF TypeOK
<1>2. Apart'
  BY <1>1, StatementAssumption DEF SessionInv, Apart, Free
<1>3. ASSUME NEW d \in Conns PROVE Told(d)'
  BY <1>1 DEF SessionInv, Told
<1>4. SilentOnlyWhenTold'
  BY <1>1 DEF SessionInv, SilentOnlyWhenTold
<1>5. QED
  BY <1>1, <1>2, <1>3, <1>4 DEF SessionInv

\* A result comes back: the one step that may mark a connection bad.
LEMMA ReturnGood ==
  ASSUME TypeOK, SessionInv, NEW t \in Threads,
         Answer(t) \/ Refuse(t) \/ Broken(t) \/ NullResult(t)
  PROVE  SessionInv'
<1>1. /\ pc[t] = "sent" /\ pc'[t] = "back" /\ \A u \in Threads \ {t} : pc'[u] = pc[u]
      /\ conn[t] \in Conns
      /\ UNCHANGED <<conn, told, done>> /\ \A u \in Threads \ {t} : code'[u] = code[u]
      /\ \/ code'[t] = "ok" /\ (done[t] \/ session[conn[t]] = "bad") /\ UNCHANGED session
         \/ code'[t] # "ok" /\ UNCHANGED session
         \/ code'[t] # "ok" /\ session' = [session EXCEPT ![conn[t]] = "bad"]
  BY ReturnType DEF TypeOK, SessionInv
<1>2. session[conn[t]] = "bad" => conn[t] \in told
  BY <1>1, StatementAssumption DEF SessionInv, Told, Apart
<1>3. \A d \in Conns : session'[d] = "bad" => session[d] = "bad" \/ (d = conn[t] /\ code'[t] # "ok")
  BY <1>1 DEF TypeOK
<1>4. \A d \in Conns : session[d] = "bad" => session'[d] = "bad"
  BY <1>1 DEF TypeOK
<1>5. ASSUME NEW d \in Conns PROVE Told(d)'
  BY <1>1, <1>3 DEF SessionInv, Told
<1>6. SilentOnlyWhenTold'
  <2>1. SUFFICES ASSUME NEW u \in Threads, pc'[u] = "back", ~done'[u], code'[u] = "ok"
                 PROVE  session'[conn'[u]] = "bad" /\ conn'[u] \in told'
    BY DEF SilentOnlyWhenTold
  <2>2. CASE u = t
    BY <1>1, <1>2, <1>4, <2>1, <2>2
  <2>3. CASE u # t
    BY <1>1, <1>4, <2>1, <2>3 DEF SessionInv, SilentOnlyWhenTold
  <2>4. QED
    BY <2>2, <2>3
<1>7. QED
  BY <1>1, <1>5, <1>6 DEF SessionInv, Apart

\* The handler reports a failure before it gives its connection back.
LEMMA EndGood ==
  ASSUME TypeOK, SessionInv, NEW t \in Threads, Finish(t) \/ Save(t)
  PROVE  SessionInv'
<1>1. /\ pc[t] = "back" /\ conn[t] \in Conns
      /\ told' = IF code[t] # "ok" THEN told \cup {conn[t]} ELSE told
      /\ UNCHANGED session
  BY DEF Finish, Save, Report, SessionInv
<1>2. CASE Finish(t)
  <2>1. /\ pc'[t] = "idle" /\ conn'[t] = NoConn
        /\ \A u \in Threads \ {t} : /\ pc'[u] = pc[u] /\ conn'[u] = conn[u]
                                    /\ done'[u] = done[u] /\ code'[u] = code[u]
    BY <1>2 DEF Finish, TypeOK
  <2>2. Apart'
    <3>1. \A u \in Threads : conn'[u] \in {conn[u], NoConn}
      BY <2>1
    <3>2. QED
      BY <3>1 DEF SessionInv, Apart
  <2>3. ASSUME NEW d \in Conns PROVE Told(d)'
    BY <1>1, <2>1 DEF SessionInv, Told
  <2>4. SilentOnlyWhenTold'
    BY <1>1, <2>1 DEF SessionInv, SilentOnlyWhenTold
  <2>5. QED
    BY <2>1, <2>2, <2>3, <2>4 DEF SessionInv
<1>3. CASE Save(t)
  <2>1. PICK c \in Conns : (c = conn[t] \/ Free(c)) /\ Send(t, c, "saldar", AsInt(saldo))
    BY <1>3 DEF Save
  <2>2. AsInt(saldo) \in Int
    BY AsIntSame DEF TypeOK
  <2>3. QED
    BY <1>1, <2>1, <2>2, SendGood
<1>4. QED
  BY <1>2, <1>3

\* SessionInv is inductive beside the types.
LEMMA NextSession ==
  ASSUME TypeOK, SessionInv, [Next]_vars
  PROVE  SessionInv'
<1>1. CASE UNCHANGED vars
  BY <1>1 DEF vars, SessionInv, Apart, Told, SilentOnlyWhenTold
<1>2. ASSUME NEW t \in Threads, Post(t) PROVE SessionInv'
  <2>1. PICK v \in Amounts, c \in Conns : Free(c) /\ Send(t, c, "transar", AsInt(v))
    BY <1>2 DEF Post
  <2>2. AsInt(v) \in Int
    BY AsIntSame, StatementAssumption
  <2>3. pc[t] = "idle" /\ UNCHANGED <<session, told>>
    BY <1>2 DEF Post
  <2>4. QED
    BY <2>1, <2>2, <2>3, SendGood
<1>3. ASSUME NEW t \in Threads, Get(t) PROVE SessionInv'
  <2>1. PICK c \in Conns : Free(c) /\ Send(t, c, "extrato", 0)
    BY <1>3 DEF Get
  <2>2. pc[t] = "idle" /\ UNCHANGED <<session, told>>
    BY <1>3 DEF Get
  <2>3. QED
    BY <2>1, <2>2, SendGood
<1>4. ASSUME NEW t \in Threads, Execute(t) PROVE SessionInv'
  <2>1. /\ pc[t] = "sent" /\ \A u \in Threads \ {t} : done'[u] = done[u]
        /\ UNCHANGED <<session, conn, pc, code, told>>
    BY <1>4 DEF Execute, TypeOK
  <2>2. QED
    BY <2>1 DEF SessionInv, Apart, Told, SilentOnlyWhenTold
<1>5. CASE Lose
  <2>1. /\ UNCHANGED <<conn, pc, done, code, told>>
        /\ \A c \in Conns : session'[c] = "bad" <=> session[c] = "bad"
    BY <1>5 DEF Lose, TypeOK
  <2>2. QED
    BY <2>1 DEF SessionInv, Apart, Told, SilentOnlyWhenTold
<1>6. CASE Restart
  BY <1>6, StatementAssumption DEF Restart, SessionInv, Apart, Told, SilentOnlyWhenTold
<1>7. QED
  BY <1>1, <1>2, <1>3, <1>4, <1>5, <1>6, ReturnGood, EndGood DEF Next, Step

\* The types are inductive beside SessionInv, which has the connection of a failure.
LEMMA NextTypeOK ==
  ASSUME TypeOK, SessionInv, [Next]_vars
  PROVE  TypeOK'
<1>1. CASE UNCHANGED vars
  BY <1>1 DEF vars, TypeOK
<1>2. ASSUME NEW t \in Threads, Post(t) PROVE TypeOK'
  <2>1. PICK v \in Amounts, c \in Conns :
          /\ saldo' \in {saldo + v, saldo - v} /\ had' = had \cup {saldo'}
          /\ posted' = Append(posted, v)
          /\ Send(t, c, "transar", AsInt(v))
    BY <1>2 DEF Post
  <2>2. AsInt(v) \in Int /\ v \in Int /\ saldo' \in Int
    BY <2>1, AsIntSame, StatementAssumption DEF TypeOK
  <2>3. QED
    BY <1>2, <2>1, <2>2 DEF Post, Send, TypeOK, tables, bounds
<1>3. ASSUME NEW t \in Threads, Get(t) PROVE TypeOK'
  BY <1>3 DEF Get, Send, TypeOK, cache, tables, bounds
<1>4. ASSUME NEW t \in Threads, Execute(t) PROVE TypeOK'
  BY <1>4 DEF Execute, TypeOK, cache, bounds
<1>5. ASSUME NEW t \in Threads, Answer(t) \/ Refuse(t) \/ Broken(t) \/ NullResult(t)
      PROVE  TypeOK'
  <2>1. session' \in [Conns -> {"good", "gone", "bad"}]
    BY <1>5, ReturnType DEF TypeOK
  <2>2. QED
    BY <1>5, <2>1, ReturnType DEF TypeOK, cache, tables
<1>6. ASSUME NEW t \in Threads, Finish(t) \/ Save(t) PROVE TypeOK'
  <2>1. told' \subseteq Conns
    BY <1>6 DEF Finish, Save, Report, SessionInv, TypeOK
  <2>2. CASE Finish(t)
    BY <2>1, <2>2 DEF Finish, TypeOK, Nothing, Codes, cache, tables
  <2>3. CASE Save(t)
    <3>1. AsInt(saldo) \in Int
      BY AsIntSame DEF TypeOK
    <3>2. QED
      BY <2>1, <2>3, <3>1 DEF Save, Send, TypeOK, cache, tables
  <2>4. QED
    BY <1>6, <2>2, <2>3
<1>7. CASE Lose
  <2>1. <<>> \in Seq(Int)
    OBVIOUS
  <2>2. rows' \in Seq(Int) /\ column' \in Int \cup {NoRow}
    BY <1>7, <2>1 DEF Lose, TypeOK, tables
  <2>3. session' \in [Conns -> {"good", "gone", "bad"}]
    BY <1>7 DEF Lose, TypeOK
  <2>4. QED
    BY <1>7, <2>2, <2>3 DEF Lose, TypeOK, cache
<1>8. CASE Restart
  <2>1. saldo' \in Int
    BY <1>8 DEF Restart, TypeOK
  <2>2. call' \in [Threads -> [proc : {"none", "transar", "extrato", "saldar"}, arg : Int]]
    BY <1>8 DEF Restart, Nothing
  <2>3. code' \in [Threads -> Codes] /\ done' \in [Threads -> BOOLEAN]
    BY <1>8 DEF Restart, Codes
  <2>4. QED
    BY <1>8, <2>1, <2>2, <2>3 DEF Restart, TypeOK, tables
<1>9. QED
  BY <1>1, <1>2, <1>3, <1>4, <1>5, <1>6, <1>7, <1>8 DEF Next, Step

\* Both hold in every state.
LEMMA GoodHolds == Spec => [](TypeOK /\ SessionInv)
BY InitGood, NextTypeOK, NextSession, PTL DEF Spec, Good

\* Every column, parameter and code has its type.
THEOREM StatementTypeOK == Spec => []TypeOK
BY GoodHolds, PTL

\* The first failure on each connection is always reported: a handler is left
\* to believe in a statement that was not executed only on a connection that
\* an earlier statement was told has failed.
THEOREM StatementSilentOnlyWhenTold == Spec => []SilentOnlyWhenTold
<1>1. SessionInv => SilentOnlyWhenTold
  BY DEF SessionInv
<1>2. QED
  BY <1>1, GoodHolds, PTL

-----------------------------------------------------------------------------
\* SavedInv is inductive: only saldar writes the column, and with a balance.
LEMMA NextSaved ==
  ASSUME TypeOK, SavedInv, [Next]_vars
  PROVE  SavedInv'
<1>1. CASE UNCHANGED vars
  BY <1>1 DEF vars, SavedInv, SavedWasCached
<1>2. ASSUME NEW t \in Threads, Post(t) \/ Get(t) PROVE SavedInv'
  <2>1. /\ call'[t].proc # "saldar"
        /\ \A u \in Threads \ {t} : pc'[u] = pc[u] /\ call'[u] = call[u]
    BY <1>2 DEF Post, Get, Send, TypeOK
  <2>2. /\ saldo' \in had' /\ had \subseteq had' /\ UNCHANGED column
    BY <1>2 DEF Post, Get, cache, tables, SavedInv
  <2>3. ASSUME NEW u \in Threads, pc'[u] = "sent", call'[u].proc = "saldar"
        PROVE  \E b \in had' : Same(call'[u].arg, b)
    <3>1. u # t
      BY <2>1, <2>3
    <3>2. pc'[u] = pc[u] /\ call'[u] = call[u]
      BY <2>1, <3>1
    <3>3. QED
      BY <2>2, <2>3, <3>2 DEF SavedInv
  <2>4. QED
    BY <2>2, <2>3 DEF SavedInv, SavedWasCached
<1>3. ASSUME NEW t \in Threads, Execute(t) PROVE SavedInv'
  <2>1. /\ pc[t] = "sent" /\ UNCHANGED <<saldo, had, pc, call>>
        /\ column' = column \/ (call[t].proc = "saldar" /\ column' = call[t].arg)
    BY <1>3 DEF Execute, cache
  <2>2. QED
    BY <2>1 DEF SavedInv, SavedWasCached
<1>4. ASSUME NEW t \in Threads, Answer(t) \/ Refuse(t) \/ Broken(t) \/ NullResult(t)
      PROVE  SavedInv'
  <2>1. UNCHANGED <<saldo, had, column, call>> /\ pc' = [pc EXCEPT ![t] = "back"]
    BY <1>4 DEF Answer, Refuse, Broken, NullResult, Return, cache, tables
  <2>2. QED
    BY <2>1 DEF SavedInv, SavedWasCached, TypeOK
<1>5. ASSUME NEW t \in Threads, Finish(t) PROVE SavedInv'
  <2>1. /\ UNCHANGED <<saldo, had, column>> /\ pc' = [pc EXCEPT ![t] = "idle"]
        /\ call' = [call EXCEPT ![t] = Nothing]
    BY <1>5 DEF Finish, cache, tables
  <2>2. QED
    BY <2>1 DEF SavedInv, SavedWasCached, TypeOK
<1>6. ASSUME NEW t \in Threads, Save(t) PROVE SavedInv'
  <2>1. PICK c \in Conns : Send(t, c, "saldar", AsInt(saldo))
    BY <1>6 DEF Save
  <2>2. UNCHANGED <<saldo, had, column>>
    BY <1>6 DEF Save, cache, tables
  <2>3. /\ call'[t].arg = AsInt(saldo)
        /\ \A u \in Threads \ {t} : pc'[u] = pc[u] /\ call'[u] = call[u]
    BY <2>1 DEF Send, TypeOK
  <2>4. Same(AsInt(saldo), saldo)
    BY AsIntSame DEF TypeOK
  <2>5. QED
    BY <2>2, <2>3, <2>4 DEF SavedInv, SavedWasCached
<1>7. CASE Lose
  BY <1>7 DEF Lose, SavedInv, SavedWasCached, cache, tables
<1>8. CASE Restart
  <2>1. /\ UNCHANGED column /\ had' = had \cup {saldo'}
        /\ \A u \in Threads : pc'[u] = "idle"
    BY <1>8 DEF Restart, tables
  <2>2. QED
    BY <2>1 DEF SavedInv, SavedWasCached
<1>9. QED
  BY <1>1, <1>2, <1>3, <1>4, <1>5, <1>6, <1>7, <1>8 DEF Next, Step

\* The saved balance is one that the cache has had, as an int, whatever fails,
\* is lost or starts again in between.
THEOREM StatementSavedWasCached == Spec => []SavedWasCached
<1>1. SavedInv => SavedWasCached
  BY DEF SavedInv
<1>2. QED
  BY <1>1, StatementTypeOK, InitGood, NextSaved, PTL DEF Spec

-----------------------------------------------------------------------------
(***************************************************************************)
(* The rows.  For each int x, the rows that show x and the statements on   *)
(* their way to show it are together no more than the amounts posted that  *)
(* become x: the table alone would not be inductive.                       *)
(***************************************************************************)
\* The rows that show x, the statements on their way to show it, and the
\* movements posted that become it.
Shown(x) == {k \in DOMAIN rows : rows[k] = x}
OnTheWay(x) ==
  {t \in Threads : pc[t] = "sent" /\ ~done[t] /\ call[t].proc = "transar" /\ call[t].arg = x}
PostedAs(x) == {j \in DOMAIN posted : AsInt(posted[j]) = x}

\* What RowsWerePosted rests on.
RowsInv == \A x \in Int :
  /\ IsFiniteSet(OnTheWay(x))
  /\ Cardinality(Shown(x)) + Cardinality(OnTheWay(x)) <= Cardinality(PostedAs(x))

\* Indices of a sequence are finitely many.
LEMMA Indices ==
  ASSUME NEW S, NEW s \in Seq(S), NEW J, J \subseteq DOMAIN s
  PROVE  IsFiniteSet(J) /\ Cardinality(J) \in Nat
<1>1. DOMAIN s = 1..Len(s) /\ Len(s) \in Int
  OBVIOUS
<1>2. IsFiniteSet(1..Len(s))
  BY <1>1, FS_Interval
<1>3. QED
  BY <1>1, <1>2, FS_Subset, FS_CardinalityType

\* So are the three sets, and they can be counted.
LEMMA CountsType ==
  ASSUME TypeOK, NEW x \in Int, IsFiniteSet(OnTheWay(x))
  PROVE  /\ IsFiniteSet(Shown(x)) /\ Cardinality(Shown(x)) \in Nat
         /\ IsFiniteSet(PostedAs(x)) /\ Cardinality(PostedAs(x)) \in Nat
         /\ Cardinality(OnTheWay(x)) \in Nat
BY Indices, FS_CardinalityType DEF TypeOK, Shown, PostedAs

\* A step that neither posts nor shows a row, and sends none.
LEMMA RowsStay ==
  ASSUME TypeOK, RowsInv, UNCHANGED posted,
         \A x \in Int : OnTheWay(x)' \subseteq OnTheWay(x),
         rows' = rows \/ rows' = <<>>
  PROVE  RowsInv'
<1>1. SUFFICES ASSUME NEW x \in Int
               PROVE  /\ IsFiniteSet(OnTheWay(x)')
                      /\ Cardinality(Shown(x)') + Cardinality(OnTheWay(x)')
                           <= Cardinality(PostedAs(x)')
  BY DEF RowsInv
<1>2. /\ IsFiniteSet(OnTheWay(x))
      /\ Cardinality(Shown(x)) + Cardinality(OnTheWay(x)) <= Cardinality(PostedAs(x))
  BY DEF RowsInv
<1>3. /\ IsFiniteSet(OnTheWay(x)') /\ Cardinality(OnTheWay(x)') <= Cardinality(OnTheWay(x))
      /\ Cardinality(OnTheWay(x)') \in Nat
  BY <1>2, FS_Subset, FS_CardinalityType
<1>4. Shown(x)' \subseteq Shown(x) /\ PostedAs(x)' = PostedAs(x)
  BY DEF Shown, PostedAs
<1>5. Cardinality(Shown(x)') <= Cardinality(Shown(x)) /\ Cardinality(Shown(x)') \in Nat
  BY <1>2, <1>4, CountsType, FS_Subset, FS_CardinalityType
<1>6. QED
  BY <1>2, <1>3, <1>4, <1>5, CountsType

\* A posted movement is one more, and one more statement on its way.
LEMMA PostRows ==
  ASSUME TypeOK, RowsInv, NEW t \in Threads, Post(t)
  PROVE  RowsInv'
<1>1. PICK v \in Amounts, c \in Conns :
        posted' = Append(posted, v) /\ Send(t, c, "transar", AsInt(v))
  BY DEF Post
<1>2. /\ pc[t] = "idle" /\ pc'[t] = "sent" /\ ~done'[t]
      /\ call'[t].proc = "transar" /\ call'[t].arg = AsInt(v)
      /\ \A u \in Threads \ {t} : pc'[u] = pc[u] /\ done'[u] = done[u] /\ call'[u] = call[u]
      /\ UNCHANGED rows
  BY <1>1 DEF Post, Send, TypeOK, tables
<1>3. SUFFICES ASSUME NEW x \in Int
               PROVE  /\ IsFiniteSet(OnTheWay(x)')
                      /\ Cardinality(Shown(x)') + Cardinality(OnTheWay(x)')
                           <= Cardinality(PostedAs(x)')
  BY DEF RowsInv
<1>4. /\ IsFiniteSet(OnTheWay(x))
      /\ Cardinality(Shown(x)) + Cardinality(OnTheWay(x)) <= Cardinality(PostedAs(x))
  BY DEF RowsInv
<1> DEFINE n == Len(posted) + 1
<1>5. /\ DOMAIN posted' = DOMAIN posted \cup {n} /\ n \notin DOMAIN posted
      /\ posted'[n] = v /\ \A j \in DOMAIN posted : posted'[j] = posted[j]
  BY <1>1 DEF TypeOK
<1>6. Shown(x)' = Shown(x)
  BY <1>2 DEF Shown
<1>7. CASE x = AsInt(v)
  <2>1. OnTheWay(x)' = OnTheWay(x) \cup {t} /\ t \notin OnTheWay(x)
    BY <1>2, <1>7 DEF OnTheWay
  <2>2. PostedAs(x)' = PostedAs(x) \cup {n} /\ n \notin PostedAs(x)
    BY <1>5, <1>7 DEF PostedAs
  <2>3. /\ IsFiniteSet(OnTheWay(x)')
        /\ Cardinality(OnTheWay(x)') = Cardinality(OnTheWay(x)) + 1
    BY <1>4, <2>1, FS_AddElement
  <2>4. Cardinality(PostedAs(x)') = Cardinality(PostedAs(x)) + 1
    BY <1>4, <2>2, CountsType, FS_AddElement
  <2>5. QED
    BY <1>4, <1>6, <2>3, <2>4, CountsType
<1>8. CASE x # AsInt(v)
  <2>1. OnTheWay(x)' = OnTheWay(x)
    BY <1>2, <1>8 DEF OnTheWay
  <2>2. PostedAs(x)' = PostedAs(x)
    BY <1>5, <1>8 DEF PostedAs
  <2>3. QED
    BY <1>4, <1>6, <2>1, <2>2
<1>9. QED
  BY <1>7, <1>8

\* An executed statement is a row, and no longer on its way.
LEMMA ExecuteRows ==
  ASSUME TypeOK, RowsInv, NEW t \in Threads, Execute(t)
  PROVE  RowsInv'
<1> DEFINE y == call[t].arg
<1>1. /\ pc[t] = "sent" /\ ~done[t] /\ done'[t]
      /\ \A u \in Threads \ {t} : done'[u] = done[u]
      /\ UNCHANGED <<pc, call, posted>>
      /\ rows' = IF call[t].proc = "transar" THEN Append(rows, y) ELSE rows
  BY DEF Execute, TypeOK, cache
<1>2. \A x \in Int : OnTheWay(x)' \subseteq OnTheWay(x)
  BY <1>1 DEF OnTheWay
<1>3. CASE call[t].proc # "transar"
  BY <1>1, <1>2, <1>3, RowsStay
<1>4. CASE call[t].proc = "transar"
  <2>1. SUFFICES ASSUME NEW x \in Int
                 PROVE  /\ IsFiniteSet(OnTheWay(x)')
                        /\ Cardinality(Shown(x)') + Cardinality(OnTheWay(x)')
                             <= Cardinality(PostedAs(x)')
    BY DEF RowsInv
  <2>2. /\ IsFiniteSet(OnTheWay(x))
        /\ Cardinality(Shown(x)) + Cardinality(OnTheWay(x)) <= Cardinality(PostedAs(x))
    BY DEF RowsInv
  <2> DEFINE n == Len(rows) + 1
  <2>3. y \in Int /\ rows' = Append(rows, y) /\ rows \in Seq(Int)
    BY <1>1, <1>4 DEF TypeOK
  <2>4. /\ DOMAIN rows' = DOMAIN rows \cup {n} /\ n \notin DOMAIN rows
        /\ rows'[n] = y /\ \A k \in DOMAIN rows : rows'[k] = rows[k]
    <3> HIDE DEF y
    <3>1. QED
      BY <2>3
  <2>5. PostedAs(x)' = PostedAs(x)
    BY <1>1 DEF PostedAs
  <2>6. CASE x = y
    <3>1. Shown(x)' = Shown(x) \cup {n} /\ n \notin Shown(x)
      BY <2>4, <2>6 DEF Shown
    <3>2. OnTheWay(x)' = OnTheWay(x) \ {t} /\ t \in OnTheWay(x)
      BY <1>1, <1>4, <2>6 DEF OnTheWay
    <3>3. Cardinality(Shown(x)') = Cardinality(Shown(x)) + 1
      BY <2>2, <3>1, CountsType, FS_AddElement
    <3>4. /\ IsFiniteSet(OnTheWay(x)')
          /\ Cardinality(OnTheWay(x)') = Cardinality(OnTheWay(x)) - 1
      BY <2>2, <3>2, FS_RemoveElement
    <3>5. QED
      BY <2>2, <2>5, <3>3, <3>4, CountsType
  <2>7. CASE x # y
    <3>1. Shown(x)' = Shown(x)
      BY <2>4, <2>7 DEF Shown
    <3>2. OnTheWay(x)' = OnTheWay(x)
      BY <1>1, <2>7 DEF OnTheWay
    <3>3. QED
      BY <2>2, <2>5, <3>1, <3>2
  <2>8. QED
    BY <2>6, <2>7
<1>5. QED
  BY <1>3, <1>4

\* RowsInv is inductive beside the types.
LEMMA NextRows ==
  ASSUME TypeOK, RowsInv, [Next]_vars
  PROVE  RowsInv'
<1>1. CASE UNCHANGED vars
  BY <1>1, RowsStay DEF vars, OnTheWay
<1>2. ASSUME NEW t \in Threads, Get(t) \/ Finish(t) \/ Save(t) PROVE RowsInv'
  <2>1. \A u \in Threads : u # t => /\ pc'[u] = pc[u] /\ done'[u] = done[u]
                                     /\ call'[u] = call[u]
    BY <1>2 DEF Get, Finish, Save, Send, TypeOK
  <2>2. pc'[t] = "sent" => call'[t].proc # "transar"
    <3>1. CASE Get(t)
      BY <3>1 DEF Get, Send, TypeOK
    <3>2. CASE Finish(t)
      BY <3>2 DEF Finish, TypeOK
    <3>3. CASE Save(t)
      BY <3>3 DEF Save, Send, TypeOK
    <3>4. QED
      BY <1>2, <3>1, <3>2, <3>3
  <2>3. \A x \in Int : OnTheWay(x)' \subseteq OnTheWay(x)
    BY <2>1, <2>2 DEF OnTheWay
  <2>4. UNCHANGED <<rows, posted>>
    BY <1>2 DEF Get, Finish, Save, cache, tables
  <2>5. QED
    BY <2>3, <2>4, RowsStay
<1>3. ASSUME NEW t \in Threads, Answer(t) \/ Refuse(t) \/ Broken(t) \/ NullResult(t)
      PROVE  RowsInv'
  <2>1. pc' = [pc EXCEPT ![t] = "back"] /\ UNCHANGED <<rows, posted, call, done>>
    BY <1>3, ReturnType DEF cache, tables
  <2>2. \A x \in Int : OnTheWay(x)' \subseteq OnTheWay(x)
    BY <2>1 DEF OnTheWay, TypeOK
  <2>3. QED
    BY <2>1, <2>2, RowsStay
<1>4. CASE Lose
  BY <1>4, RowsStay DEF Lose, OnTheWay, cache, tables
<1>5. CASE Restart
  BY <1>5, RowsStay DEF Restart, OnTheWay, tables
<1>6. QED
  BY <1>1, <1>2, <1>3, <1>4, <1>5, PostRows, ExecuteRows DEF Next, Step

\* At first there is nothing to count.
LEMMA InitRows == Init => RowsInv
<1> SUFFICES ASSUME Init, NEW x \in Int
             PROVE  /\ IsFiniteSet(OnTheWay(x))
                    /\ Cardinality(Shown(x)) + Cardinality(OnTheWay(x)) <= Cardinality(PostedAs(x))
  BY DEF RowsInv
<1>1. Shown(x) = {} /\ OnTheWay(x) = {} /\ PostedAs(x) = {}
  BY DEF Init, Shown, OnTheWay, PostedAs
<1>2. IsFiniteSet({}) /\ Cardinality({}) = 0
  BY FS_EmptySet
<1>3. /\ Cardinality(Shown(x)) = 0 /\ Cardinality(OnTheWay(x)) = 0
      /\ Cardinality(PostedAs(x)) = 0 /\ IsFiniteSet(OnTheWay(x))
  BY <1>1, <1>2, Zenon
<1>4. QED
  BY <1>3

\* A posted amount is an integer.
LEMMA ElementInt ==
  ASSUME NEW s \in Seq(Amounts), NEW j \in DOMAIN s
  PROVE  s[j] \in Int
<1>1. j \in 1..Len(s)
  OBVIOUS
<1>2. s[j] \in Amounts
  BY <1>1
<1>3. QED
  BY <1>2, StatementAssumption

\* The table never shows more movements of an amount than were posted.
THEOREM StatementRowsWerePosted == Spec => []RowsWerePosted
<1>1. ASSUME TypeOK, RowsInv PROVE RowsWerePosted
  <2>1. SUFFICES ASSUME NEW k \in DOMAIN rows
                 PROVE  Cardinality(Shown(rows[k]))
                          <= Cardinality({j \in DOMAIN posted : Same(rows[k], posted[j])})
    BY DEF RowsWerePosted, Shown
  <2> DEFINE x == rows[k]
             S == {j \in DOMAIN posted : Same(x, posted[j])}
  <2>2. x \in Int
    BY <1>1 DEF TypeOK
  <2>3. PostedAs(x) \subseteq S
    <3>1. ASSUME NEW j \in DOMAIN posted, AsInt(posted[j]) = x PROVE Same(x, posted[j])
      <4>1. posted \in Seq(Amounts)
        BY <1>1 DEF TypeOK
      <4>2. posted[j] \in Int
        BY <4>1, ElementInt
      <4>3. Same(AsInt(posted[j]), posted[j])
        BY <4>2, AsIntSame
      <4>4. QED
        BY <3>1, <4>3, Zenon
    <3>2. QED
      BY <3>1 DEF PostedAs
  <2>4. IsFiniteSet(S) /\ Cardinality(S) \in Nat
    BY <1>1, Indices DEF TypeOK
  <2>5. Cardinality(PostedAs(x)) <= Cardinality(S)
    <3> HIDE DEF S, x
    <3>1. QED
      BY <2>3, <2>4, FS_Subset
  <2>6. /\ Cardinality(Shown(x)) + Cardinality(OnTheWay(x)) <= Cardinality(PostedAs(x))
        /\ IsFiniteSet(OnTheWay(x))
    BY <1>1, <2>2 DEF RowsInv
  <2>7. /\ Cardinality(Shown(x)) \in Nat /\ Cardinality(OnTheWay(x)) \in Nat
        /\ Cardinality(PostedAs(x)) \in Nat
    BY <1>1, <2>2, <2>6, CountsType
  <2>8. QED
    <3> HIDE DEF S, x
    <3>1. Cardinality(Shown(x)) <= Cardinality(S)
      BY <2>4, <2>5, <2>6, <2>7
    <3>2. QED
      BY <3>1 DEF S, x
<1>2. QED
  BY <1>1, StatementTypeOK, InitRows, NextRows, PTL DEF Spec
====
