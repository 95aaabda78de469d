-------------------------- MODULE ConnectionProofs --------------------------
(***************************************************************************)
(* What is proved of the read side of a connection, for any number of      *)
(* threads, connections, events and forced events, in every order.         *)
(***************************************************************************)
EXTENDS Connection, FiniteSetTheorems, TLAPS

(***************************************************************************)
(* What the code relies on: a handle for each thread that none is, and as  *)
(* many connections as there are.                                          *)
(***************************************************************************)
Sane == None \notin Thread /\ MaxConn \in Nat

Kinds == {"data", "write"}
Places == {"idle", "trylock", "locktype", "unschedule", "handler", "reschedule", "poll",
           "close", "clear", "osclose", "on_close"}
Tasks ==
  {x \in [kind : Kinds \union {"close"}, u : Nat, pr : 0..MaxConn, force : BOOLEAN] :
     x.kind = "close" => x.pr # 0}

Types ==
  /\ fd \in [counter : Nat, open : BOOLEAN, close : BOOLEAN, scheduled : BOOLEAN, protocol : 0..MaxConn]
  /\ sock \in BOOLEAN /\ armed \in BOOLEAN /\ suspended \in BOOLEAN
  /\ protocol_lock \in Thread \union {None}
  /\ locks \in [Proto -> SUBSET Kinds]
  /\ queue \in Seq(Tasks)
  /\ pc \in [Thread -> [at : Places, task : Tasks, pr : 0..MaxConn, back : {"idle", "handler"}]]
  /\ conns \in 0..MaxConn /\ closed \subseteq Proto

\* t runs a callback of its protocol, or closes the connection from within it.
Inside(t) == pc[t].at \in {"unschedule", "handler"} \/ pc[t].back = "handler"

\* Who runs a callback has the protocol's lock for its kind of task.
Placed(t) ==
  /\ pc[t].back = "handler" => pc[t].at \in {"close", "clear", "osclose"}
  /\ pc[t].at \in {"idle", "trylock"} => pc[t].pr = 0
  /\ pc[t].at \in {"close", "clear", "osclose"} /\ pc[t].back = "idle" => pc[t].pr = 0
  /\ pc[t].at \in {"locktype", "on_close"} => pc[t].pr # 0
  /\ pc[t].at \in {"trylock", "locktype"} => pc[t].task.kind \in Kinds
  /\ pc[t].at \in {"unschedule", "reschedule", "poll"} => pc[t].task.kind = "data"
  /\ Inside(t) => /\ pc[t].pr \in Proto
                  /\ pc[t].task.kind \in Kinds /\ pc[t].task.kind \in locks[pc[t].pr]
  /\ protocol_lock = t <=> pc[t].at \in {"locktype", "clear"}

Apart ==
  \A t, u \in Thread :
    t # u /\ Inside(t) /\ Inside(u) /\ pc[t].pr = pc[u].pr => pc[t].task.kind # pc[u].task.kind

LockInv == Types /\ (\A t \in Thread : Placed(t)) /\ Apart

\* A set whose members are all the same has one at most.
LEMMA AtMostOne ==
  ASSUME NEW S, \A x, y \in S : x = y
  PROVE  IsFiniteSet(S) /\ Cardinality(S) \in Nat /\ Cardinality(S) <= 1
<1>1. CASE S = {}
  <2>1. IsFiniteSet(S) /\ Cardinality(S) = 0
    BY <1>1, FS_EmptySet, Zenon
  <2>2. QED
    BY <2>1
<1>2. CASE S # {}
  <2>1. PICK x : S = {x}
    BY <1>2
  <2>2. IsFiniteSet(S) /\ Cardinality(S) = 1
    BY <2>1, FS_Singleton, Zenon
  <2>3. QED
    BY <2>2
<1>3. QED
  BY <1>1, <1>2

----------------------------------------------------------------------------
\* A task more at the end of the queue, and one less at its head.
LEMMA Appended ==
  ASSUME NEW S, NEW q \in Seq(S), NEW x \in S
  PROVE  /\ Append(q, x) \in Seq(S)
         /\ DOMAIN Append(q, x) = DOMAIN q \union {Len(q) + 1} /\ Len(q) + 1 \notin DOMAIN q
         /\ Append(q, x)[Len(q) + 1] = x
         /\ \A i \in DOMAIN q : Append(q, x)[i] = q[i]
OBVIOUS

LEMMA Beheaded ==
  ASSUME NEW S, NEW q \in Seq(S), q # <<>>
  PROVE  /\ Head(q) \in S /\ Tail(q) \in Seq(S)
         /\ 1 \in DOMAIN q /\ Head(q) = q[1]
         /\ \A i \in DOMAIN Tail(q) : i + 1 \in DOMAIN q /\ i \in Nat \ {0} /\ Tail(q)[i] = q[i + 1]
         /\ \A i \in DOMAIN q : i # 1 => i - 1 \in DOMAIN Tail(q) /\ Tail(q)[i - 1] = q[i]
OBVIOUS

\* What a step of t makes of the call of t.
Calls == [Thread -> [at : Places, task : Tasks, pr : 0..MaxConn, back : {"idle", "handler"}]]

Now(t, at, task, pr, back) ==
  /\ pc' \in Calls
  /\ pc'[t].at = at /\ pc'[t].task = task /\ pc'[t].pr = pr /\ pc'[t].back = back
  /\ \A u \in Thread \ {t} : pc'[u] = pc[u]

Same(t, at) == Now(t, at, pc[t].task, pc[t].pr, pc[t].back)

LEMMA GotoSame ==
  ASSUME Types, NEW t \in Thread, NEW at \in Places, Goto(t, at)
  PROVE  Same(t, at)
BY DEF Types, Goto, Same, Now, Calls

LEMMA DoneIdle ==
  ASSUME Sane, Types, NEW t \in Thread, Done(t)
  PROVE  Now(t, "idle", DataTask(0, FALSE), 0, "idle")
<1>1. DataTask(0, FALSE) \in Tasks /\ 0 \in 0..MaxConn
  BY DEF Sane, Tasks, Kinds, DataTask, Task
<1>2. QED
  BY <1>1 DEF Types, Done, Idle, Now, Calls, Places

\* The tasks that are made are tasks.
LEMMA NewTasks ==
  ASSUME Sane, Types
  PROVE  /\ \A force \in BOOLEAN : DataTask(fd.counter, force) \in Tasks
         /\ Task("write", fd.counter, 0, FALSE) \in Tasks
         /\ fd.protocol # 0 => Task("close", fd.counter + 1, fd.protocol, FALSE) \in Tasks
         /\ WithClose(queue) \in Seq(Tasks)
<1>1. fd.counter \in Nat /\ fd.protocol \in 0..MaxConn /\ 0 \in 0..MaxConn
  BY DEF Sane, Types
<1>2. \A force \in BOOLEAN : DataTask(fd.counter, force) \in Tasks
  BY <1>1 DEF Tasks, Kinds, DataTask, Task
<1>3. Task("write", fd.counter, 0, FALSE) \in Tasks
  BY <1>1 DEF Tasks, Kinds, Task
<1>4. fd.protocol # 0 => Task("close", fd.counter + 1, fd.protocol, FALSE) \in Tasks
  BY <1>1 DEF Tasks, Kinds, Task
<1>5. WithClose(queue) \in Seq(Tasks)
  BY <1>4, Appended DEF WithClose, Types
<1>6. QED
  BY <1>2, <1>3, <1>4, <1>5

\* Where the steps of a thread leave it.
LEMMA StepMoves ==
  ASSUME Sane, Types, NEW t \in Thread
  PROVE  /\ OnClose(t) => Now(t, "idle", DataTask(0, FALSE), 0, "idle")
         /\ TryLock(t) => \/ /\ Now(t, "idle", DataTask(0, FALSE), 0, "idle")
                             /\ UNCHANGED protocol_lock
                          \/ /\ Now(t, "locktype", pc[t].task, fd.protocol, pc[t].back)
                             /\ fd.protocol # 0 /\ protocol_lock = None /\ protocol_lock' = t
                             /\ UNCHANGED <<queue, armed>>
         /\ LockType(t) => \/ /\ Takeable(t)
                              /\ Same(t, IF pc[t].task.kind = "data" THEN "unschedule" ELSE "handler")
                           \/ ~Takeable(t) /\ Now(t, "idle", DataTask(0, FALSE), 0, "idle")
         /\ Unschedule(t) => Same(t, "handler")
         /\ Unlock(t) => IF pc[t].task.kind = "data" THEN Same(t, "reschedule")
                         ELSE Now(t, "idle", DataTask(0, FALSE), 0, "idle")
         /\ Reschedule(t) => IF Again THEN Same(t, "poll")
                             ELSE Now(t, "idle", DataTask(0, FALSE), 0, "idle")
         /\ PollAgain(t) => Now(t, "idle", DataTask(0, FALSE), 0, "idle")
         /\ HandlerCloses(t) => Now(t, "close", pc[t].task, pc[t].pr, "handler")
         /\ PollCloses(t) => Now(t, "close", DataTask(0, FALSE), 0, "idle")
         /\ CloseLock(t) => Same(t, "clear")
         /\ Clear(t) => Same(t, "osclose")
         /\ OsClose(t) => IF pc[t].back = "idle" THEN Now(t, "idle", DataTask(0, FALSE), 0, "idle")
                          ELSE Now(t, "handler", pc[t].task, pc[t].pr, "idle")
<1> USE DEF Places
<1>1. OnClose(t) \/ PollAgain(t) => Now(t, "idle", DataTask(0, FALSE), 0, "idle")
  BY DoneIdle DEF OnClose, PollAgain
<1>2. TryLock(t) => \/ Now(t, "idle", DataTask(0, FALSE), 0, "idle") /\ UNCHANGED protocol_lock
                    \/ /\ Now(t, "locktype", pc[t].task, fd.protocol, pc[t].back)
                       /\ fd.protocol # 0 /\ protocol_lock = None /\ protocol_lock' = t
                       /\ UNCHANGED <<queue, armed>>
  <2>1. ASSUME pc' = [pc EXCEPT ![t].at = "locktype", ![t].pr = fd.protocol]
        PROVE  Now(t, "locktype", pc[t].task, fd.protocol, pc[t].back)
    <3>1. pc' = [u \in Thread |-> IF u = t THEN [pc[t] EXCEPT !.at = "locktype", !.pr = fd.protocol]
                                           ELSE pc[u]]
      BY <2>1 DEF Types
    <3>2. QED
      BY <3>1 DEF Types, Now, Calls
  <2>2. QED
    BY <2>1, DoneIdle DEF TryLock, Postpone
<1>3. LockType(t) => \/ /\ Takeable(t)
                        /\ Same(t, IF pc[t].task.kind = "data" THEN "unschedule" ELSE "handler")
                     \/ ~Takeable(t) /\ Now(t, "idle", DataTask(0, FALSE), 0, "idle")
  BY DoneIdle, GotoSame DEF LockType, Postpone
<1>4. /\ Unschedule(t) => Same(t, "handler")
      /\ CloseLock(t) => Same(t, "clear")
      /\ Clear(t) => Same(t, "osclose")
  BY GotoSame DEF Unschedule, CloseLock, Clear
<1>5. /\ Unlock(t) => IF pc[t].task.kind = "data" THEN Same(t, "reschedule")
                      ELSE Now(t, "idle", DataTask(0, FALSE), 0, "idle")
      /\ Reschedule(t) => IF Again THEN Same(t, "poll")
                          ELSE Now(t, "idle", DataTask(0, FALSE), 0, "idle")
  BY DoneIdle, GotoSame DEF Unlock, Reschedule
<1>6. HandlerCloses(t) => Now(t, "close", pc[t].task, pc[t].pr, "handler")
  <2>1. ASSUME HandlerCloses(t) PROVE Now(t, "close", pc[t].task, pc[t].pr, "handler")
    <3>1. pc' = [u \in Thread |-> IF u = t THEN [pc[t] EXCEPT !.at = "close", !.back = "handler"]
                                           ELSE pc[u]]
      BY <2>1 DEF HandlerCloses, Closing, Types
    <3>2. QED
      BY <3>1 DEF Types, Now, Calls
  <2>2. QED
    BY <2>1
<1>7. PollCloses(t) => Now(t, "close", DataTask(0, FALSE), 0, "idle")
  <2>1. ASSUME PollCloses(t) PROVE Now(t, "close", DataTask(0, FALSE), 0, "idle")
    <3>1. pc' = [u \in Thread |-> IF u = t THEN [pc[t] EXCEPT !.at = "close", !.back = "idle"]
                                           ELSE pc[u]]
      BY <2>1 DEF PollCloses, Closing, Types
    <3>2. pc[t].task = DataTask(0, FALSE) /\ pc[t].pr = 0
      BY <2>1 DEF PollCloses, Idle
    <3>3. QED
      BY <3>1, <3>2 DEF Types, Now, Calls
  <2>2. QED
    BY <2>1
<1>8. OsClose(t) => IF pc[t].back = "idle" THEN Now(t, "idle", DataTask(0, FALSE), 0, "idle")
                    ELSE Now(t, "handler", pc[t].task, pc[t].pr, "idle")
  <2>1. ASSUME pc' = [pc EXCEPT ![t].at = "handler", ![t].back = "idle"]
        PROVE  Now(t, "handler", pc[t].task, pc[t].pr, "idle")
    <3>1. pc' = [u \in Thread |-> IF u = t THEN [pc[t] EXCEPT !.at = "handler", !.back = "idle"]
                                           ELSE pc[u]]
      BY <2>1 DEF Types
    <3>2. QED
      BY <3>1 DEF Types, Now, Calls
  <2>2. QED
    BY <2>1, DoneIdle DEF OsClose
<1>9. QED
  BY <1>1, <1>2, <1>3, <1>4, <1>5, <1>6, <1>7, <1>8

\* What Take makes of the oldest task.
Taken(t, task) ==
  \/ /\ task.kind \in Kinds /\ Now(t, "trylock", task, 0, "idle") /\ queue' = Tail(queue)
  \/ /\ task.kind = "data" /\ ~Reads(task.u)
     /\ pc' = pc /\ queue' = Tail(queue)
  \/ /\ task.kind = "close" /\ locks[task.pr] = {} /\ Now(t, "on_close", task, task.pr, "idle")
     /\ queue' = Tail(queue)
  \/ /\ task.kind = "close" /\ pc' = pc /\ queue' = Append(Tail(queue), task)

LEMMA TakeMoves ==
  ASSUME Sane, Types, NEW t \in Thread, Take(t)
  PROVE  /\ queue # <<>> /\ pc[t] = Idle
         /\ Taken(t, Head(queue))
         /\ UNCHANGED <<fd, sock, armed, protocol_lock, locks, closed, conns, suspended>>
<1> DEFINE task == Head(queue)
<1>1. queue # <<>> /\ task \in Tasks
  BY Beheaded DEF Take, Types
<1>2. task.pr \in 0..MaxConn /\ 0 \in 0..MaxConn
  BY <1>1 DEF Tasks, Sane
<1>3. ASSUME pc' = [pc EXCEPT ![t] = [Idle EXCEPT !.at = "trylock", !.task = task]]
      PROVE  Now(t, "trylock", task, 0, "idle")
  <2> DEFINE call == [Idle EXCEPT !.at = "trylock", !.task = task]
  <2> HIDE DEF task
  <2>1. /\ call.at = "trylock" /\ call.task = task /\ call.pr = 0 /\ call.back = "idle"
        /\ call \in [at : Places, task : Tasks, pr : 0..MaxConn, back : {"idle", "handler"}]
    BY <1>1, <1>2 DEF Idle, Places
  <2> HIDE DEF call
  <2>2. pc' = [pc EXCEPT ![t] = call]
    BY <1>3 DEF call
  <2>3. QED
    BY <2>1, <2>2 DEF Types, Now, Calls
<1>4. ASSUME pc' = [pc EXCEPT ![t] = [Idle EXCEPT !.at = "on_close", !.task = task, !.pr = task.pr]]
      PROVE  Now(t, "on_close", task, task.pr, "idle")
  <2> DEFINE call == [Idle EXCEPT !.at = "on_close", !.task = task, !.pr = task.pr]
  <2> HIDE DEF task
  <2>1. /\ call.at = "on_close" /\ call.task = task /\ call.pr = task.pr /\ call.back = "idle"
        /\ call \in [at : Places, task : Tasks, pr : 0..MaxConn, back : {"idle", "handler"}]
    BY <1>1, <1>2 DEF Idle, Places
  <2> HIDE DEF call
  <2>2. pc' = [pc EXCEPT ![t] = call]
    BY <1>4 DEF call
  <2>3. QED
    BY <2>1, <2>2 DEF Types, Now, Calls
<1>5. Taken(t, task)
  BY <1>3, <1>4 DEF Take, Taken, Kinds, Unused
<1>6. QED
  BY <1>1, <1>5 DEF Take, Count

----------------------------------------------------------------------------
\* The queue holds tasks.
LEMMA NextQueue ==
  ASSUME Sane, Types, [Next]_vars
  PROVE  queue' \in Seq(Tasks)
<1>1. CASE UNCHANGED queue
  BY <1>1 DEF Types
<1>2. CASE PollRead \/ UserTask \/ ForceEvent
  <2>1. \E x \in Tasks : queue' = Append(queue, x)
    BY <1>2, NewTasks DEF PollRead, UserTask, ForceEvent
  <2>2. QED
    BY <2>1 DEF Types
<1>3. ASSUME NEW t \in Thread, Accept(t) \/ Clear(t) \/ Attacked(t) PROVE queue' \in Seq(Tasks)
  BY <1>3, NewTasks DEF Accept, Clear, Attacked, Detach
<1>4. ASSUME NEW t \in Thread, TryLock(t) \/ LockType(t) PROVE queue' \in Seq(Tasks)
  <2>1. pc[t].task \in Tasks
    BY DEF Types
  <2>2. queue' = queue \/ \E x \in Tasks : queue' = Append(queue, x)
    BY <1>4, <2>1 DEF TryLock, LockType, Postpone
  <2>3. queue \in Seq(Tasks)
    BY DEF Types
  <2>4. \A x \in Tasks : Append(queue, x) \in Seq(Tasks)
    BY <2>3, Appended
  <2>5. QED
    BY <2>2, <2>3, <2>4
<1>5. ASSUME NEW t \in Thread, Take(t) PROVE queue' \in Seq(Tasks)
  <2>1. queue # <<>> /\ (queue' = Tail(queue) \/ queue' = Append(Tail(queue), Head(queue)))
    BY <1>5, TakeMoves DEF Taken
  <2>2. Tail(queue) \in Seq(Tasks) /\ Head(queue) \in Tasks
    BY <2>1, Beheaded DEF Types
  <2>3. Append(Tail(queue), Head(queue)) \in Seq(Tasks)
    BY <2>2, Appended
  <2>4. QED
    BY <2>1, <2>2, <2>3
<1>6. QED
  BY <1>1, <1>2, <1>3, <1>4, <1>5
     DEF Next, Step, vars, OnClose, Unschedule, Unlock, Reschedule, PollAgain, CloseLock, OsClose,
         Suspend, MarkClose, HandlerCloses, PollCloses

LEMMA NextTypes ==
  ASSUME Sane, Types, \A t \in Thread : Placed(t), [Next]_vars
  PROVE  Types'
<1>1. queue' \in Seq(Tasks)
  BY NextQueue
<1>2. CASE UNCHANGED vars
  BY <1>2 DEF Types, vars
<1>3. CASE PollRead \/ UserTask \/ ForceEvent \/ MarkClose
  BY <1>1, <1>3 DEF PollRead, UserTask, ForceEvent, MarkClose, Types, Count
<1>4. ASSUME NEW t \in Thread, Accept(t) \/ Attacked(t) \/ Suspend(t) PROVE Types'
  <2>1. 0 \in 0..MaxConn /\ (conns < MaxConn => conns + 1 \in 0..MaxConn)
    BY DEF Sane, Types
  <2>2. fd.counter \in Nat /\ fd.open \in BOOLEAN /\ fd.protocol \in 0..MaxConn
    BY DEF Types
  <2>3. fd' \in [counter : Nat, open : BOOLEAN, close : BOOLEAN, scheduled : BOOLEAN, protocol : 0..MaxConn]
    <3>1. CASE Accept(t)
      <4>1. fd' = [counter |-> fd.counter + 1, open |-> TRUE, close |-> FALSE, scheduled |-> FALSE,
                   protocol |-> conns + 1]
        BY <3>1 DEF Accept, Fresh
      <4>2. conns + 1 \in 0..MaxConn
        BY <3>1, <2>1 DEF Accept
      <4>3. QED
        BY <2>2, <4>1, <4>2
    <3>2. CASE Attacked(t)
      BY <3>2, <2>1, <2>2 DEF Attacked, Detach, Fresh
    <3>3. CASE Suspend(t)
      BY <3>3 DEF Suspend, Types
    <3>4. QED
      BY <1>4, <3>1, <3>2, <3>3
  <2>4. conns' \in 0..MaxConn
    BY <1>4, <2>1 DEF Accept, Attacked, Suspend, Types, Count
  <2>5. QED
    BY <1>1, <1>4, <2>3, <2>4 DEF Accept, Attacked, Suspend, Types
<1>5. ASSUME NEW t \in Thread, Take(t) PROVE Types'
  <2>1. pc' \in Calls
    BY <1>5, TakeMoves DEF Taken, Now, Types, Calls
  <2>2. QED
    BY <1>1, <1>5, <2>1, TakeMoves DEF Types, Calls
<1>6. ASSUME NEW t \in Thread, OnClose(t) PROVE Types'
  <2>1. pc' \in Calls
    BY <1>6, StepMoves DEF Now
  <2>2. pc[t].pr \in Proto
    BY <1>6 DEF OnClose, At, Placed, Types, Sane, Proto
  <2>3. QED
    BY <1>1, <1>6, <2>1, <2>2 DEF OnClose, Types, Count, Calls
<1>7. ASSUME NEW t \in Thread, TryLock(t) PROVE Types'
  <2>1. pc' \in Calls
    BY <1>7, StepMoves DEF Now
  <2>2. QED
    BY <1>1, <1>7, <2>1 DEF TryLock, Postpone, Types, Count, Calls
<1>8. ASSUME NEW t \in Thread, LockType(t) PROVE Types'
  <2>1. pc' \in Calls
    BY <1>8, StepMoves DEF Now, Same
  <2>2. pc[t].task.kind \in Kinds
    BY <1>8 DEF LockType, At, Placed
  <2>3. locks' \in [Proto -> SUBSET Kinds]
    <3>1. locks \in [Proto -> SUBSET Kinds]
      BY DEF Types
    <3>2. \/ locks' = locks
          \/ locks' = [locks EXCEPT ![pc[t].pr] = locks[pc[t].pr] \union {pc[t].task.kind}]
      BY <1>8 DEF LockType
    <3>3. QED
      BY <2>2, <3>1, <3>2
  <2>4. QED
    BY <1>1, <1>8, <2>1, <2>3 DEF LockType, Postpone, Types, Count, Calls
<1>9. ASSUME NEW t \in Thread, Unlock(t) \/ Unschedule(t) \/ Reschedule(t) \/ PollAgain(t)
      PROVE  Types'
  <2>1. pc' \in Calls
    BY <1>9, StepMoves DEF Now, Same
  <2>2. locks' \in [Proto -> SUBSET Kinds]
    BY <1>9 DEF Unlock, Unschedule, Reschedule, PollAgain, Types
  <2>3. QED
    BY <1>1, <1>9, <2>1, <2>2
       DEF Unlock, Unschedule, Reschedule, PollAgain, Types, Count, Calls
<1>10. ASSUME NEW t \in Thread,
              HandlerCloses(t) \/ PollCloses(t) \/ CloseLock(t) \/ Clear(t) \/ OsClose(t)
       PROVE  Types'
  <2>1. pc' \in Calls
    BY <1>10, StepMoves DEF Now, Same
  <2>2. fd' \in [counter : Nat, open : BOOLEAN, close : BOOLEAN, scheduled : BOOLEAN, protocol : 0..MaxConn]
    <3>1. CASE Clear(t)
      BY <3>1 DEF Clear, Detach, Fresh, Types, Sane
    <3>2. CASE UNCHANGED fd \/ fd' = [fd EXCEPT !.close = TRUE]
      BY <3>2 DEF Types
    <3>3. QED
      BY <1>10, <3>1, <3>2 DEF HandlerCloses, PollCloses, Closing, CloseLock, OsClose
  <2>3. QED
    BY <1>1, <1>10, <2>1, <2>2
       DEF HandlerCloses, PollCloses, CloseLock, Clear, OsClose, Types, Count, Calls
<1>11. QED
  BY <1>2, <1>3, <1>4, <1>5, <1>6, <1>7, <1>8, <1>9, <1>10 DEF Next, Step

----------------------------------------------------------------------------
\* A step of t leaves another thread placed, if it leaves it its locks.
LEMMA OthersPlaced ==
  ASSUME LockInv, NEW u \in Thread, pc'[u] = pc[u],
         Inside(u) => pc[u].task.kind \in locks'[pc[u].pr],
         protocol_lock' = u <=> protocol_lock = u
  PROVE  Placed(u)'
BY DEF LockInv, Placed, Inside

\* A step of t leaves the callbacks apart, if t does not go into one, but for
\* one of a kind of which there was none.
LEMMA StayApart ==
  ASSUME LockInv, NEW t \in Thread, \A u \in Thread \ {t} : pc'[u] = pc[u],
         Inside(t)' => \/ /\ Inside(t) /\ pc'[t].pr = pc[t].pr
                          /\ pc'[t].task.kind = pc[t].task.kind
                       \/ pc'[t].task.kind \notin locks[pc'[t].pr]
  PROVE  Apart'
<1>1. ASSUME NEW u \in Thread \ {t}, Inside(t)', Inside(u), pc'[t].pr = pc[u].pr
      PROVE  pc'[t].task.kind # pc[u].task.kind
  <2>1. pc[u].task.kind \in locks[pc[u].pr]
    BY <1>1 DEF LockInv, Placed
  <2>2. QED
    BY <1>1, <2>1 DEF LockInv, Apart
<1>2. \A u \in Thread \ {t} : Inside(u)' <=> Inside(u)
  BY DEF Inside
<1>3. QED
  BY <1>1, <1>2 DEF LockInv, Apart

\* A step of t that leaves the locks and goes into no callback.
LEMMA KeepsLocks ==
  ASSUME LockInv, NEW t \in Thread, \A u \in Thread \ {t} : pc'[u] = pc[u],
         \A u \in Thread \ {t} : Inside(u) => pc[u].task.kind \in locks'[pc[u].pr],
         \A u \in Thread \ {t} : protocol_lock' = u <=> protocol_lock = u,
         Inside(t)' => \/ /\ Inside(t) /\ pc'[t].pr = pc[t].pr
                          /\ pc'[t].task.kind = pc[t].task.kind
                       \/ pc'[t].task.kind \notin locks[pc'[t].pr],
         Placed(t)'
  PROVE  (\A u \in Thread : Placed(u))' /\ Apart'
<1>1. \A u \in Thread \ {t} : Placed(u)'
  BY OthersPlaced
<1>2. Apart'
  BY StayApart
<1>3. QED
  BY <1>1, <1>2

\* A step that moves no thread.
LEMMA Unmoved ==
  ASSUME LockInv, UNCHANGED <<pc, locks, protocol_lock>>
  PROVE  (\A u \in Thread : Placed(u))' /\ Apart'
BY DEF LockInv, Placed, Apart, Inside

\* Take: the thread has no protocol yet, or goes into on_close.
LEMMA TakePlaced ==
  ASSUME Sane, LockInv, NEW t \in Thread, Take(t)
  PROVE  (\A u \in Thread : Placed(u))' /\ Apart'
<1> DEFINE task == Head(queue)
<1>1. /\ Taken(t, task) /\ pc[t] = Idle /\ UNCHANGED <<locks, protocol_lock>>
      /\ task \in Tasks
  BY TakeMoves, Beheaded DEF LockInv, Types
<1>2. protocol_lock # t /\ \A u \in Thread : Inside(u) => pc[u].task.kind \in locks[pc[u].pr]
  BY <1>1 DEF LockInv, Placed, Idle
<1> HIDE DEF task
<1>3. CASE pc' = pc
  BY <1>1, <1>3, Unmoved
<1>4. CASE task.kind \in Kinds /\ Now(t, "trylock", task, 0, "idle")
  <2>1. Placed(t)' /\ ~Inside(t)'
    BY <1>1, <1>2, <1>4 DEF Now, Placed, Inside
  <2>2. QED
    BY <1>1, <1>2, <1>4, <2>1, KeepsLocks DEF Now
<1>5. CASE task.kind = "close" /\ Now(t, "on_close", task, task.pr, "idle")
  <2>1. task.pr # 0
    BY <1>1, <1>5 DEF Tasks
  <2>2. Placed(t)' /\ ~Inside(t)'
    BY <1>1, <1>2, <1>5, <2>1 DEF Now, Placed, Inside
  <2>3. QED
    BY <1>1, <1>2, <1>5, <2>2, KeepsLocks DEF Now
<1>6. QED
  BY <1>1, <1>3, <1>4, <1>5 DEF Taken

\* The lock of the descriptor, and the protocol's.
LEMMA LockPlaced ==
  ASSUME Sane, LockInv, NEW t \in Thread, TryLock(t) \/ LockType(t)
  PROVE  (\A u \in Thread : Placed(u))' /\ Apart'
<1>1. Types /\ Placed(t) /\ \A u \in Thread : Inside(u) => pc[u].task.kind \in locks[pc[u].pr]
  BY DEF LockInv, Placed
<1>2. CASE TryLock(t)
  <2>1. pc[t].at = "trylock" /\ UNCHANGED locks /\ pc[t].task.kind \in Kinds
    BY <1>1, <1>2 DEF TryLock, At, Placed
  <2>2. CASE Now(t, "idle", DataTask(0, FALSE), 0, "idle") /\ UNCHANGED protocol_lock
    <3>1. Placed(t)' /\ ~Inside(t)'
      BY <1>1, <2>1, <2>2 DEF Now, Placed, Inside
    <3>2. QED
      BY <1>1, <2>1, <2>2, <3>1, KeepsLocks DEF Now
  <2>3. CASE /\ Now(t, "locktype", pc[t].task, fd.protocol, pc[t].back)
             /\ fd.protocol # 0 /\ protocol_lock = None /\ protocol_lock' = t
    <3>1. Placed(t)' /\ ~Inside(t)'
      BY <1>1, <2>1, <2>3 DEF Now, Placed, Inside
    <3>2. \A u \in Thread \ {t} : protocol_lock' = u <=> protocol_lock = u
      BY <2>3 DEF Sane
    <3>3. QED
      BY <1>1, <2>1, <2>3, <3>1, <3>2, KeepsLocks DEF Now
  <2>4. QED
    BY <1>1, <1>2, <2>2, <2>3, StepMoves
<1>3. CASE LockType(t)
  <2>1. /\ pc[t].at = "locktype" /\ protocol_lock = t /\ protocol_lock' = None
        /\ pc[t].task.kind \in Kinds /\ pc[t].pr \in Proto /\ pc[t].back = "idle"
    BY <1>1, <1>3 DEF LockType, At, Placed, Types, Sane, Proto
  <2>2. \A u \in Thread \ {t} : protocol_lock' = u <=> protocol_lock = u
    BY <2>1 DEF Sane
  <2>3. CASE Takeable(t) /\ Same(t, IF pc[t].task.kind = "data" THEN "unschedule" ELSE "handler")
    <3>1. /\ pc[t].task.kind \notin locks[pc[t].pr]
          /\ locks' = [locks EXCEPT ![pc[t].pr] = @ \union {pc[t].task.kind}]
      BY <1>3, <2>3 DEF LockType, Takeable
    <3>2. pc[t].task.kind \in locks'[pc[t].pr] /\ \A p \in Proto : locks[p] \subseteq locks'[p]
      BY <1>1, <2>1, <3>1 DEF Types
    <3>3. \A u \in Thread : Inside(u) => pc[u].task.kind \in locks'[pc[u].pr]
      BY <3>2 DEF LockInv, Placed
    <3>4. Placed(t)'
      BY <1>1, <2>1, <2>3, <3>2 DEF Now, Same, Placed, Inside, Kinds, Sane
    <3>5. QED
      BY <2>2, <2>3, <3>1, <3>3, <3>4, KeepsLocks DEF Now, Same
  <2>4. CASE ~Takeable(t) /\ Now(t, "idle", DataTask(0, FALSE), 0, "idle")
    <3>1. UNCHANGED locks
      BY <1>3, <2>4 DEF LockType
    <3>2. Placed(t)' /\ ~Inside(t)'
      BY <1>1, <2>1, <2>4, <3>1 DEF Now, Placed, Inside, Sane
    <3>3. QED
      BY <1>1, <2>2, <2>4, <3>1, <3>2, KeepsLocks DEF Now
  <2>5. QED
    BY <1>1, <1>3, <2>3, <2>4, StepMoves
<1>4. QED
  BY <1>2, <1>3

\* Unlock: the one step that takes a lock of a protocol back.
LEMMA UnlockPlaced ==
  ASSUME Sane, LockInv, NEW t \in Thread, Unlock(t)
  PROVE  (\A u \in Thread : Placed(u))' /\ Apart'
<1>1. /\ pc[t].at = "handler" /\ pc[t].back = "idle" /\ Inside(t) /\ protocol_lock # t
      /\ pc[t].pr \in Proto /\ pc[t].task.kind \in Kinds /\ UNCHANGED protocol_lock
      /\ locks' = [locks EXCEPT ![pc[t].pr] = @ \ {pc[t].task.kind}]
  <2>1. pc[t].at = "handler" /\ pc[t].back \in {"idle", "handler"} /\ Placed(t)
    BY DEF Unlock, At, LockInv, Types
  <2>2. QED
    BY <2>1 DEF Unlock, Placed, Inside
<1>2. ASSUME NEW u \in Thread \ {t}, Inside(u) PROVE pc[u].task.kind \in locks'[pc[u].pr]
  <2>1. pc[u].task.kind \in locks[pc[u].pr] /\ pc[u].pr \in Proto
    BY <1>2 DEF LockInv, Placed
  <2>2. pc[u].pr = pc[t].pr => pc[u].task.kind # pc[t].task.kind
    BY <1>1, <1>2 DEF LockInv, Apart
  <2>3. QED
    BY <1>1, <2>1, <2>2 DEF LockInv, Types
<1>3. CASE Same(t, "reschedule") /\ pc[t].task.kind = "data"
  <2>1. Placed(t)' /\ ~Inside(t)'
    BY <1>1, <1>3 DEF Same, Now, Placed, Inside
  <2>2. QED
    BY <1>1, <1>2, <1>3, <2>1, KeepsLocks DEF Same, Now
<1>4. CASE Now(t, "idle", DataTask(0, FALSE), 0, "idle")
  <2>1. Placed(t)' /\ ~Inside(t)'
    BY <1>1, <1>4 DEF Now, Placed, Inside
  <2>2. QED
    BY <1>1, <1>2, <1>4, <2>1, KeepsLocks DEF Now
<1>5. QED
  BY <1>3, <1>4, StepMoves DEF LockInv

\* The other steps of a callback and of on_close leave the locks.
LEMMA RunPlaced ==
  ASSUME Sane, LockInv, NEW t \in Thread,
         OnClose(t) \/ Unschedule(t) \/ Reschedule(t) \/ PollAgain(t)
  PROVE  (\A u \in Thread : Placed(u))' /\ Apart'
<1>1. /\ Placed(t) /\ UNCHANGED <<locks, protocol_lock>>
      /\ \A u \in Thread : Inside(u) => pc[u].task.kind \in locks[pc[u].pr]
  BY DEF LockInv, Placed, OnClose, Unschedule, Reschedule, PollAgain
<1>2. CASE /\ Now(t, "idle", DataTask(0, FALSE), 0, "idle")
           /\ pc[t].at \in {"on_close", "reschedule", "poll"}
  <2>1. Placed(t)' /\ ~Inside(t)'
    BY <1>1, <1>2 DEF Now, Placed, Inside
  <2>2. QED
    BY <1>1, <1>2, <2>1, KeepsLocks DEF Now
<1>3. CASE Same(t, "poll") /\ pc[t].at = "reschedule"
  <2>1. Placed(t)' /\ ~Inside(t)'
    BY <1>1, <1>3 DEF Same, Now, Placed, Inside
  <2>2. QED
    BY <1>1, <1>3, <2>1, KeepsLocks DEF Same, Now
<1>4. CASE Same(t, "handler") /\ pc[t].at = "unschedule"
  <2>1. Placed(t)' /\ Inside(t)
    BY <1>1, <1>4 DEF Same, Now, Placed, Inside
  <2>2. QED
    BY <1>1, <1>4, <2>1, KeepsLocks DEF Same, Now
<1>5. QED
  BY <1>2, <1>3, <1>4, StepMoves
     DEF OnClose, Unschedule, Reschedule, PollAgain, At, LockInv

\* Closing: in a callback the thread stays inside; else it never was.
LEMMA ClosePlaced ==
  ASSUME Sane, LockInv, NEW t \in Thread,
         HandlerCloses(t) \/ PollCloses(t) \/ CloseLock(t) \/ Clear(t) \/ OsClose(t)
  PROVE  (\A u \in Thread : Placed(u))' /\ Apart'
<1>1. /\ Types /\ Placed(t) /\ UNCHANGED locks
      /\ \A u \in Thread : Inside(u) => pc[u].task.kind \in locks[pc[u].pr]
  BY DEF LockInv, Placed, HandlerCloses, PollCloses, CloseLock, Clear, OsClose
<1>2. CASE HandlerCloses(t)
  <2>1. /\ pc[t].at = "handler" /\ UNCHANGED protocol_lock /\ Inside(t)
        /\ Now(t, "close", pc[t].task, pc[t].pr, "handler")
    BY <1>1, <1>2, StepMoves DEF HandlerCloses, At, Inside
  <2>2. Placed(t)'
    BY <1>1, <2>1 DEF Now, Placed, Inside
  <2>3. QED
    BY <1>1, <2>1, <2>2, KeepsLocks DEF Now
<1>3. CASE PollCloses(t)
  <2>1. /\ pc[t].at = "idle" /\ UNCHANGED protocol_lock
        /\ Now(t, "close", DataTask(0, FALSE), 0, "idle")
    <3>1. pc[t].at = "idle" /\ UNCHANGED protocol_lock
      BY <1>3 DEF PollCloses, Idle
    <3>2. QED
      BY <1>1, <1>3, <3>1, StepMoves
  <2>2. Placed(t)' /\ ~Inside(t)'
    BY <1>1, <2>1 DEF Now, Placed, Inside
  <2>3. QED
    BY <1>1, <2>1, <2>2, KeepsLocks DEF Now
<1>4. CASE CloseLock(t) \/ Clear(t)
  <2>1. /\ \/ pc[t].at = "close" /\ Same(t, "clear") /\ protocol_lock' = t
           \/ pc[t].at = "clear" /\ Same(t, "osclose") /\ protocol_lock' = None
        /\ protocol_lock \in {None, t}
    BY <1>1, <1>4, StepMoves DEF CloseLock, Clear, At, Placed
  <2>2. \A u \in Thread \ {t} : protocol_lock' = u <=> protocol_lock = u
    BY <2>1 DEF Sane
  <2>3. Placed(t)' /\ (Inside(t)' => Inside(t))
    BY <1>1, <2>1 DEF Same, Now, Placed, Inside, Sane
  <2>4. QED
    BY <1>1, <2>1, <2>2, <2>3, KeepsLocks DEF Same, Now
<1>5. CASE OsClose(t)
  <2>1. /\ pc[t].at = "osclose" /\ UNCHANGED protocol_lock
        /\ IF pc[t].back = "idle" THEN Now(t, "idle", DataTask(0, FALSE), 0, "idle")
           ELSE Now(t, "handler", pc[t].task, pc[t].pr, "idle")
    BY <1>1, <1>5, StepMoves DEF OsClose, At
  <2>2. pc[t].back \in {"idle", "handler"}
    BY <1>1 DEF Types
  <2>3. Placed(t)' /\ (Inside(t)' => Inside(t))
    BY <1>1, <2>1, <2>2 DEF Now, Placed, Inside
  <2>4. Inside(t)' => pc'[t].pr = pc[t].pr /\ pc'[t].task.kind = pc[t].task.kind
    BY <2>1 DEF Now, Inside
  <2>5. QED
    BY <1>1, <2>1, <2>3, <2>4, KeepsLocks DEF Now
<1>6. QED
  BY <1>2, <1>3, <1>4, <1>5

LEMMA InitLock == ASSUME Sane, Init PROVE LockInv
<1>1. Types
  <2>1. 0 \in 0..MaxConn
    BY DEF Sane
  <2>2. DataTask(0, FALSE) \in Tasks
    BY <2>1 DEF DataTask, Task, Tasks, Kinds
  <2>3. Idle \in [at : Places, task : Tasks, pr : 0..MaxConn, back : {"idle", "handler"}]
    BY <2>1, <2>2 DEF Idle, Places
  <2>4. fd \in [counter : Nat, open : BOOLEAN, close : BOOLEAN, scheduled : BOOLEAN, protocol : 0..MaxConn]
    BY <2>1 DEF Init, Fresh
  <2>5. locks \in [Proto -> SUBSET Kinds] /\ queue \in Seq(Tasks)
    BY DEF Init
  <2>6. QED
    BY <2>1, <2>3, <2>4, <2>5 DEF Init, Types
<1>2. (\A t \in Thread : Placed(t)) /\ Apart
  BY DEF Sane, Init, Placed, Apart, Inside, Idle
<1>3. QED
  BY <1>1, <1>2 DEF LockInv

LEMMA NextLock ==
  ASSUME Sane, LockInv, [Next]_vars
  PROVE  LockInv'
<1>1. Types'
  BY NextTypes DEF LockInv
<1>2. CASE UNCHANGED <<pc, locks, protocol_lock>>
  BY <1>1, <1>2, Unmoved DEF LockInv
<1>3. ASSUME NEW t \in Thread, Step(t) \/ HandlerCloses(t) \/ PollCloses(t)
      PROVE  LockInv'
  <2>1. (\A u \in Thread : Placed(u))' /\ Apart'
    BY <1>3, TakePlaced, LockPlaced, UnlockPlaced, RunPlaced, ClosePlaced DEF Step
  <2>2. QED
    BY <1>1, <2>1 DEF LockInv
<1>4. CASE UNCHANGED vars \/ PollRead \/ UserTask \/ ForceEvent \/ MarkClose
  BY <1>2, <1>4 DEF vars, PollRead, UserTask, ForceEvent, MarkClose
<1>5. ASSUME NEW t \in Thread, Accept(t) \/ Suspend(t) \/ Attacked(t) PROVE LockInv'
  BY <1>2, <1>5 DEF Accept, Suspend, Attacked
<1>6. QED
  BY <1>3, <1>4, <1>5 DEF Next

LEMMA LockHolds == ASSUME Sane PROVE Spec => []LockInv
BY InitLock, NextLock, PTL DEF Spec

\* The lock of the descriptor has one owner, which is at a step that holds it.
THEOREM ConnectionTypeOK == ASSUME Sane PROVE Spec => []TypeOK
<1>1. LockInv => TypeOK
  BY DEF LockInv, Types, Placed, TypeOK, Kinds
<1>2. QED
  BY <1>1, LockHolds, PTL

\* No two threads run callbacks of one kind of a protocol, whichever events,
\* forced events and old handles have led them to it, also when fio_flush
\* detaches connections without the lock.
THEOREM ConnectionOneAtATime == ASSUME Sane PROVE Spec => []OneAtATime
<1>1. ASSUME LockInv PROVE OneAtATime
  <2>1. SUFFICES ASSUME NEW p \in Proto, NEW kind \in Kinds PROVE Cardinality(In(p, kind)) <= 1
    BY DEF OneAtATime, Kinds
  <2>2. \A t, u \in In(p, kind) : t = u
    BY <1>1 DEF In, Inside, LockInv, Apart
  <2>3. QED
    BY <2>2, AtMostOne
<1>2. QED
  BY <1>1, LockHolds, PTL

----------------------------------------------------------------------------
(***************************************************************************)
(* ClosedAlone.  A protocol is attached once; while it is, or may be asked *)
(* for by the thread that has the lock of the descriptor, its on_close is  *)
(* nowhere.  From then on it is in one place: in the queue, in one thread, *)
(* or over.  fio_flush detaches without that lock (Slowloris), and a       *)
(* thread may then take a lock of the protocol after its on_close.         *)
(***************************************************************************)
Attached ==
  /\ fd.protocol <= conns
  /\ \A t \in Thread :
       /\ pc[t].pr <= conns
       /\ pc[t].at = "locktype" => pc[t].pr = fd.protocol

WaitsIn(q, p) == \E i \in DOMAIN q : q[i].kind = "close" /\ q[i].pr = p
QueuedOnce(q) ==
  \A i, j \in DOMAIN q :
    q[i].kind = "close" /\ q[j].kind = "close" /\ q[i].pr = q[j].pr => i = j

Waits(p) == WaitsIn(queue, p)
Runs(p) == \E t \in Thread : pc[t].at = "on_close" /\ pc[t].pr = p

OnePlace ==
  /\ QueuedOnce(queue)
  /\ \A t, u \in Thread :
       pc[t].at = "on_close" /\ pc[u].at = "on_close" /\ pc[t].pr = pc[u].pr => t = u
  /\ \A p \in Proto : /\ Waits(p) => ~Runs(p) /\ p \notin closed
                      /\ Runs(p) => p \notin closed

\* Where it is, the protocol is not attached, and once it has begun nobody has
\* the protocol's locks.
Detached ==
  \A p \in Proto :
    /\ Waits(p) \/ Runs(p) \/ p \in closed => p # fd.protocol /\ p <= conns
    /\ Runs(p) \/ p \in closed => locks[p] = {}

CloseInv == Attached /\ OnePlace /\ Detached

\* What the queue has after a task is put in or taken out.
LEMMA OnceMore ==
  ASSUME NEW q \in Seq(Tasks), NEW x \in Tasks, QueuedOnce(q),
         x.kind = "close" => ~WaitsIn(q, x.pr)
  PROVE  /\ QueuedOnce(Append(q, x))
         /\ \A p : WaitsIn(Append(q, x), p) => WaitsIn(q, p) \/ (x.kind = "close" /\ x.pr = p)
<1> DEFINE r == Append(q, x)
           n == Len(q) + 1
<1>1. /\ DOMAIN r = DOMAIN q \union {n} /\ n \notin DOMAIN q
      /\ r[n] = x /\ \A i \in DOMAIN q : r[i] = q[i]
  BY Appended
<1> HIDE DEF r, n
<1>2. QueuedOnce(r)
  BY <1>1 DEF QueuedOnce, WaitsIn
<1>3. \A p : WaitsIn(r, p) => WaitsIn(q, p) \/ (x.kind = "close" /\ x.pr = p)
  BY <1>1 DEF WaitsIn
<1>4. QED
  BY <1>2, <1>3 DEF r

LEMMA OnceLess ==
  ASSUME NEW q \in Seq(Tasks), q # <<>>, QueuedOnce(q)
  PROVE  /\ QueuedOnce(Tail(q))
         /\ \A p : WaitsIn(Tail(q), p) => WaitsIn(q, p)
         /\ Head(q).kind = "close" => /\ WaitsIn(q, Head(q).pr)
                                      /\ ~WaitsIn(Tail(q), Head(q).pr)
<1> DEFINE r == Tail(q)
<1>1. /\ 1 \in DOMAIN q /\ Head(q) = q[1]
      /\ \A i \in DOMAIN r : i + 1 \in DOMAIN q /\ i \in Nat \ {0} /\ r[i] = q[i + 1]
  BY Beheaded
<1> HIDE DEF r
<1>2. QueuedOnce(r)
  <2>1. SUFFICES ASSUME NEW i \in DOMAIN r, NEW j \in DOMAIN r, r[i].kind = "close",
                        r[j].kind = "close", r[i].pr = r[j].pr
                 PROVE  i = j
    BY DEF QueuedOnce
  <2>2. i + 1 = j + 1
    BY <1>1, <2>1 DEF QueuedOnce
  <2>3. QED
    BY <1>1, <2>2
<1>3. \A p : WaitsIn(r, p) => WaitsIn(q, p)
  BY <1>1 DEF WaitsIn
<1>4. ASSUME Head(q).kind = "close" PROVE WaitsIn(q, Head(q).pr) /\ ~WaitsIn(r, Head(q).pr)
  <2>1. WaitsIn(q, Head(q).pr)
    BY <1>1, <1>4 DEF WaitsIn
  <2>2. ASSUME NEW i \in DOMAIN r, r[i].kind = "close", r[i].pr = Head(q).pr PROVE FALSE
    <3>1. i + 1 = 1
      BY <1>1, <1>4, <2>2 DEF QueuedOnce
    <3>2. QED
      BY <1>1, <3>1
  <2>3. QED
    BY <2>1, <2>2 DEF WaitsIn
<1>5. QED
  BY <1>2, <1>3, <1>4 DEF r

\* A step that brings no on_close, and no lock but that of what is attached.
LEMMA CloseStays ==
  ASSUME Sane, LockInv, CloseInv, fd'.protocol = fd.protocol, UNCHANGED <<conns, closed>>,
         QueuedOnce(queue'), \A p : WaitsIn(queue', p) => Waits(p),
         \A t \in Thread :
           /\ pc'[t].at = "on_close" => pc[t].at = "on_close" /\ pc'[t].pr = pc[t].pr
           /\ pc'[t].pr \in {pc[t].pr, 0, fd.protocol}
           /\ pc'[t].at = "locktype" => pc'[t].pr = fd.protocol,
         \A p \in Proto : p # fd.protocol => locks'[p] \subseteq locks[p]
  PROVE  CloseInv'
<1>1. Attached'
  <2>1. conns \in Nat /\ fd.protocol <= conns
    BY DEF LockInv, Types, CloseInv, Attached
  <2>2. QED
    BY <2>1 DEF CloseInv, Attached
<1>2. \A p \in Proto : (Waits(p)' => Waits(p)) /\ (Runs(p)' => Runs(p))
  BY DEF Waits, Runs
<1>3. OnePlace'
  BY <1>2 DEF CloseInv, OnePlace
<1>4. Detached'
  BY <1>2 DEF CloseInv, Detached
<1>5. QED
  BY <1>1, <1>3, <1>4 DEF CloseInv

\* A step that leaves the tasks, or puts in one that is no on_close.
LEMMA CloseStaysMore ==
  ASSUME Sane, LockInv, CloseInv, fd'.protocol = fd.protocol, UNCHANGED <<conns, closed>>,
         queue' = queue \/ \E x \in Tasks : x.kind # "close" /\ queue' = Append(queue, x),
         \A t \in Thread :
           /\ pc'[t].at = "on_close" => pc[t].at = "on_close" /\ pc'[t].pr = pc[t].pr
           /\ pc'[t].pr \in {pc[t].pr, 0, fd.protocol}
           /\ pc'[t].at = "locktype" => pc'[t].pr = fd.protocol,
         \A p \in Proto : p # fd.protocol => locks'[p] \subseteq locks[p]
  PROVE  CloseInv'
<1>1. queue \in Seq(Tasks) /\ QueuedOnce(queue)
  BY DEF LockInv, Types, CloseInv, OnePlace
<1>2. QueuedOnce(queue') /\ \A p : WaitsIn(queue', p) => Waits(p)
  <2>1. CASE queue' = queue
    BY <1>1, <2>1 DEF Waits
  <2>2. CASE \E x \in Tasks : x.kind # "close" /\ queue' = Append(queue, x)
    BY <1>1, <2>2, OnceMore DEF Waits
  <2>3. QED
    BY <2>1, <2>2
<1>3. QED
  BY <1>2, CloseStays

\* Taking an on_close is where it begins: nobody has a lock of its protocol.
LEMMA TakeCloses ==
  ASSUME Sane, LockInv, CloseInv, NEW t \in Thread, Take(t)
  PROVE  CloseInv'
<1> DEFINE task == Head(queue)
<1>1. /\ Taken(t, task) /\ queue # <<>> /\ pc[t].at = "idle" /\ task \in Tasks
      /\ UNCHANGED <<fd, locks, closed, conns>>
      /\ queue \in Seq(Tasks) /\ QueuedOnce(queue)
  <2>1. Types /\ queue \in Seq(Tasks) /\ QueuedOnce(queue)
    BY DEF LockInv, Types, CloseInv, OnePlace
  <2>2. pc[t] = Idle /\ queue # <<>> /\ Taken(t, task) /\ UNCHANGED <<fd, locks, closed, conns>>
    BY <2>1, TakeMoves
  <2>3. QED
    BY <2>1, <2>2, Beheaded DEF Idle
<1>2. /\ QueuedOnce(Tail(queue)) /\ \A p : WaitsIn(Tail(queue), p) => Waits(p)
      /\ task.kind = "close" => Waits(task.pr) /\ ~WaitsIn(Tail(queue), task.pr)
  BY <1>1, OnceLess DEF Waits
<1> HIDE DEF task
<1>3. \A u \in Thread : pc[u].at = "locktype" => pc[u].pr = fd.protocol
  BY DEF CloseInv, Attached
<1>4. CASE pc' = pc /\ queue' = Tail(queue)
  BY <1>1, <1>2, <1>3, <1>4, CloseStays
<1>5. CASE Now(t, "trylock", task, 0, "idle") /\ queue' = Tail(queue)
  BY <1>1, <1>2, <1>3, <1>5, CloseStays DEF Now
<1>6. CASE task.kind = "close" /\ pc' = pc /\ queue' = Append(Tail(queue), task)
  <2>1. Tail(queue) \in Seq(Tasks)
    BY <1>1, Beheaded
  <2>2. QueuedOnce(queue') /\ \A p : WaitsIn(queue', p) => Waits(p)
    BY <1>1, <1>2, <1>6, <2>1, OnceMore
  <2>3. QED
    BY <1>1, <1>3, <1>6, <2>2, CloseStays
<1>7. CASE /\ task.kind = "close" /\ locks[task.pr] = {} /\ Now(t, "on_close", task, task.pr, "idle")
           /\ queue' = Tail(queue)
  <2> DEFINE p == task.pr
  <2>1. /\ Waits(p) /\ ~WaitsIn(queue', p) /\ p \in Proto /\ p <= conns /\ p # fd.protocol
        /\ ~Runs(p) /\ p \notin closed /\ locks[p] = {}
    <3>1. p \in Proto
      BY <1>1, <1>7 DEF Tasks, Proto, Sane
    <3>2. Waits(p) /\ ~WaitsIn(queue', p)
      BY <1>2, <1>7
    <3>3. locks[p] = {}
      BY <1>7
    <3> HIDE DEF p
    <3>4. QED
      BY <3>1, <3>2, <3>3 DEF CloseInv, OnePlace, Detached
  <2>2. \A q \in Proto : (Waits(q)' => Waits(q) /\ q # p) /\ (Runs(q)' => Runs(q) \/ q = p)
    BY <1>2, <1>7, <2>1 DEF Waits, Runs, Now
  <2>3. Attached'
    BY <1>1, <1>7, <2>1 DEF CloseInv, Attached, Now
  <2>4. OnePlace'
    <3>1. ASSUME NEW u \in Thread, NEW w \in Thread, pc'[u].at = "on_close",
                 pc'[w].at = "on_close", pc'[u].pr = pc'[w].pr
          PROVE  u = w
      BY <1>7, <2>1, <3>1 DEF Now, Runs, CloseInv, OnePlace
    <3>2. QED
      BY <1>1, <1>2, <1>7, <2>1, <2>2, <3>1 DEF CloseInv, OnePlace
  <2>5. Detached'
    BY <1>1, <2>1, <2>2 DEF CloseInv, Detached
  <2>6. QED
    BY <2>3, <2>4, <2>5 DEF CloseInv
<1>8. QED
  BY <1>1, <1>4, <1>5, <1>6, <1>7 DEF Taken

\* on_close runs and is over.
LEMMA OnCloseCloses ==
  ASSUME Sane, LockInv, CloseInv, NEW t \in Thread, OnClose(t)
  PROVE  CloseInv'
<1> DEFINE p == pc[t].pr
<1>1. /\ pc[t].at = "on_close" /\ Now(t, "idle", DataTask(0, FALSE), 0, "idle")
      /\ closed' = closed \union {p} /\ UNCHANGED <<fd, locks, queue, conns>> /\ Runs(p)
  BY StepMoves DEF LockInv, OnClose, At, Count, Runs
<1>2. p \in Proto /\ conns \in Nat
  BY <1>1 DEF LockInv, Placed, Types, Proto, Sane
<1>3. \A q \in Proto : (Waits(q)' <=> Waits(q)) /\ (Runs(q)' => Runs(q) /\ q # p)
  <2>1. ASSUME NEW q \in Proto, Runs(q)' PROVE Runs(q) /\ q # p
    BY <1>1, <2>1 DEF Runs, Now, CloseInv, OnePlace
  <2>2. QED
    BY <1>1, <2>1 DEF Waits
<1>4. Attached'
  BY <1>1, <1>2 DEF CloseInv, Attached, Now
<1>5. OnePlace'
  BY <1>1, <1>2, <1>3 DEF CloseInv, OnePlace, Now
<1>6. Detached'
  BY <1>1, <1>2, <1>3 DEF CloseInv, Detached
<1>7. QED
  BY <1>4, <1>5, <1>6 DEF CloseInv

\* Clear and Accept, with the lock of the descriptor: the on_close of what was
\* attached goes into the queue.
LEMMA DetachCloses ==
  ASSUME Sane, LockInv, CloseInv, NEW t \in Thread, Clear(t) \/ Accept(t)
  PROVE  CloseInv'
<1>1. /\ queue' = WithClose(queue) /\ UNCHANGED <<locks, closed>>
      /\ conns \in Nat /\ fd.protocol \in 0..MaxConn /\ fd.protocol <= conns
      /\ \/ fd'.protocol = 0 /\ conns' = conns
         \/ fd'.protocol = conns + 1 /\ conns' = conns + 1
  BY DEF LockInv, Types, CloseInv, Attached, Clear, Accept, Detach, Fresh, Count
<1>2. \A u \in Thread : /\ pc'[u].pr = pc[u].pr /\ pc'[u].at # "locktype"
                        /\ pc'[u].at = "on_close" <=> pc[u].at = "on_close"
  <2>1. CASE Clear(t)
    <3>1. Same(t, "osclose") /\ pc[t].at = "clear" /\ protocol_lock = t
      BY <2>1, StepMoves DEF LockInv, Placed, Clear, At
    <3>2. QED
      BY <3>1 DEF Same, Now, LockInv, Placed
  <2>2. CASE Accept(t)
    BY <2>2 DEF Accept, LockInv, Placed, Sane
  <2>3. QED
    BY <2>1, <2>2
<1>3. /\ QueuedOnce(queue')
      /\ \A p : WaitsIn(queue', p) => Waits(p) \/ (fd.protocol # 0 /\ p = fd.protocol)
  <2>1. queue \in Seq(Tasks) /\ QueuedOnce(queue)
    BY DEF LockInv, Types, CloseInv, OnePlace
  <2>2. CASE fd.protocol = 0
    BY <1>1, <2>1, <2>2 DEF WithClose, Waits
  <2>3. CASE fd.protocol # 0
    <3> DEFINE x == Task("close", fd.counter + 1, fd.protocol, FALSE)
    <3>1. x \in Tasks /\ x.kind = "close" /\ x.pr = fd.protocol
      BY <2>3, NewTasks DEF LockInv, Task
    <3>2. ~WaitsIn(queue, fd.protocol)
      BY <1>1, <2>3 DEF CloseInv, Detached, Waits, Proto
    <3>3. queue' = Append(queue, x)
      BY <1>1, <2>3 DEF WithClose
    <3> HIDE DEF x
    <3>4. QED
      BY <2>1, <2>3, <3>1, <3>2, <3>3, OnceMore DEF Waits
  <2>4. QED
    BY <2>2, <2>3
<1>4. \A p \in Proto : (Runs(p)' <=> Runs(p)) /\ (Waits(p)' => Waits(p) \/ p = fd.protocol)
  BY <1>2, <1>3 DEF Runs, Waits
<1>5. Attached'
  BY <1>1, <1>2 DEF CloseInv, Attached, LockInv, Types
<1>6. OnePlace'
  BY <1>1, <1>2, <1>3, <1>4 DEF CloseInv, OnePlace, Detached
<1>7. Detached'
  BY <1>1, <1>4 DEF CloseInv, Detached, Proto
<1>8. QED
  BY <1>5, <1>6, <1>7 DEF CloseInv

\* The other steps of a thread.
LEMMA CalmCloses ==
  ASSUME Sane, LockInv, CloseInv, NEW t \in Thread,
         \/ TryLock(t) \/ LockType(t) \/ Unschedule(t) \/ Suspend(t) \/ Unlock(t) \/ Reschedule(t)
         \/ PollAgain(t) \/ HandlerCloses(t) \/ PollCloses(t) \/ CloseLock(t) \/ OsClose(t)
  PROVE  CloseInv'
<1> DEFINE Where(at, pr) == /\ pc'[t].at = at /\ pc'[t].pr = pr
                            /\ \A u \in Thread \ {t} : pc'[u] = pc[u]
<1>1. fd'.protocol = fd.protocol /\ UNCHANGED <<conns, closed>>
  BY DEF TryLock, LockType, Unschedule, Suspend, Unlock, Reschedule, PollAgain, HandlerCloses,
         PollCloses, Closing, CloseLock, OsClose, Count, LockInv, Types
<1>2. queue' = queue \/ \E x \in Tasks : x.kind # "close" /\ queue' = Append(queue, x)
  <2>1. pc[t].task \in Tasks
    BY DEF LockInv, Types
  <2>2. CASE TryLock(t) \/ LockType(t)
    <3>1. pc[t].task.kind # "close"
      BY <2>2 DEF TryLock, LockType, At, LockInv, Placed, Kinds
    <3>2. queue' = queue \/ queue' = Append(queue, pc[t].task)
      BY <2>2 DEF TryLock, LockType, Postpone
    <3>3. QED
      BY <2>1, <3>1, <3>2
  <2>3. CASE UNCHANGED queue
    BY <2>3
  <2>4. QED
    BY <2>2, <2>3 DEF Unschedule, Suspend, Unlock, Reschedule, PollAgain, HandlerCloses,
                      PollCloses, CloseLock, OsClose
<1>3. \/ pc' = pc
      \/ \E at \in Places, pr \in {pc[t].pr, 0} : at \notin {"on_close", "locktype"} /\ Where(at, pr)
      \/ Where("locktype", fd.protocol)
  <2>1. CASE TryLock(t) \/ LockType(t)
    BY <2>1, StepMoves DEF LockInv, Now, Same, Places
  <2>2. CASE Suspend(t)
    BY <2>2 DEF Suspend
  <2>3. CASE Unschedule(t) \/ Unlock(t) \/ Reschedule(t) \/ PollAgain(t)
    BY <2>3, StepMoves DEF LockInv, Now, Same, Places
  <2>4. CASE HandlerCloses(t) \/ PollCloses(t) \/ CloseLock(t) \/ OsClose(t)
    BY <2>4, StepMoves DEF LockInv, Now, Same, Places
  <2>5. QED
    BY <2>1, <2>2, <2>3, <2>4
<1>4. \A u \in Thread : /\ pc'[u].at = "on_close" => pc[u].at = "on_close" /\ pc'[u].pr = pc[u].pr
                        /\ pc'[u].pr \in {pc[u].pr, 0, fd.protocol}
                        /\ pc'[u].at = "locktype" => pc'[u].pr = fd.protocol
  <2>1. \A u \in Thread : pc[u].at = "locktype" => pc[u].pr = fd.protocol
    BY DEF CloseInv, Attached
  <2>2. QED
    BY <1>3, <2>1
<1>5. \A p \in Proto : p # fd.protocol => locks'[p] \subseteq locks[p]
  <2>1. CASE LockType(t)
    <3>1. pc[t].pr = fd.protocol
      BY <2>1 DEF LockType, At, CloseInv, Attached
    <3>2. QED
      BY <2>1, <3>1 DEF LockType, LockInv, Types
  <2>2. CASE Unlock(t)
    BY <2>2 DEF Unlock, LockInv, Types
  <2>3. CASE UNCHANGED locks
    BY <2>3
  <2>4. QED
    BY <2>1, <2>2, <2>3
       DEF TryLock, Unschedule, Suspend, Reschedule, PollAgain, HandlerCloses, PollCloses,
           CloseLock, OsClose
<1>6. QED
  BY <1>1, <1>2, <1>4, <1>5, CloseStaysMore

LEMMA NextClose ==
  ASSUME Sane, ~Slowloris, LockInv, CloseInv, [Next]_vars
  PROVE  CloseInv'
<1>1. CASE UNCHANGED vars \/ PollRead \/ UserTask \/ ForceEvent \/ MarkClose
  <2>1. /\ fd'.protocol = fd.protocol /\ UNCHANGED <<conns, closed, pc, locks>>
        /\ \A u \in Thread : pc[u].at = "locktype" => pc[u].pr = fd.protocol
    BY <1>1 DEF vars, PollRead, UserTask, ForceEvent, MarkClose, Count, LockInv, Types, CloseInv, Attached
  <2>2. queue' = queue \/ \E x \in Tasks : x.kind # "close" /\ queue' = Append(queue, x)
    <3>1. /\ \A force \in BOOLEAN : /\ DataTask(fd.counter, force) \in Tasks
                                    /\ DataTask(fd.counter, force).kind # "close"
          /\ Task("write", fd.counter, 0, FALSE) \in Tasks
          /\ Task("write", fd.counter, 0, FALSE).kind # "close"
      BY NewTasks DEF LockInv, DataTask, Task
    <3>2. QED
      BY <1>1, <3>1 DEF vars, PollRead, UserTask, ForceEvent, MarkClose
  <2>3. QED
    BY <2>1, <2>2, CloseStaysMore
<1>2. ASSUME NEW t \in Thread, Step(t) \/ Accept(t) \/ Suspend(t) \/ HandlerCloses(t) \/ PollCloses(t)
      PROVE  CloseInv'
  BY <1>2, TakeCloses, OnCloseCloses, DetachCloses, CalmCloses DEF Step
<1>3. QED
  BY <1>1, <1>2 DEF Next, Attacked

LEMMA InitClose == ASSUME Sane, Init PROVE CloseInv
<1>1. 0 \in 0..MaxConn
  BY DEF Sane
<1>2. Attached
  BY <1>1 DEF Init, Fresh, Idle, Attached
<1>3. /\ \A t \in Thread : pc[t].at # "on_close"
      /\ closed = {} /\ \A p : ~WaitsIn(queue, p)
      /\ QueuedOnce(queue)
  BY DEF Init, Idle, QueuedOnce, WaitsIn
<1>4. QED
  BY <1>2, <1>3 DEF CloseInv, OnePlace, Detached, Waits, Runs

\* on_close of a protocol runs once, alone, and no callback of the protocol
\* starts after it, when connections are detached with the lock only.
THEOREM ConnectionClosedAlone == ASSUME Sane, ~Slowloris PROVE Spec => []ClosedAlone
<1>1. ASSUME LockInv, CloseInv PROVE ClosedAlone
  <2>1. SUFFICES ASSUME NEW p \in Proto
                 PROVE  /\ Cardinality(Pending(p)) + Cardinality(Ending(p))
                             + Cardinality(closed \intersect {p}) <= 1
                        /\ (Ending(p) # {} \/ p \in closed)
                             => \A t \in Thread \ Ending(p) :
                                  pc[t].pr # p \/ pc[t].at \in {"reschedule", "poll"}
    BY DEF ClosedAlone
  <2>2. \A i, j \in Pending(p) : i = j
    BY <1>1 DEF CloseInv, OnePlace, QueuedOnce, Pending
  <2>3. \A t, u \in Ending(p) : t = u
    BY <1>1 DEF CloseInv, OnePlace, Ending
  <2>4. \A x, y \in closed \intersect {p} : x = y
    OBVIOUS
  <2>5. /\ Pending(p) # {} => Ending(p) = {} /\ closed \intersect {p} = {}
        /\ Ending(p) # {} => closed \intersect {p} = {}
    BY <1>1 DEF CloseInv, OnePlace, Waits, WaitsIn, Runs, Pending, Ending
  <2>6. Cardinality({}) = 0
    BY FS_EmptySet
  <2>7. /\ Cardinality(Pending(p)) \in Nat /\ Cardinality(Pending(p)) <= 1
        /\ Cardinality(Ending(p)) \in Nat /\ Cardinality(Ending(p)) <= 1
        /\ Cardinality(closed \intersect {p}) \in Nat /\ Cardinality(closed \intersect {p}) <= 1
    <3>1. Cardinality(Pending(p)) \in Nat /\ Cardinality(Pending(p)) <= 1
      BY <2>2, AtMostOne, Zenon
    <3>2. Cardinality(Ending(p)) \in Nat /\ Cardinality(Ending(p)) <= 1
      BY <2>3, AtMostOne, Zenon
    <3>3. Cardinality(closed \intersect {p}) \in Nat /\ Cardinality(closed \intersect {p}) <= 1
      BY <2>4, AtMostOne, Zenon
    <3>4. QED
      BY <3>1, <3>2, <3>3
  <2>8. Cardinality(Pending(p)) + Cardinality(Ending(p)) + Cardinality(closed \intersect {p}) <= 1
    <3> HIDE DEF Pending, Ending
    <3>1. CASE Pending(p) # {}
      <4>1. Cardinality(Ending(p)) = 0 /\ Cardinality(closed \intersect {p}) = 0
        BY <2>5, <2>6, <3>1
      <4>2. QED
        BY <2>7, <4>1
    <3>2. CASE Pending(p) = {} /\ Ending(p) # {}
      <4>1. Cardinality(Pending(p)) = 0 /\ Cardinality(closed \intersect {p}) = 0
        BY <2>5, <2>6, <3>2
      <4>2. QED
        BY <2>7, <4>1
    <3>3. CASE Pending(p) = {} /\ Ending(p) = {}
      <4>1. Cardinality(Pending(p)) = 0 /\ Cardinality(Ending(p)) = 0
        BY <2>6, <3>3
      <4>2. QED
        BY <2>7, <4>1
    <3>4. QED
      BY <3>1, <3>2, <3>3
  <2>9. ASSUME Ending(p) # {} \/ p \in closed, NEW t \in Thread \ Ending(p), pc[t].pr = p
        PROVE  pc[t].at \in {"reschedule", "poll"}
    <3>1. Runs(p) \/ p \in closed
      BY <2>9 DEF Ending, Runs
    <3>2. /\ locks[p] = {} /\ p # fd.protocol /\ p # 0
          /\ pc[t].at \in Places /\ pc[t].back \in {"idle", "handler"} /\ Placed(t)
      BY <1>1, <3>1 DEF CloseInv, Detached, LockInv, Types, Proto
    <3>3. ~Inside(t)
      BY <2>9, <3>2 DEF Placed
    <3>4. pc[t].at # "on_close"
      BY <2>9 DEF Ending
    <3>5. pc[t].at # "locktype"
      BY <1>1, <2>9, <3>2 DEF CloseInv, Attached
    <3>6. QED
      BY <2>9, <3>2, <3>3, <3>4, <3>5 DEF Placed, Places, Inside
  <2>10. QED
    BY <2>8, <2>9
<1>2. Spec => [](LockInv /\ CloseInv)
  BY InitLock, NextLock, InitClose, NextClose, PTL DEF Spec
<1>3. QED
  BY <1>1, <1>2, PTL

\* All that the locks of a protocol promise: one thread for each kind of callback, and
\* none besides on_close and after it where connections are detached with the lock only.
THEOREM ConnectionUsedByOne == ASSUME Sane PROVE Spec => []UsedByOne
<1>1. CASE Slowloris
  <2>1. TypeOK /\ OneAtATime => UsedByOne
    BY <1>1 DEF UsedByOne
  <2>2. QED
    BY <2>1, ConnectionTypeOK, ConnectionOneAtATime, PTL
<1>2. CASE ~Slowloris
  <2>1. Spec => []ClosedAlone
    BY <1>2, ConnectionClosedAlone
  <2>2. TypeOK /\ OneAtATime /\ ClosedAlone => UsedByOne
    BY DEF UsedByOne
  <2>3. QED
    BY <2>1, <2>2, ConnectionTypeOK, ConnectionOneAtATime, PTL
<1>3. QED
  BY <1>1, <1>2

----------------------------------------------------------------------------
(***************************************************************************)
(* DataOnItsWay.  An event is on its way to on_data, or an on_data that    *)
(* runs will ask for the next, which it does only if nobody has set        *)
(* `scheduled' since it began; who sets it has an event for on_data.       *)
(***************************************************************************)
Wanted == sock /\ fd.protocol # 0 /\ ~suspended /\ ~fd.close

DataIn(q) == \E i \in DOMAIN q : q[i].kind = "data" /\ Valid(q[i].u)
Brings(t) ==
  /\ pc[t].task.kind = "data"
  /\ \/ pc[t].at \in {"trylock", "locktype"} /\ Valid(pc[t].task.u)
     \/ pc[t].at \in {"unschedule", "poll"}
Asks(t) == pc[t].task.kind = "data" /\ (Inside(t) \/ pc[t].at = "reschedule")

Comes == armed \/ DataIn(queue) \/ \E t \in Thread : Brings(t)
WillAsk == \E t \in Thread : Asks(t)

DataInv == Wanted => Comes \/ (~fd.scheduled /\ WillAsk)

LEMMA DataMore ==
  ASSUME NEW q \in Seq(Tasks), NEW x \in Tasks
  PROVE  /\ DataIn(q) => DataIn(Append(q, x))
         /\ x.kind = "data" /\ Valid(x.u) => DataIn(Append(q, x))
<1> DEFINE r == Append(q, x)
           n == Len(q) + 1
<1>1. /\ DOMAIN r = DOMAIN q \union {n}
      /\ r[n] = x /\ \A i \in DOMAIN q : r[i] = q[i]
  BY Appended
<1> HIDE DEF r, n
<1>2. (DataIn(q) => DataIn(r)) /\ (x.kind = "data" /\ Valid(x.u) => DataIn(r))
  BY <1>1 DEF DataIn
<1>3. QED
  BY <1>2 DEF r

LEMMA DataLess ==
  ASSUME NEW q \in Seq(Tasks), q # <<>>, DataIn(q)
  PROVE  DataIn(Tail(q)) \/ (Head(q).kind = "data" /\ Valid(Head(q).u))
<1> DEFINE r == Tail(q)
<1>1. /\ Head(q) = q[1]
      /\ \A i \in DOMAIN q : i # 1 => i - 1 \in DOMAIN r /\ r[i - 1] = q[i]
  BY Beheaded
<1> HIDE DEF r
<1>2. DataIn(r) \/ (Head(q).kind = "data" /\ Valid(Head(q).u))
  BY <1>1 DEF DataIn
<1>3. QED
  BY <1>2 DEF r

\* A step that takes nothing away.
LEMMA DataStays ==
  ASSUME DataInv, Wanted' => Wanted, fd'.counter = fd.counter,
         fd'.scheduled = fd.scheduled, armed => armed', DataIn(queue) => DataIn(queue)',
         \A u \in Thread : (Brings(u) => Comes') /\ (Asks(u) => Asks(u)')
  PROVE  DataInv'
<1>1. (Comes => Comes') /\ (WillAsk => WillAsk')
  BY DEF Comes, WillAsk
<1>2. QED
  BY <1>1 DEF DataInv

\* A step of t alone; t brought nothing, and still asks if it did.
LEMMA DataStaysWith ==
  ASSUME DataInv, UNCHANGED <<fd, armed, queue>>, Wanted' => Wanted, NEW t \in Thread,
         \A u \in Thread \ {t} : pc'[u] = pc[u], ~Brings(t), Asks(t) => Asks(t)'
  PROVE  DataInv'
<1>1. \A u \in Thread \ {t} : (Brings(u) => Brings(u)') /\ (Asks(u) => Asks(u)')
  BY DEF Brings, Asks, Inside, Valid
<1>2. DataIn(queue) => DataIn(queue)'
  BY DEF DataIn, Valid
<1>3. QED
  BY <1>1, <1>2, DataStays DEF Comes

\* Events and connections arrive.
LEMMA ArriveData ==
  ASSUME Sane, LockInv, DataInv,
         PollRead \/ UserTask \/ ForceEvent \/ \E t \in Thread : Accept(t)
  PROVE  DataInv'
<1>1. queue \in Seq(Tasks) /\ fd.counter \in Nat
  BY DEF LockInv, Types
<1>2. CASE PollRead \/ ForceEvent
  <2>1. PICK force \in BOOLEAN : queue' = Append(queue, DataTask(fd.counter, force))
    BY <1>2 DEF PollRead, ForceEvent
  <2>2. DataTask(fd.counter, force) \in Tasks
    BY NewTasks DEF LockInv
  <2>3. fd'.counter = fd.counter
    BY <1>2 DEF PollRead, ForceEvent, LockInv, Types
  <2>4. DataIn(queue')
    BY <1>1, <2>1, <2>2, DataMore DEF DataTask, Task, Valid
  <2>5. QED
    BY <2>3, <2>4 DEF DataInv, Comes, DataIn, Valid
<1>3. CASE UserTask
  <2>1. /\ queue' = Append(queue, Task("write", fd.counter, 0, FALSE))
        /\ Task("write", fd.counter, 0, FALSE) \in Tasks
        /\ UNCHANGED <<fd, sock, armed, pc, suspended>>
    BY <1>3, NewTasks DEF UserTask, LockInv
  <2>2. DataIn(queue) => DataIn(queue')
    BY <1>1, <2>1, DataMore
  <2>3. DataIn(queue) => DataIn(queue)'
    BY <2>1, <2>2 DEF DataIn, Valid
  <2>4. \A u \in Thread : (Brings(u) => Brings(u)') /\ (Asks(u) => Asks(u)')
    BY <2>1 DEF Brings, Asks, Inside, Valid
  <2>5. QED
    BY <2>1, <2>3, <2>4, DataStays DEF Wanted, Comes
<1>4. CASE \E t \in Thread : Accept(t)
  BY <1>4 DEF Accept, DataInv, Comes
<1>5. QED
  BY <1>2, <1>3, <1>4

\* The oldest task leaves the queue: an event for the connection goes with the thread.
LEMMA TakeData ==
  ASSUME Sane, LockInv, DataInv, NEW t \in Thread, Take(t)
  PROVE  DataInv'
<1> DEFINE task == Head(queue)
<1>1. /\ queue \in Seq(Tasks) /\ queue # <<>> /\ Taken(t, task) /\ task \in Tasks
      /\ pc[t].at = "idle" /\ UNCHANGED <<fd, sock, armed, suspended>>
      /\ Tail(queue) \in Seq(Tasks)
  <2>1. Types /\ queue \in Seq(Tasks)
    BY DEF LockInv, Types
  <2>2. queue # <<>> /\ Taken(t, task) /\ pc[t] = Idle /\ UNCHANGED <<fd, sock, armed, suspended>>
    BY <2>1, TakeMoves
  <2>3. QED
    BY <2>1, <2>2, Beheaded DEF Idle
<1>2. ~Brings(t) /\ ~Asks(t)
  BY <1>1 DEF Brings, Asks, Inside, LockInv, Placed
<1>3. DataIn(queue) => DataIn(Tail(queue)) \/ (task.kind = "data" /\ Valid(task.u))
  BY <1>1, DataLess
<1>4. DataIn(Tail(queue)) => DataIn(queue')
  <2> HIDE DEF task
  <2>1. queue' = Tail(queue) \/ queue' = Append(Tail(queue), task)
    BY <1>1 DEF Taken
  <2>2. QED
    BY <1>1, <2>1, DataMore
<1> HIDE DEF task
<1>5. \A u \in Thread : (Brings(u) => Brings(u)') /\ (Asks(u) => Asks(u)')
  BY <1>1, <1>2 DEF Taken, Now, Brings, Asks, Inside, Valid
<1>6. ASSUME task.kind = "data", Valid(task.u), fd.protocol # 0, ~fd.close PROVE Brings(t)'
  BY <1>1, <1>6 DEF Taken, Now, Brings, Reads, Valid
<1>7. Wanted' => Wanted /\ fd.protocol # 0 /\ ~fd.close
  BY <1>1 DEF Wanted
<1>8. DataIn(queue') => DataIn(queue)'
  BY <1>1 DEF DataIn, Valid
<1>9. Wanted' /\ Comes => Comes'
  BY <1>1, <1>3, <1>4, <1>5, <1>6, <1>7, <1>8 DEF Comes
<1>10. WillAsk => WillAsk'
  BY <1>5 DEF WillAsk
<1>11. QED
  BY <1>1, <1>7, <1>9, <1>10 DEF DataInv

\* A lock is busy: what the thread brought goes back to the queue or to the poll.
LEMMA PostponeData ==
  ASSUME Sane, LockInv, DataInv, NEW t \in Thread, pc[t].at \in {"trylock", "locktype"},
         Postpone(t), UNCHANGED <<fd, sock, suspended>>
  PROVE  DataInv'
<1> DEFINE task == pc[t].task
<1>1. /\ queue \in Seq(Tasks) /\ task \in Tasks /\ armed \in BOOLEAN
      /\ Now(t, "idle", DataTask(0, FALSE), 0, "idle")
  BY DoneIdle DEF LockInv, Types, Postpone
<1>2. ~Asks(t)
  BY DEF Asks, Inside, LockInv, Placed
<1>3. \A u \in Thread \ {t} : (Brings(u) => Brings(u)') /\ (Asks(u) => Asks(u)')
  BY <1>1 DEF Now, Brings, Asks, Inside, Valid
<1>4. (armed => armed') /\ (task.kind = "data" /\ ~task.force /\ sock => armed')
  BY <1>1 DEF Postpone
<1>5. /\ queue' = queue \/ queue' = Append(queue, task)
      /\ task.force => queue' = Append(queue, task)
  BY DEF Postpone
<1> HIDE DEF task
<1>6. /\ DataIn(queue) => DataIn(queue')
      /\ task.force /\ task.kind = "data" /\ Valid(task.u) => DataIn(queue')
  BY <1>1, <1>5, DataMore
<1>7. DataIn(queue') => DataIn(queue)'
  BY DEF DataIn, Valid
<1>8. Brings(t) => task.kind = "data" /\ Valid(task.u)
  BY DEF Brings, task
<1>9. Wanted' /\ Comes => Comes'
  BY <1>3, <1>4, <1>6, <1>7, <1>8 DEF Comes, Wanted
<1>10. WillAsk => WillAsk'
  BY <1>2, <1>3 DEF WillAsk
<1>11. QED
  BY <1>9, <1>10 DEF DataInv, Wanted

\* The lock of the descriptor, and the protocol's.
LEMMA LockData ==
  ASSUME Sane, LockInv, DataInv, NEW t \in Thread, TryLock(t) \/ LockType(t)
  PROVE  DataInv'
<1>1. UNCHANGED <<fd, sock, suspended>> /\ pc[t].at \in {"trylock", "locktype"}
  BY DEF TryLock, LockType, At
<1>2. CASE Postpone(t)
  BY <1>1, <1>2, PostponeData
<1>3. CASE fd.protocol = 0
  BY <1>1, <1>3 DEF DataInv, Wanted
<1>4. CASE UNCHANGED <<queue, armed>> /\ fd.protocol # 0 /\ ~Postpone(t)
  <2>1. \/ Now(t, "locktype", pc[t].task, fd.protocol, pc[t].back) /\ pc[t].at = "trylock"
        \/ Same(t, IF pc[t].task.kind = "data" THEN "unschedule" ELSE "handler")
    <3>1. CASE TryLock(t)
      BY <1>4, <3>1, StepMoves DEF LockInv, TryLock, At, Sane
    <3>2. CASE LockType(t)
      BY <1>4, <3>2, StepMoves DEF LockInv, LockType
    <3>3. QED
      BY <3>1, <3>2
  <2>2. ~Asks(t) /\ \A u \in Thread \ {t} : pc'[u] = pc[u]
    BY <1>1, <2>1 DEF Asks, Inside, LockInv, Placed, Now, Same
  <2>3. Brings(t) => Brings(t)'
    BY <1>1, <2>1 DEF Brings, Now, Same, Valid
  <2>4. \A u \in Thread : (Brings(u) => Brings(u)') /\ (Asks(u) => Asks(u)')
    BY <1>1, <2>2, <2>3 DEF Brings, Asks, Inside, Valid
  <2>5. DataIn(queue) => DataIn(queue)'
    BY <1>1, <1>4 DEF DataIn, Valid
  <2>6. QED
    BY <1>1, <1>4, <2>4, <2>5, DataStays DEF Wanted, Comes
<1>5. QED
  BY <1>2, <1>3, <1>4 DEF TryLock, LockType

\* on_data begins, ends, and asks for the next event.
LEMMA RunData ==
  ASSUME Sane, LockInv, DataInv, NEW t \in Thread,
         OnClose(t) \/ Unschedule(t) \/ Suspend(t) \/ Unlock(t) \/ Reschedule(t) \/ PollAgain(t)
  PROVE  DataInv'
<1>1. Types /\ Placed(t) /\ UNCHANGED <<sock, queue>>
  BY DEF LockInv, OnClose, Unschedule, Suspend, Unlock, Reschedule, PollAgain
<1>2. CASE OnClose(t)
  <2>1. Now(t, "idle", DataTask(0, FALSE), 0, "idle") /\ pc[t].at = "on_close"
    BY <1>1, <1>2, StepMoves DEF OnClose, At
  <2>2. ~Brings(t) /\ ~Asks(t) /\ \A u \in Thread \ {t} : pc'[u] = pc[u]
    BY <1>1, <2>1 DEF Brings, Asks, Inside, Placed, Now
  <2>3. QED
    BY <1>2, <2>2, DataStaysWith DEF OnClose, Wanted
<1>3. CASE Unschedule(t)
  <2>1. Same(t, "handler") /\ pc[t].at = "unschedule" /\ pc[t].task.kind = "data"
    BY <1>1, <1>3, StepMoves DEF Unschedule, At, Placed
  <2>2. ~fd'.scheduled /\ Asks(t)'
    BY <1>1, <1>3, <2>1 DEF Unschedule, Types, Same, Now, Asks, Inside
  <2>3. QED
    BY <2>2 DEF DataInv, WillAsk
<1>4. CASE Suspend(t)
  BY <1>4 DEF Suspend, DataInv, Wanted
<1>5. CASE Unlock(t)
  <2>1. /\ pc[t].at = "handler" /\ UNCHANGED <<fd, armed, suspended>>
        /\ IF pc[t].task.kind = "data" THEN Same(t, "reschedule")
           ELSE Now(t, "idle", DataTask(0, FALSE), 0, "idle")
    BY <1>1, <1>5, StepMoves DEF Unlock, At
  <2>2. ~Brings(t) /\ (Asks(t) => Asks(t)') /\ \A u \in Thread \ {t} : pc'[u] = pc[u]
    BY <2>1 DEF Brings, Asks, Same, Now
  <2>3. QED
    BY <1>1, <2>1, <2>2, DataStaysWith DEF Wanted
<1>6. CASE Reschedule(t)
  <2>1. /\ pc[t].at = "reschedule" /\ UNCHANGED <<armed, suspended>> /\ pc[t].task.kind = "data"
        /\ fd'.counter = fd.counter /\ fd'.protocol = fd.protocol /\ fd'.close = fd.close
    BY <1>1, <1>6 DEF Reschedule, At, Placed, Types
  <2>2. CASE Again
    <3>1. Brings(t)'
      BY <1>1, <1>6, <2>1, <2>2, StepMoves DEF Brings, Same, Now
    <3>2. QED
      BY <3>1 DEF DataInv, Comes
  <2>3. CASE ~Again
    <3>1. Now(t, "idle", DataTask(0, FALSE), 0, "idle")
      BY <1>1, <1>6, <2>3, StepMoves
    <3>2. ~Brings(t)
      BY <2>1 DEF Brings
    <3>3. /\ \A u \in Thread : Brings(u) => Brings(u)'
          /\ DataIn(queue) => DataIn(queue)'
      BY <1>1, <2>1, <3>1, <3>2 DEF Now, Brings, DataIn, Valid
    <3>4. Comes => Comes'
      BY <2>1, <3>3 DEF Comes
    <3>5. QED
      BY <1>1, <2>1, <2>3, <3>4 DEF DataInv, Wanted, Again
  <2>4. QED
    BY <2>2, <2>3
<1>7. CASE PollAgain(t)
  BY <1>7 DEF PollAgain, DataInv, Wanted, Comes
<1>8. QED
  BY <1>2, <1>3, <1>4, <1>5, <1>6, <1>7

\* The connection is closed: nobody wants its data once it is marked, or its protocol
\* detached.
LEMMA CloseData ==
  ASSUME Sane, LockInv, DataInv, NEW t \in Thread,
         \/ HandlerCloses(t) \/ PollCloses(t) \/ CloseLock(t) \/ Clear(t) \/ OsClose(t)
         \/ Attacked(t)
  PROVE  DataInv'
<1>1. Types /\ Placed(t)
  BY DEF LockInv
<1>2. CASE CloseLock(t)
  <2>1. UNCHANGED <<fd, sock, armed, queue, suspended>> /\ Same(t, "clear") /\ pc[t].at = "close"
    BY <1>1, <1>2, StepMoves DEF CloseLock, At
  <2>2. ~Brings(t) /\ (Asks(t) => Asks(t)') /\ \A u \in Thread \ {t} : pc'[u] = pc[u]
    BY <1>1, <2>1 DEF Brings, Asks, Inside, Placed, Same, Now
  <2>3. QED
    BY <2>1, <2>2, DataStaysWith DEF Wanted
<1>3. CASE Clear(t) \/ Attacked(t)
  <2>1. fd'.protocol = 0
    BY <1>3 DEF Clear, Attacked, Detach, Fresh
  <2>2. QED
    BY <2>1 DEF DataInv, Wanted
<1>4. CASE OsClose(t)
  BY <1>4 DEF OsClose, DataInv, Wanted
<1>5. CASE HandlerCloses(t) \/ PollCloses(t)
  <2>1. fd'.close
    BY <1>1, <1>5 DEF HandlerCloses, PollCloses, Closing, Types
  <2>2. QED
    BY <2>1 DEF DataInv, Wanted
<1>6. QED
  BY <1>2, <1>3, <1>4, <1>5

\* A connection that is not suspended is polled, or an event of it is on its way
\* to on_data, also when connections are detached without the lock.
THEOREM ConnectionDataOnItsWay == ASSUME Sane PROVE Spec => []DataOnItsWay
<1>1. ASSUME Init PROVE DataInv
  BY <1>1 DEF Init, DataInv, Wanted
<1>2. ASSUME LockInv, DataInv, [Next]_vars PROVE DataInv'
  <2>1. CASE UNCHANGED vars
    BY <1>2, <2>1 DEF vars, DataInv, Wanted, Comes, WillAsk, DataIn, Brings, Asks, Inside, Valid
  <2>2. CASE MarkClose
    BY <1>2, <2>2 DEF MarkClose, LockInv, Types, DataInv, Wanted
  <2>3. CASE Next /\ ~MarkClose
    BY <1>2, <2>3, ArriveData, TakeData, LockData, RunData, CloseData DEF Next, Step
  <2>4. QED
    BY <1>2, <2>1, <2>2, <2>3
<1>3. ASSUME LockInv, DataInv PROVE DataOnItsWay
  <2>1. ASSUME NEW t \in Thread, Brings(t) \/ Asks(t)
        PROVE  pc[t] # Idle /\ pc[t].task.kind = "data" /\ pc[t].at # "on_close"
    BY <1>3, <2>1 DEF Brings, Asks, Inside, Idle, LockInv, Placed
  <2>2. QED
    BY <1>3, <2>1 DEF DataInv, Wanted, Comes, WillAsk, DataIn, DataOnItsWay
<1>4. Spec => [](LockInv /\ DataInv)
  BY <1>1, <1>2, InitLock, NextLock, PTL DEF Spec
<1>5. QED
  BY <1>3, <1>4, PTL
=============================================================================
