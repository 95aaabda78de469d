---------------------------- MODULE Connection ----------------------------
(* The read side of a facil.io connection (src/facil.io/fio.c): the protocol *)
(* attached to a descriptor, its locks, and the threads that take the tasks  *)
(* of the reactor from the queue and run the protocol's callbacks. A section *)
(* under protocol_lock is two steps, since the others only try that lock.    *)
EXTENDS Naturals, Sequences, FiniteSets

CONSTANTS Thread,
          MaxConn,    \* bound on the connections accepted, each with its protocol
          MaxForced,  \* bound on the events forced
          UserTasks,  \* bound on the on_ready and ping tasks
          Suspends,   \* handlers call fio_suspend
          Slowloris,  \* fio_flush detaches a connection that drains too slowly
          None

Proto == 1..MaxConn

VARIABLES
    fd,            \* fd_data: counter, open, close, scheduled, protocol (0 for none)
    sock,          \* the kernel has a connection at the descriptor
    armed,         \* the poll for reading is in force (EPOLLONESHOT)
    protocol_lock, \* the thread that has it
    locks,         \* prt_meta(pr).locks of each protocol
    queue,         \* the reactor's tasks, oldest first
    pc,            \* what each thread is doing
    conns,         \* protocols attached so far
    closed,        \* protocols whose on_close has run
    forced, tasks, \* events forced and user tasks made so far
    suspended      \* the connection was suspended and no event forced since

vars == <<fd, sock, armed, protocol_lock, locks, queue, pc, conns, closed, forced, tasks, suspended>>
Count == <<conns, forced, tasks>>

\* A task: its handler, the lock it asks for, its handle, its protocol, forced.
Task(kind, u, pr, force) == [kind |-> kind, u |-> u, pr |-> pr, force |-> force]
DataTask(u, force) == Task("data", u, 0, force)
Idle == [at |-> "idle", task |-> DataTask(0, FALSE), pr |-> 0, back |-> "idle"]
Fresh(counter, is_open) ==
    [counter |-> counter, open |-> is_open, close |-> FALSE, scheduled |-> FALSE, protocol |-> 0]

Init ==
    /\ fd = Fresh(0, FALSE) /\ sock = FALSE /\ armed = FALSE
    /\ protocol_lock = None /\ locks = [p \in Proto |-> {}]
    /\ queue = <<>> /\ pc = [t \in Thread |-> Idle]
    /\ conns = 0 /\ closed = {} /\ forced = 0 /\ tasks = 0 /\ suspended = FALSE

At(t, at) == pc[t].at = at
Goto(t, at) == pc' = [pc EXCEPT ![t].at = at]
Done(t) == pc' = [pc EXCEPT ![t] = Idle]
Valid(u) == u = fd.counter

\* fio_clear_fd counts the descriptor up and leaves the protocol's on_close behind.
WithClose_Never(tasks_) == tasks_

WithClose(tasks_) == IF fd.protocol = 0 THEN tasks_
                     ELSE Append(tasks_, Task("close", fd.counter + 1, fd.protocol, FALSE))
Detach == fd' = Fresh(fd.counter + 1, FALSE) /\ queue' = WithClose(queue)

----------------------------------------------------------------------------
\* fio_accept and fio_attach: the next connection gets the descriptor, a handle, a
\* protocol and a place in the poll.
Accept(t) ==
    /\ pc[t] = Idle /\ ~sock /\ conns < MaxConn /\ protocol_lock = None
    /\ sock' = TRUE /\ conns' = conns + 1
    /\ fd' = [Fresh(fd.counter + 1, TRUE) EXCEPT !.protocol = conns + 1]
    /\ queue' = WithClose(queue)
    /\ armed' = TRUE /\ suspended' = FALSE
    /\ UNCHANGED <<protocol_lock, locks, pc, closed, forced, tasks>>

\* fio_poll: an event to read becomes a task, with the handle of that moment.
PollRead ==
    /\ armed /\ sock
    /\ armed' = FALSE
    /\ queue' = Append(queue, DataTask(fd.counter, FALSE))
    /\ UNCHANGED <<fd, sock, protocol_lock, locks, pc, closed, Count, suspended>>

\* on_ready and ping tasks come from the poll, the flush and the timeout review.
UserTask ==
    /\ tasks < UserTasks /\ fd.open
    /\ tasks' = tasks + 1
    /\ queue' = Append(queue, Task("write", fd.counter, 0, FALSE))
    /\ UNCHANGED <<fd, sock, armed, protocol_lock, locks, pc, conns, closed, forced, suspended>>

\* fio_force_event, from whoever has the handle.
ForceEvent ==
    /\ forced < MaxForced /\ fd.open
    /\ forced' = forced + 1
    /\ fd' = [fd EXCEPT !.scheduled = TRUE]
    /\ queue' = Append(queue, DataTask(fd.counter, TRUE))
    /\ suspended' = FALSE
    /\ UNCHANGED <<sock, armed, protocol_lock, locks, pc, conns, closed, tasks>>

----------------------------------------------------------------------------
\* A thread takes the oldest task. A data task is for an open connection only, one not
\* marked for closing (fio_is_closed); a task of on_close waits for the locks of its
\* protocol.
Reads(u) == Valid(u) /\ ~fd.close /\ fd.protocol # 0

Unused_Task(p) == "data" \notin locks[p]
Unused(p) == locks[p] = {}

Take(t) ==
    /\ pc[t] = Idle /\ queue # <<>>
    /\ LET task == Head(queue) IN
        \/ /\ (task.kind = "data" /\ Reads(task.u)) \/ task.kind = "write"
           /\ pc' = [pc EXCEPT ![t] = [Idle EXCEPT !.at = "trylock", !.task = task]]
           /\ queue' = Tail(queue)
        \/ /\ task.kind = "data" /\ ~Reads(task.u)
           /\ UNCHANGED pc
           /\ queue' = Tail(queue)
        \/ /\ task.kind = "close" /\ Unused(task.pr)
           /\ pc' = [pc EXCEPT ![t] = [Idle EXCEPT !.at = "on_close", !.task = task, !.pr = task.pr]]
           /\ queue' = Tail(queue)
        \/ /\ task.kind = "close" /\ ~Unused(task.pr)
           /\ UNCHANGED pc
           /\ queue' = Append(Tail(queue), task)
    /\ UNCHANGED <<fd, sock, armed, protocol_lock, locks, closed, Count, suspended>>

OnClose(t) ==
    /\ At(t, "on_close")
    /\ closed' = closed \union {pc[t].pr}
    /\ Done(t)
    /\ UNCHANGED <<fd, sock, armed, protocol_lock, locks, queue, Count, suspended>>

\* A lock is busy: a forced event and an on_ready go back to the queue, any other
\* event to the poll.
Postpone(t) ==
    LET task == pc[t].task IN
    /\ queue' = IF task.kind = "write" \/ task.force THEN Append(queue, task) ELSE queue
    /\ armed' = (armed \/ (task.kind = "data" /\ ~task.force /\ sock))
    /\ Done(t)

\* protocol_try_lock reads the protocol of the descriptor, whoever has it by now,
TryLock(t) ==
    /\ At(t, "trylock")
    /\ \/ /\ protocol_lock # None
          /\ Postpone(t)
          /\ UNCHANGED protocol_lock
       \/ /\ protocol_lock = None /\ fd.protocol = 0
          /\ Done(t)
          /\ UNCHANGED <<queue, armed, protocol_lock>>
       \/ /\ protocol_lock = None /\ fd.protocol # 0
          /\ protocol_lock' = t
          /\ pc' = [pc EXCEPT ![t].at = "locktype", ![t].pr = fd.protocol]
          /\ UNCHANGED <<queue, armed>>
    /\ UNCHANGED <<fd, sock, locks, closed, Count, suspended>>

\* and takes the protocol's lock for this kind of task.
Takeable_Always(t) == TRUE
Takeable(t) == pc[t].task.kind \notin locks[pc[t].pr]

LockType(t) ==
    /\ At(t, "locktype")
    /\ protocol_lock' = None
    /\ IF Takeable(t)
         THEN /\ locks' = [locks EXCEPT ![pc[t].pr] = @ \union {pc[t].task.kind}]
              /\ Goto(t, IF pc[t].task.kind = "data" THEN "unschedule" ELSE "handler")
              /\ UNCHANGED <<queue, armed>>
         ELSE Postpone(t) /\ UNCHANGED locks
    /\ UNCHANGED <<fd, sock, closed, Count, suspended>>

\* deferred_on_data lets go of `scheduled` and calls on_data,
Unschedule(t) ==
    /\ At(t, "unschedule")
    /\ fd' = [fd EXCEPT !.scheduled = FALSE]
    /\ Goto(t, "handler")
    /\ UNCHANGED <<sock, armed, protocol_lock, locks, queue, closed, Count, suspended>>

\* in which the connection may be suspended,
Suspend(t) ==
    /\ Suspends /\ At(t, "handler") /\ pc[t].task.kind = "data" /\ Valid(pc[t].task.u)
    /\ fd' = [fd EXCEPT !.scheduled = TRUE]
    /\ suspended' = TRUE
    /\ UNCHANGED <<sock, armed, protocol_lock, locks, queue, pc, closed, Count>>

\* lets go of the protocol,
Unlock(t) ==
    /\ At(t, "handler")
    /\ locks' = [locks EXCEPT ![pc[t].pr] = @ \ {pc[t].task.kind}]
    /\ IF pc[t].task.kind = "data" THEN Goto(t, "reschedule") ELSE Done(t)
    /\ UNCHANGED <<fd, sock, armed, protocol_lock, queue, closed, Count, suspended>>

\* and polls again unless the connection is suspended or an event is forced.
Again_Taken == fd.scheduled
Again == ~fd.scheduled

Reschedule(t) ==
    /\ At(t, "reschedule")
    /\ fd' = [fd EXCEPT !.scheduled = TRUE]
    /\ IF Again THEN Goto(t, "poll") ELSE Done(t)
    /\ UNCHANGED <<sock, armed, protocol_lock, locks, queue, closed, Count, suspended>>

PollAgain(t) ==
    /\ At(t, "poll")
    /\ armed' = sock
    /\ Done(t)
    /\ UNCHANGED <<fd, sock, protocol_lock, locks, queue, closed, Count, suspended>>

----------------------------------------------------------------------------
\* fio_close with packets in the queue, from whoever has the handle, leaves a marker.
MarkClose ==
    /\ fd.open /\ ~fd.close
    /\ fd' = [fd EXCEPT !.close = TRUE]
    /\ UNCHANGED <<sock, armed, protocol_lock, locks, queue, pc, closed, Count, suspended>>

\* fio_force_close, from a handler or, with an error or after the last packet of a
\* marked connection, from the reactor: the test of the handle, the section under
\* protocol_lock that detaches the protocol and leaves its on_close in the queue, and
\* the close.
Closing(t, back) ==
    /\ fd' = [fd EXCEPT !.close = TRUE]
    /\ pc' = [pc EXCEPT ![t].at = "close", ![t].back = back]

HandlerCloses(t) ==
    /\ At(t, "handler") /\ Valid(pc[t].task.u)
    /\ Closing(t, "handler")
    /\ UNCHANGED <<sock, armed, protocol_lock, locks, queue, closed, Count, suspended>>

PollCloses(t) ==
    /\ pc[t] = Idle /\ fd.open /\ (fd.close \/ (sock /\ armed))
    /\ Closing(t, "idle")
    /\ UNCHANGED <<sock, armed, protocol_lock, locks, queue, closed, Count, suspended>>

CloseLock(t) ==
    /\ At(t, "close") /\ protocol_lock = None
    /\ protocol_lock' = t
    /\ Goto(t, "clear")
    /\ UNCHANGED <<fd, sock, armed, locks, queue, closed, Count, suspended>>

Clear(t) ==
    /\ At(t, "clear")
    /\ Detach
    /\ protocol_lock' = None
    /\ Goto(t, "osclose")
    /\ UNCHANGED <<sock, armed, locks, closed, Count, suspended>>

OsClose(t) ==
    /\ At(t, "osclose")
    /\ sock' = FALSE /\ armed' = FALSE
    /\ IF pc[t].back = "idle" THEN Done(t)
       ELSE pc' = [pc EXCEPT ![t].at = "handler", ![t].back = "idle"]
    /\ UNCHANGED <<fd, protocol_lock, locks, queue, closed, Count, suspended>>

\* fio_flush takes a slow reader for an attacker: fio_clear_fd without the lock.
Attacked(t) ==
    /\ Slowloris /\ pc[t] = Idle /\ fd.open
    /\ Detach
    /\ UNCHANGED <<sock, armed, protocol_lock, locks, pc, closed, Count, suspended>>

----------------------------------------------------------------------------
Step(t) ==
    \/ Take(t) \/ OnClose(t) \/ TryLock(t) \/ LockType(t) \/ Unschedule(t) \/ Unlock(t)
    \/ Reschedule(t) \/ PollAgain(t) \/ CloseLock(t) \/ Clear(t) \/ OsClose(t)

Next ==
    \/ PollRead \/ UserTask \/ ForceEvent \/ MarkClose
    \/ \E t \in Thread :
        Step(t) \/ Accept(t) \/ Suspend(t) \/ HandlerCloses(t) \/ PollCloses(t) \/ Attacked(t)

Spec == Init /\ [][Next]_vars

\* The threads of the pool go on and every handler returns; a forced event or an
\* on_ready that finds the lock busy gets it in the end.
Fairness ==
    /\ \A t \in Thread : WF_vars(Step(t) \/ Suspend(t))
    /\ SF_vars(\E t \in Thread : Unlock(t))
    /\ SF_vars(\E t \in Thread : CloseLock(t))
FairSpec == Spec /\ Fairness

----------------------------------------------------------------------------
TypeOK ==
    /\ fd \in [counter : Nat, open : BOOLEAN, close : BOOLEAN, scheduled : BOOLEAN, protocol : 0..MaxConn]
    /\ sock \in BOOLEAN /\ armed \in BOOLEAN /\ suspended \in BOOLEAN
    /\ protocol_lock \in Thread \union {None}
    /\ \A t \in Thread : protocol_lock = t <=> pc[t].at \in {"locktype", "clear"}
    /\ \A p \in Proto : locks[p] \subseteq {"data", "write"}
    /\ closed \subseteq Proto

\* Threads inside a callback of p, those in its on_close, and the on_close tasks.
In(p, kind) ==
    {t \in Thread : /\ pc[t].pr = p /\ pc[t].task.kind = kind
                    /\ \/ pc[t].at \in {"unschedule", "handler"}
                       \/ pc[t].back = "handler"}
Ending(p) == {t \in Thread : pc[t].at = "on_close" /\ pc[t].pr = p}
Pending(p) == {i \in DOMAIN queue : queue[i].kind = "close" /\ queue[i].pr = p}

\* fio.h 563: on_data "will not run concurrently", and neither does an on_ready or
\* ping with another, though events, forced events and handles of the descriptor's
\* earlier connections all lead to the same protocol.
OneAtATime == \A p \in Proto, kind \in {"data", "write"} : Cardinality(In(p, kind)) <= 1

\* fio.h 586: on_close "will not run concurrently": it runs once, not while another
\* callback of the protocol does, and none starts once it has run (it frees the
\* protocol).
ClosedAlone ==
    \A p \in Proto :
        /\ Cardinality(Pending(p)) + Cardinality(Ending(p)) + Cardinality(closed \intersect {p}) <= 1
        /\ (Ending(p) # {} \/ p \in closed)
             => \A t \in Thread \ Ending(p) : pc[t].pr # p \/ pc[t].at \in {"reschedule", "poll"}

\* All of this together: a protocol is used by one thread at a time for each kind of
\* callback, and by nobody once it has been closed, as long as the attack branch of
\* fio_flush, which does not ask for the lock, is not taken.
UsedByOne == TypeOK /\ OneAtATime /\ (~Slowloris => ClosedAlone)

\* A connection that is not suspended, nor to be closed, is being polled, or an event of
\* the descriptor is on its way to on_data: no order of events, forced events and busy
\* locks leaves it waiting for ever.
DataOnItsWay ==
    sock /\ fd.protocol # 0 /\ ~suspended /\ ~fd.close =>
        \/ armed
        \/ \E i \in DOMAIN queue : queue[i].kind = "data" /\ Valid(queue[i].u)
        \/ \E t \in Thread : pc[t] # Idle /\ pc[t].task.kind = "data" /\ pc[t].at # "on_close"

\* Every protocol that is detached gets its on_close.
EventuallyClosed == \A p \in Proto : [](p <= conns /\ fd.protocol # p => <>(p \in closed))
=============================================================================
