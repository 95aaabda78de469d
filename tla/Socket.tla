------------------------------ MODULE Socket ------------------------------
(* The write side of a facil.io connection (src/facil.io/fio.c): the packets *)
(* queued for one file descriptor, the threads that queue, flush and close,  *)
(* and the connections that have the descriptor one after the other. A       *)
(* section under a lock is one action unless somebody looks at the lock from *)
(* outside; a test made without the lock is an action of its own.            *)
EXTENDS Naturals, Sequences, FiniteSets, SequencesExt

CONSTANTS Thread,
          MaxConn,   \* bound on the connections accepted
          MaxWrites, \* bound on the packets written to a connection
          Hangups,   \* peers close their side
          None

Conn == 1..MaxConn

VARIABLES
    fd,        \* fd_data: counter, open, close, packet
    sock_lock, \* the thread that is flushing
    sock,      \* the connection the kernel has at the descriptor, 0 for none
    gone,      \* connections whose peer has closed
    conns,     \* connections accepted so far
    uuid,      \* the handle of each connection, 0 before it has one
    ready,     \* deferred_on_ready tasks in the queue
    armed,     \* fio_poll_add_write is in force
    pc,        \* what each thread is doing, and for which handle
    written, delivered,  \* packets of each connection
    mistaken,  \* connections marked or closed by a thread that meant an earlier one
    promised   \* packets a connection had been given when fio_close was called, None before

vars == <<fd, sock_lock, sock, gone, conns, uuid, ready, armed, pc, written, delivered, mistaken,
          promised>>
Kernel == <<sock, gone, conns, uuid>>
Data == <<written, delivered, promised, mistaken>>

Idle == [at |-> "idle", u |-> 0, arg |-> 0]
Fresh(counter, is_open) == [counter |-> counter, open |-> is_open, close |-> FALSE, packet |-> <<>>]
Valid(u) == u = fd.counter

Init ==
    /\ fd = Fresh(0, FALSE) /\ sock_lock = None
    /\ sock = 0 /\ gone = {} /\ conns = 0 /\ uuid = [c \in Conn |-> 0]
    /\ ready = {} /\ armed = FALSE
    /\ pc = [t \in Thread |-> Idle]
    /\ written = [c \in Conn |-> <<>>] /\ delivered = [c \in Conn |-> <<>>]
    /\ promised = [c \in Conn |-> None] /\ mistaken = {}

Goto(t, at) == pc' = [pc EXCEPT ![t].at = at]
Start(t, at, u, arg) == pc[t] = Idle /\ pc' = [pc EXCEPT ![t] = [at |-> at, u |-> u, arg |-> arg]]
Done(t) == pc' = [pc EXCEPT ![t] = Idle]
Handles == {uuid[c] : c \in Conn} \ {0}
Of(u) == CHOOSE c \in Conn : uuid[c] = u

----------------------------------------------------------------------------
\* fio_accept, one at a time: the kernel gives the descriptor to a connection ...
Accept(t) ==
    /\ sock = 0 /\ conns < MaxConn /\ \A u \in Thread : pc[u].at # "accepted"
    /\ Start(t, "accepted", 0, 0)
    /\ sock' = conns + 1 /\ conns' = conns + 1
    /\ UNCHANGED <<fd, sock_lock, gone, uuid, ready, armed, Data>>

\* ... fio_clear_fd counts the descriptor up, and that is its handle.
Register(t) ==
    /\ pc[t].at = "accepted" /\ sock_lock = None
    /\ fd' = Fresh(fd.counter + 1, TRUE)
    /\ uuid' = [uuid EXCEPT ![conns] = fd.counter + 1]
    /\ Done(t)
    /\ UNCHANGED <<sock_lock, sock, gone, conns, ready, armed, Data>>

Hangup(c) ==
    /\ Hangups /\ sock = c /\ uuid[c] # 0 /\ c \notin gone
    /\ gone' = gone \union {c}
    /\ UNCHANGED <<fd, sock_lock, sock, conns, uuid, ready, armed, pc, Data>>

----------------------------------------------------------------------------
\* fio_write2_fn: the handle is tested, and again under the lock.
Write(t, u) ==
    /\ u \in Handles /\ Valid(u) /\ Len(written[Of(u)]) < MaxWrites
    /\ Start(t, "write", u, 1)
    /\ UNCHANGED <<fd, sock_lock, Kernel, ready, armed, Data>>

Queued_Unchecked(u) == TRUE
Queued(u) == Valid(u)

Enqueue(t) ==
    LET u == pc[t].u
        c == Of(u)
        packet == <<c, Len(written[c]) + 1>>
    IN  /\ pc[t].at = "write" /\ sock_lock = None
        /\ IF Queued(u) /\ Len(written[c]) < MaxWrites
             THEN /\ fd' = [fd EXCEPT !.packet = Append(@, packet)]
                  /\ written' = [written EXCEPT ![c] = Append(@, packet)]
                  /\ IF fd.packet = <<>> THEN Goto(t, "flush") ELSE Done(t)
             ELSE Done(t) /\ UNCHANGED <<fd, written>>
        /\ UNCHANGED <<sock_lock, Kernel, ready, armed, delivered, promised, mistaken>>

----------------------------------------------------------------------------
\* deferred_on_ready after its fio_flush: more is left, or the lock was busy. It
\* queues itself again after a write, and waits for the kernel otherwise.
Again_Never(t) == Done(t) /\ UNCHANGED <<ready, armed>>

Again(t) ==
    /\ ready' = IF pc[t].arg = 1 THEN ready \union {pc[t].u} ELSE ready
    /\ armed' = (armed \/ (pc[t].arg = 0 /\ sock # 0))
    /\ Done(t)

\* fio_flush tests the handle ...
FlushTest(t) ==
    /\ pc[t].at = "flush"
    /\ IF Valid(pc[t].u) THEN Goto(t, "trylock") ELSE Done(t)
    /\ UNCHANGED <<fd, sock_lock, Kernel, ready, armed, Data>>

\* ... and tries the lock.
FlushBusy(t) ==
    /\ pc[t].at = "trylock" /\ sock_lock # None
    /\ Again(t)
    /\ UNCHANGED <<fd, sock_lock, Kernel, Data>>

\* Nothing is queued: the hook has nothing to flush and the marker is not tested.
FlushNothing(t) ==
    /\ pc[t].at = "trylock" /\ sock_lock = None /\ fd.packet = <<>>
    /\ Done(t)
    /\ UNCHANGED <<fd, sock_lock, Kernel, ready, armed, Data>>

FlushLock(t) ==
    /\ pc[t].at = "trylock" /\ sock_lock = None /\ fd.packet # <<>>
    /\ sock_lock' = t
    /\ Goto(t, "send")
    /\ UNCHANGED <<fd, Kernel, ready, armed, Data>>

\* write_func: the head of the queue goes out ...
Rotated_Last(packets) == Front(packets)
Rotated(packets) == Tail(packets)

Send(t) ==
    /\ pc[t].at = "send" /\ sock # 0 /\ sock \notin gone
    /\ delivered' = [delivered EXCEPT ![sock] = Append(@, Head(fd.packet))]
    /\ fd' = [fd EXCEPT !.packet = Rotated(@)]
    /\ sock_lock' = None
    /\ Goto(t, "test")
    /\ UNCHANGED <<Kernel, ready, armed, written, promised, mistaken>>

\* ... or the kernel has no room, or only for a part ...
SendWouldBlock(t) ==
    /\ pc[t].at = "send" /\ sock # 0 /\ sock \notin gone
    /\ sock_lock' = None
    /\ Again(t)
    /\ UNCHANGED <<fd, Kernel, Data>>

\* ... or the peer (EPIPE), or the descriptor (EBADF), is gone: the connection is closed.
SendFails(t) ==
    /\ pc[t].at = "send" /\ (sock = 0 \/ sock \in gone)
    /\ sock_lock' = None
    /\ fd' = [fd EXCEPT !.close = TRUE]
    /\ Goto(t, "force")
    /\ UNCHANGED <<Kernel, ready, armed, Data>>

\* Any other error, as ECONNRESET, is logged, and 0 returned as if all had been sent.
SendReset(t) ==
    /\ pc[t].at = "send" /\ sock \in gone
    /\ sock_lock' = None
    /\ Done(t)
    /\ UNCHANGED <<fd, Kernel, ready, armed, Data>>

\* The close marker is tested once the lock is free.
Marked_Early == fd.close
Marked == fd.packet = <<>> /\ fd.close

TestClose(t) ==
    /\ pc[t].at = "test"
    /\ IF Marked THEN Goto(t, "force") /\ UNCHANGED <<ready, armed>>
       ELSE IF fd.open /\ fd.packet # <<>> THEN Again(t)
       ELSE Done(t) /\ UNCHANGED <<ready, armed>>
    /\ UNCHANGED <<fd, sock_lock, Kernel, Data>>

\* A thread takes a deferred_on_ready task; the reactor makes one when it can write.
OnReady(t) == \E u \in ready :
    /\ Start(t, "flush", u, 0)
    /\ ready' = ready \ {u}
    /\ UNCHANGED <<fd, sock_lock, Kernel, armed, Data>>

PollWrite ==
    /\ armed /\ sock # 0
    /\ armed' = FALSE /\ ready' = ready \union {fd.counter}
    /\ UNCHANGED <<fd, sock_lock, Kernel, pc, Data>>

----------------------------------------------------------------------------
\* What marks, drops and clears does so to the descriptor's data, which may be those
\* of another connection by then.
NotMeant(t) == {c \in Conn : uuid[c] = fd.counter /\ uuid[c] # pc[t].u}

\* fio_close: with packets, or with the lock taken, it leaves a marker and has the
\* connection flushed ...
Close(t, u) ==
    /\ u \in Handles /\ Valid(u) /\ promised[Of(u)] = None
    /\ Start(t, IF fd.packet # <<>> \/ sock_lock # None THEN "mark" ELSE "force", u, 0)
    /\ promised' = [promised EXCEPT ![Of(u)] = Len(written[Of(u)])]
    /\ UNCHANGED <<fd, sock_lock, Kernel, ready, armed, written, delivered, mistaken>>

Mark(t) ==
    /\ pc[t].at = "mark"
    /\ fd' = [fd EXCEPT !.close = TRUE]
    /\ ready' = IF Valid(pc[t].u) THEN ready \union {pc[t].u} ELSE ready
    /\ mistaken' = mistaken \union NotMeant(t)
    /\ Done(t)
    /\ UNCHANGED <<sock_lock, Kernel, armed, written, delivered, promised>>

\* ... and otherwise, as when the reactor sees that the peer is gone, the
\* connection is closed at once: fio_force_close tests the handle,
HangupEvent(t) ==
    /\ sock \in gone
    /\ Start(t, "force", fd.counter, 0)
    /\ UNCHANGED <<fd, sock_lock, Kernel, ready, armed, Data>>

ForceTest(t) ==
    /\ pc[t].at = "force"
    /\ IF Valid(pc[t].u) THEN Goto(t, "drop") /\ fd' = [fd EXCEPT !.close = TRUE]
       ELSE Done(t) /\ UNCHANGED fd
    /\ UNCHANGED <<sock_lock, Kernel, ready, armed, Data>>

\* drops the packets under the lock,
Drop(t) ==
    /\ pc[t].at = "drop" /\ sock_lock = None
    /\ fd' = [fd EXCEPT !.packet = <<>>]
    /\ mistaken' = mistaken \union NotMeant(t)
    /\ Goto(t, "clear")
    /\ UNCHANGED <<sock_lock, Kernel, ready, armed, written, delivered, promised>>

\* clears the descriptor's data, which ends its handle,
Clear(t) ==
    /\ pc[t].at = "clear" /\ sock_lock = None
    /\ fd' = Fresh(fd.counter + 1, FALSE)
    /\ mistaken' = mistaken \union NotMeant(t)
    /\ Goto(t, "osclose")
    /\ UNCHANGED <<sock_lock, Kernel, ready, armed, written, delivered, promised>>

\* and closes what the kernel has at that descriptor by then.
OsClose(t) ==
    /\ pc[t].at = "osclose"
    /\ sock' = 0 /\ armed' = FALSE
    /\ mistaken' = mistaken \union {c \in Conn : c = sock /\ uuid[c] \in {0, fd.counter}}
    /\ Done(t)
    /\ UNCHANGED <<fd, sock_lock, gone, conns, uuid, ready, written, delivered, promised>>

----------------------------------------------------------------------------
\* The steps of a call that has begun, and the tasks of the queue.
Step(t) ==
    \/ Register(t) \/ Enqueue(t) \/ FlushTest(t) \/ FlushBusy(t) \/ FlushNothing(t)
    \/ FlushLock(t) \/ Send(t) \/ SendWouldBlock(t) \/ SendFails(t) \/ SendReset(t)
    \/ TestClose(t) \/ Mark(t) \/ ForceTest(t) \/ Drop(t) \/ Clear(t) \/ OsClose(t) \/ OnReady(t)

Next ==
    \/ PollWrite
    \/ \E t \in Thread :
        \/ Step(t) \/ Accept(t) \/ HangupEvent(t)
        \/ \E u \in Handles : Write(t, u) \/ Close(t, u)
    \/ \E c \in Conn : Hangup(c)

Spec == Init /\ [][Next]_vars

\* The threads of the pool go on, the reactor polls, and a kernel that is asked
\* again and again has room for a packet in the end.
Fairness ==
    /\ WF_vars(PollWrite) /\ \A t \in Thread : WF_vars(Step(t))
    /\ SF_vars(\E t \in Thread : Send(t))
    /\ SF_vars(\E t \in Thread : OnReady(t))
    /\ SF_vars(\E t \in Thread : FlushLock(t))
FairSpec == Spec /\ Fairness

----------------------------------------------------------------------------
TypeOK ==
    /\ fd \in [counter : Nat, open : BOOLEAN, close : BOOLEAN, packet : Seq(Conn \X (1..MaxWrites))]
    /\ sock_lock \in Thread \union {None} /\ sock \in 0..MaxConn /\ conns \in 0..MaxConn
    /\ ready \subseteq Nat /\ mistaken \subseteq Conn
    /\ \A t \in Thread : sock_lock = t <=> pc[t].at = "send"

\* The packets of a connection that have gone out, to whichever connection.
Sent(c) == UNION {{p[2] : p \in {q \in ToSet(delivered[d]) : q[1] = c}} : d \in Conn}

\* Packets of a connection go out in the order they were written, and to no other
\* connection unless a thread that meant an earlier one has closed theirs.
OwnInOrder ==
    \A c \in Conn : \A i, j \in DOMAIN delivered[c] :
        LET from == delivered[c][i][1] IN
        /\ delivered[c][i] \in ToSet(written[from])
        /\ from = c \/ from \in mistaken
        /\ i < j /\ delivered[c][j][1] = from => delivered[c][i][2] < delivered[c][j][2]

\* fio.h 558: handles "prevent old connection handles from sending data to new
\* connections after a file descriptor is 'recycled' by the OS."
HandlesProtect == \A c \in Conn : ToSet(delivered[c]) \subseteq ToSet(written[c])

\* There is a gap only once fio_force_close has dropped the packets: a packet that
\* is queued between the drop and the clear may still go out.
Dropped(c) == uuid[c] # fd.counter \/ \E t \in Thread : pc[t].u = uuid[c] /\ pc[t].at = "clear"

NoGap ==
    \A c \in Conn \ mistaken : uuid[c] # 0 /\ ~Dropped(c) => \A k \in Sent(c) : 1..k \subseteq Sent(c)

\* fio.h 1081: fio_close disconnects "once all the data was sent": a connection
\* whose peer stays has been sent all it had been given when it was closed.
AllSentBeforeClose ==
    \A c \in Conn \ (gone \union mistaken) :
        uuid[c] # 0 /\ fd.counter > uuid[c] /\ promised[c] # None => 1..promised[c] \subseteq Sent(c)

\* All of this together; a descriptor that has one connection only has none that a call
\* meant for another can strike.
BytesInOrder ==
    TypeOK /\ OwnInOrder /\ NoGap /\ AllSentBeforeClose /\ (MaxConn = 1 => mistaken = {})

\* A packet in the queue is never forgotten: the connection is closed or a flush is
\* on its way, whichever thread saw the lock busy or the kernel full. When the peer is
\* gone this is not so: after a reset (fio.c:3029) the packets stay, and nobody sends
\* them, until the poll reports the hang-up or the connection times out.
FlushOnItsWay ==
    fd.packet # <<>> /\ Head(fd.packet)[1] \notin mistaken \union gone =>
        \/ armed \/ fd.counter \in ready
        \/ \E t \in Thread : /\ pc[t].u = fd.counter
                            /\ pc[t].at \in {"flush", "trylock", "send", "test", "force", "drop", "clear"}

\* Every packet is sent, or its connection ends, or its peer is gone.
EventuallySent ==
    \A c \in Conn : [](uuid[c] # 0 /\ Len(delivered[c]) < Len(written[c])
                       => <>(delivered[c] = written[c] \/ fd.counter # uuid[c] \/ c \in gone))
=============================================================================
