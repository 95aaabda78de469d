------------------------------- MODULE Http1 -------------------------------
(* A keep-alive HTTP/1.1 connection with pipelined requests: http1_on_data,  *)
(* http1_consume_data and http1_on_ready of src/facil.io/http1.c, run by the *)
(* deferred_on_data and deferred_on_ready_usr of fio.c. A request is whole   *)
(* and has one packet of response; on_data runs under the protocol's task    *)
(* lock and on_ready under its write lock, so they run together.             *)
EXTENDS Naturals, FiniteSets

CONSTANTS Thread,
          MaxRequests, \* bound on the requests the client sends
          Limit,       \* requests parsed by one on_data (8 in the code)
          Throttle,    \* packets pending above which a client is throttled (4)
          Ends,        \* the client may end with a request that closes
          None

VARIABLES
    sent, answered,     \* requests the client sent, responses it received
    wire, buf, pending, \* requests not read, requests not parsed, packets not sent
    last,               \* the request that asks to close, or that cannot be parsed
    late,               \* history: requests handled after it
    missed,             \* history: what came when the one that would see it had looked
    link,               \* whether fd_data.close is set, and the connection gone
    stop,               \* the throttle bit of http1pr_s.stop
    scheduled, armed,   \* fd_data.scheduled, and the poll for reading
    data, forced, ready, \* on_data tasks, forced ones, on_ready tasks in the queue
    task_lock, write_lock,
    pc

Queue == <<data, forced, ready>>
Traffic == <<sent, answered, wire>>
Link == <<last, link, late, missed>>
vars == <<Traffic, buf, pending, Link, stop, scheduled, armed, Queue, task_lock, write_lock, pc>>

Idle == [at |-> "idle", limit |-> 0]

\* With number 0 no request closes.
Never == [number |-> 0, parses |-> TRUE]

Init ==
    /\ sent = 0 /\ answered = 0 /\ wire = 0 /\ buf = 0 /\ pending = 0
    /\ last \in {Never} \union
            IF Ends THEN [number : 1..MaxRequests, parses : BOOLEAN] ELSE {}
    /\ link = "open" /\ late = 0 /\ missed = {}
    /\ stop = FALSE /\ scheduled = FALSE /\ armed = TRUE
    /\ data = 0 /\ forced = 0 /\ ready = FALSE
    /\ task_lock = None /\ write_lock = None
    /\ pc = [t \in Thread |-> Idle]

At(t, at) == pc[t].at = at
Goto(t, at) == pc' = [pc EXCEPT ![t].at = at]
Done(t) == pc' = [pc EXCEPT ![t] = Idle]

----------------------------------------------------------------------------
\* The client sends a request, the reactor sees it.
Request ==
    /\ sent < MaxRequests
    /\ sent' = sent + 1 /\ wire' = wire + 1
    /\ UNCHANGED <<Link, answered, buf, pending, stop, scheduled, armed, Queue, task_lock, write_lock, pc>>

PollRead ==
    /\ armed /\ wire > 0 /\ link # "closed"
    /\ armed' = FALSE /\ data' = data + 1
    /\ UNCHANGED <<Link, Traffic, buf, pending, stop, scheduled, forced, ready, task_lock, write_lock, pc>>

\* After the last packet the connection is closed if it is marked, and on_ready called
\* otherwise.
Drained_Unmarked == ready' = TRUE /\ UNCHANGED link

Drained == IF link = "closing" THEN link' = "closed" /\ UNCHANGED ready
           ELSE ready' = TRUE /\ UNCHANGED link

\* fio_flush sends a packet.
Flush(t) ==
    /\ pc[t] = Idle /\ pending > 0
    /\ pending' = pending - 1 /\ answered' = answered + 1
    /\ IF pending = 1 THEN Drained ELSE UNCHANGED <<link, ready>>
    /\ UNCHANGED <<last, late, missed, sent, wire, buf, stop, scheduled, armed, data, forced, task_lock, write_lock, pc>>

----------------------------------------------------------------------------
\* A thread takes an on_data task, unless the connection is closed or being closed,
\* and only then asks for the lock.
Checked_Not(t, at) == Goto(t, at)
Checked(t, at) == IF link = "open" THEN Goto(t, at) ELSE UNCHANGED pc

TakeData(t) ==
    /\ pc[t] = Idle /\ data > 0
    /\ data' = data - 1 /\ Checked(t, "try")
    /\ UNCHANGED <<Traffic, buf, pending, Link, stop, scheduled, armed, forced, ready, task_lock, write_lock>>

TakeForced(t) ==
    /\ pc[t] = Idle /\ forced > 0
    /\ forced' = forced - 1 /\ Checked(t, "insist")
    /\ UNCHANGED <<Traffic, buf, pending, Link, stop, scheduled, armed, data, ready, task_lock, write_lock>>

TryLock(t) ==
    /\ At(t, "try") \/ At(t, "insist")
    /\ task_lock = None
    /\ task_lock' = t /\ Goto(t, "unschedule")
    /\ UNCHANGED <<Traffic, buf, pending, Link, stop, scheduled, armed, Queue, write_lock>>

\* A busy lock puts a forced task back into the queue and gives any other to the poll.
Postpone(t) ==
    /\ task_lock # None
    /\ \/ At(t, "try") /\ armed' = TRUE /\ UNCHANGED forced
       \/ At(t, "insist") /\ forced' = forced + 1 /\ UNCHANGED armed
    /\ Done(t)
    /\ UNCHANGED <<Traffic, buf, pending, Link, stop, scheduled, data, ready, task_lock, write_lock>>

Unschedule(t) ==
    /\ At(t, "unschedule")
    /\ scheduled' = FALSE
    /\ Goto(t, "on_data")
    /\ UNCHANGED <<Link, Traffic, buf, pending, stop, armed, Queue, task_lock, write_lock>>

\* http1_on_data: a stopped connection is suspended, any other is read.
ReadInto(buf_) == buf_ + wire

OnData(t) ==
    /\ At(t, "on_data")
    /\ IF stop
         THEN Goto(t, "suspend") /\ UNCHANGED <<buf, wire>>
         ELSE /\ Goto(t, "consume")
              /\ IF link = "closed" THEN UNCHANGED <<buf, wire>>
                 ELSE buf' = ReadInto(buf) /\ wire' = 0
    /\ UNCHANGED <<Link, sent, answered, pending, stop, scheduled, armed, Queue, task_lock, write_lock>>

\* http1_consume_data: with too much unsent the client is throttled,
TooMany_Equal == pending > Throttle + 1
TooMany == pending > Throttle

Consume(t) ==
    /\ At(t, "consume")
    /\ pc' = [pc EXCEPT ![t] = [at |-> IF TooMany THEN "throttle" ELSE IF buf = 0 THEN "unlock" ELSE "parse",
                                limit |-> Limit]]
    /\ UNCHANGED <<Link, Traffic, buf, pending, stop, scheduled, armed, Queue, task_lock, write_lock>>

\* but the packets may have gone out since they were counted, and with them the
\* on_ready that is to resume the client (http1.c:715).
NobodyResumes == pending = 0 /\ ~ready /\ \A u \in Thread : ~At(u, "on_ready")

ThrottleClient(t) ==
    /\ At(t, "throttle")
    /\ stop' = TRUE
    /\ missed' = IF NobodyResumes THEN missed \union {"on_ready"} ELSE missed
    /\ Goto(t, "suspend")
    /\ UNCHANGED <<last, link, late, Traffic, buf, pending, scheduled, armed, Queue, task_lock, write_lock>>

Suspend(t) ==
    /\ At(t, "suspend")
    /\ scheduled' = TRUE
    /\ Goto(t, "unlock")
    /\ UNCHANGED <<Link, Traffic, buf, pending, stop, armed, Queue, task_lock, write_lock>>

\* and otherwise a few requests are parsed and answered.
More(buf_, limit) == buf_ > 0 /\ limit > 0 /\ ~stop

\* A request that asks to close is answered and one that cannot be parsed is not; both
\* close the connection, after what is pending, and what follows is not looked at.
IsLast == sent - wire - buf + 1 = last.number
Refused == IsLast /\ ~last.parses
Closes == IsLast \/ link # "open"

\* A response that finds the queue empty is flushed at once, if the kernel has room.
Answered ==
    \/ pending' = pending + 1 /\ UNCHANGED <<answered, ready, link>>
    \/ pending = 0 /\ answered' = answered + 1 /\ UNCHANGED pending /\ Drained

\* After each request http1_consume_data goes on, leaves the rest to another event, or
\* ends.
After(buf_, left) == IF More(buf_, left) THEN "parse" ELSE IF left = 0 THEN "force" ELSE "unlock"

Parse(t) ==
    /\ At(t, "parse")
    /\ IF Refused \/ link = "closed" THEN UNCHANGED <<pending, answered, ready, link>> ELSE Answered
    /\ buf' = IF Refused THEN buf ELSE buf - 1
    /\ late' = IF link = "open" THEN late ELSE late + 1
    /\ LET left == pc[t].limit - 1 IN
       pc' = [pc EXCEPT ![t] = [at |-> IF Closes THEN "close" ELSE After(buf', left), limit |-> left]]
    /\ UNCHANGED <<sent, wire, last, missed, stop, scheduled, armed, data, forced, task_lock, write_lock>>

\* fio_close: with packets it leaves a marker, which the flush that sends the last one
\* is to find, and otherwise it closes. What is left in the buffer is dropped.
Closed(t) == buf' = 0 /\ Goto(t, After(0, pc[t].limit))

Close(t) ==
    /\ At(t, "close")
    /\ IF link # "closed" /\ pending > 0
         THEN Goto(t, "mark") /\ UNCHANGED <<buf, link>>
         ELSE Closed(t) /\ link' = "closed"
    /\ UNCHANGED <<last, late, missed, Traffic, pending, stop, scheduled, armed, Queue, task_lock, write_lock>>

\* The marker is set without the lock: a flush may have sent the last packet and looked
\* for it since (fio.c:2881). fio_force_event has on_ready called then.
Mark(t) ==
    /\ At(t, "mark")
    /\ link' = IF link = "closed" THEN link ELSE "closing"
    /\ missed' = IF link # "closed" /\ pending = 0 THEN missed \union {"close"} ELSE missed
    /\ ready' = (ready \/ (link # "closed" /\ pending = 0))
    /\ Closed(t)
    /\ UNCHANGED <<last, late, Traffic, pending, stop, scheduled, armed, data, forced, task_lock, write_lock>>

\* fio_force_event, for what is left in the buffer.
ForceEvent_Not == UNCHANGED <<scheduled, forced>>
ForceEvent ==
    IF link = "closed" THEN UNCHANGED <<scheduled, forced>>
    ELSE scheduled' = TRUE /\ forced' = forced + 1

ForceRest(t) ==
    /\ At(t, "force")
    /\ ForceEvent
    /\ Goto(t, "unlock")
    /\ UNCHANGED <<Link, Traffic, buf, pending, stop, armed, data, ready, task_lock, write_lock>>

Unlock(t) ==
    /\ At(t, "unlock")
    /\ task_lock' = None
    /\ Goto(t, "reschedule")
    /\ UNCHANGED <<Link, Traffic, buf, pending, stop, scheduled, armed, Queue, write_lock>>

Reschedule(t) ==
    /\ At(t, "reschedule")
    /\ scheduled' = TRUE
    /\ armed' = (armed \/ ~scheduled)
    /\ Done(t)
    /\ UNCHANGED <<Link, Traffic, buf, pending, stop, Queue, task_lock, write_lock>>

----------------------------------------------------------------------------
\* http1_on_ready: a client that was throttled goes on.
TakeReady(t) ==
    /\ pc[t] = Idle /\ ready /\ write_lock = None /\ link # "closed"
    /\ ready' = FALSE
    /\ write_lock' = t /\ Goto(t, "on_ready")
    /\ UNCHANGED <<Link, Traffic, buf, pending, stop, scheduled, armed, data, forced, task_lock>>

Resumed == FALSE

OnReady(t) ==
    /\ At(t, "on_ready")
    /\ IF stop THEN stop' = Resumed /\ Goto(t, "resume") ELSE Goto(t, "leave") /\ UNCHANGED stop
    /\ UNCHANGED <<Link, Traffic, buf, pending, scheduled, armed, Queue, task_lock, write_lock>>

Resume(t) ==
    /\ At(t, "resume")
    /\ ForceEvent
    /\ Goto(t, "leave")
    /\ UNCHANGED <<Link, Traffic, buf, pending, stop, armed, data, ready, task_lock, write_lock>>

Leave(t) ==
    /\ At(t, "leave")
    /\ write_lock' = None
    /\ Done(t)
    /\ UNCHANGED <<Link, Traffic, buf, pending, stop, scheduled, armed, Queue, task_lock>>

----------------------------------------------------------------------------
\* A call goes on; an idle thread takes a task.
Handler(t) ==
    \/ TryLock(t) \/ Postpone(t) \/ Unschedule(t) \/ OnData(t) \/ Consume(t) \/ ThrottleClient(t) \/ Suspend(t)
    \/ Parse(t) \/ Close(t) \/ Mark(t) \/ ForceRest(t) \/ Unlock(t) \/ Reschedule(t) \/ OnReady(t) \/ Resume(t) \/ Leave(t)

Next ==
    \/ Request \/ PollRead
    \/ \E t \in Thread : Flush(t) \/ TakeData(t) \/ TakeForced(t) \/ TakeReady(t) \/ Handler(t)

Spec == Init /\ [][Next]_vars

\* Handlers return, tasks are taken in turn, the reactor polls and the client reads.
Fairness ==
    /\ WF_vars(PollRead) /\ \A t \in Thread : WF_vars(Handler(t))
    /\ SF_vars(\E t \in Thread : Flush(t))
    /\ SF_vars(\E t \in Thread : TakeData(t))
    /\ SF_vars(\E t \in Thread : TakeForced(t))
    /\ SF_vars(\E t \in Thread : TakeReady(t))
FairSpec == Spec /\ Fairness

----------------------------------------------------------------------------
TypeOK ==
    /\ {sent, answered, wire, buf, pending} \subseteq 0..MaxRequests
    /\ link = "open" => sent = answered + wire + buf + pending
    /\ link = "closed" => pending = 0
    /\ link \in {"open", "closing", "closed"}
    /\ {stop, scheduled, armed, ready} \subseteq BOOLEAN
    /\ data \in Nat /\ forced \in Nat /\ missed \subseteq {"on_ready", "close"}
    /\ {task_lock, write_lock} \subseteq Thread \union {None}
    /\ \A t \in Thread : pc[t].limit \in 0..Limit

\* However fast a client sends and slow it reads, on_data leaves no more than one
\* batch of responses in memory above the throttle.
PendingBounded == pending <= Throttle + Limit

\* Requests that are to be answered: up to the one that asks to close, or the one
\* before what cannot be parsed.
Wanted == IF last.number = 0 \/ sent < last.number THEN sent
          ELSE IF last.parses THEN last.number ELSE last.number - 1

\* Every request a client sends is answered: what the batch limit or the throttle
\* leaves in the buffer is taken up again (http1.c:746: on_ready is there to "resume
\* slow clients from suspension"), unless on_ready came before the client was
\* suspended. A connection that is to be closed is closed, unless the marker came
\* after the last flush.
AllAnswered == <>[]("on_ready" \notin missed => answered >= Wanted)
ClosedAsAsked == <>[](missed = {} /\ 0 < last.number /\ last.number <= sent => link = "closed")

\* deferred_on_data looks at the connection before it has the lock, so a request that
\* was sent after the one that closes can still be handled, but only one by each of
\* the other threads, and none when there is one thread.
LateBounded == late <= Cardinality(Thread) - 1
=============================================================================
