----------------------------- MODULE WindDown -----------------------------
(* The end of a server process in src/facil.io/fio.c. fio_worker_cleanup     *)
(* tells every connection to close and runs the reactor, on one thread,      *)
(* until connection_count says that the connections that were told are gone; *)
(* then it closes what is left. A client that does not take its answer is    *)
(* dropped by the review of timeouts. A task is one action. The link of a    *)
(* worker to the root is not counted when it is told.                        *)
EXTENDS Integers, Sequences, FiniteSets, SequencesExt, FiniteSetsExt

CONSTANTS MaxFd,       \* the connections, by their descriptors
          MaxUnsent,   \* packets a connection can have waiting
          Grace        \* the timeout of a connection that was told, in seconds

Fd == 1..MaxFd

VARIABLES
    links,        \* the connections that are links to the root
    open, unsent, \* of each connection: it has a protocol; packets waiting
    closing,      \* its close flag, set when it is told while packets wait
    counted,      \* it was told, and counted
    age,          \* seconds since it was touched
    armed,        \* the poll for writing is in force
    room,         \* the kernel can take a packet for its client
    hung,         \* its client has hung up
    queue, urgent, \* the tasks of the reactor
    count,        \* connection_count
    need_review,
    new_second,   \* the clock has moved since the last review began
    phase,
    cut,          \* connections closed at the very end with packets waiting
    stray         \* history: a link has been counted down

windVars == <<links, open, unsent, closing, counted, age, armed, room, hung, queue, urgent, count,
              need_review, new_second, phase, cut, stray>>
clientVars == <<room, hung>>
connVars == <<open, unsent, closing, counted, age, armed, count, stray>>
reviewVars == <<need_review, new_second>>

Task(do, c) == [do |-> do, c |-> c]
InOrder(S) ==
    CHOOSE s \in [1..Cardinality(S) -> S] :
        ToSet(s) = S /\ \A i, j \in DOMAIN s : i < j => s[i] < s[j]
AsTasks(do, S) == LET s == InOrder(S) IN [i \in DOMAIN s |-> Task(do, s[i])]

\* fio_worker_cleanup begins: the threads have left the queue empty, so that no review
\* is under way, and every connection is to be told.
Init ==
    /\ open \in [Fd -> BOOLEAN] /\ unsent \in [Fd -> 0..MaxUnsent]
    /\ links \in SUBSET {c \in Fd : open[c] /\ unsent[c] = 0} /\ Cardinality(links) <= 1
    /\ \A c \in Fd : unsent[c] > 0 => open[c]
    /\ closing = [c \in Fd |-> FALSE] /\ counted = [c \in Fd |-> FALSE]
    /\ age \in [Fd -> {0, Grace + 1}]
    /\ \A c \in Fd : age[c] > 0 => unsent[c] > 0
    /\ armed = [c \in Fd |-> unsent[c] > 0]
    /\ room = [c \in Fd |-> unsent[c] = 0]
    /\ hung = [c \in Fd |-> FALSE]
    /\ queue = AsTasks("shutdown", {c \in Fd : open[c]}) \o <<Task("unwind", 0)>>
    /\ urgent = <<>> /\ count = 0 /\ need_review = TRUE /\ new_second = TRUE
    /\ phase = "unwinding" /\ cut = {} /\ stray = FALSE

----------------------------------------------------------------------------
\* The task at hand: fio_defer_perform takes the urgent ones first.
Tasks == urgent \o queue
IsTask(do, c) == phase = "unwinding" /\ Tasks # <<>> /\ Head(Tasks) = Task(do, c)
Rest == IF urgent # <<>> THEN queue ELSE Tail(queue)
UrgentRest == IF urgent # <<>> THEN Tail(urgent) ELSE <<>>
Then(tasks, urgents) == queue' = Rest \o tasks /\ urgent' = UrgentRest \o urgents

\* fio_force_close, for each of S: packets are dropped, and whoever closes counts down.
Closed(S, now) ==
    /\ open' = [c \in Fd |-> open[c] /\ c \notin S]
    /\ unsent' = [c \in Fd |-> IF c \in S THEN 0 ELSE unsent[c]]
    /\ count' = Max({0, now - Cardinality(S)})
    /\ stray' = (stray \/ S \intersect links # {})

\* deferred_on_shutdown: a connection is counted and closed, after what waits for its
\* client if there is any. on_shutdown of a link answers that it stays.
CountsOf_None(c) == 0
CountsOf(c) == IF c \in links THEN 0 ELSE 1

Shutdown(c) ==
    LET goes == IF c \notin links /\ unsent[c] = 0 THEN {c} ELSE {}
        waits == c \notin links /\ unsent[c] > 0 IN
    /\ IsTask("shutdown", c)
    /\ age' = [age EXCEPT ![c] = 0]
    /\ counted' = [counted EXCEPT ![c] = c \notin links]
    /\ closing' = [closing EXCEPT ![c] = waits]
    /\ Closed(goes, count + CountsOf(c))
    /\ Then(<<>>, IF waits THEN <<Task("ready", c)>> ELSE <<>>)
    /\ UNCHANGED <<links, armed, clientVars, reviewVars, phase, cut>>

\* deferred_on_ready: fio_flush sends a packet if the kernel takes it, closes when
\* the last one is sent or the client is gone, and asks for a poll otherwise. It does
\* not touch the connection.
Over(c, left) == hung[c] \/ (left = 0 /\ closing[c])

Ready(c) ==
    LET waits == open[c] /\ unsent[c] > 0
        left == IF room[c] /\ ~hung[c] THEN unsent[c] - 1 ELSE unsent[c] IN
    /\ IsTask("ready", c)
    /\ Then(<<>>, <<>>)
    /\ room' = [room EXCEPT ![c] = @ /\ ~waits]
    /\ IF waits /\ Over(c, left)
         THEN Closed({c}, count) /\ UNCHANGED armed
         ELSE /\ unsent' = [unsent EXCEPT ![c] = IF waits THEN left ELSE @]
              /\ armed' = [armed EXCEPT ![c] = waits /\ left > 0]
              /\ UNCHANGED <<open, count, stray>>
    /\ UNCHANGED <<links, closing, counted, age, hung, reviewVars, phase, cut>>

----------------------------------------------------------------------------
\* fio_poll: hang-ups close, and room becomes an urgent task.
HangUps == {c \in Fd : open[c] /\ hung[c]}
Writable == {c \in Fd \ HangUps : open[c] /\ armed[c] /\ room[c]}

\* fio_cycle_unwind, with fio_cycle_schedule_events: as long as a connection is
\* counted, another turn of the reactor, and a review of the timeouts if none is under
\* way and the second is a new one. A review begins at descriptor 0, which is not open.
Cycle(tick) ==
    LET review == need_review /\ (new_second \/ tick = 1) IN
    /\ IsTask("unwind", 0) /\ count > 0
    /\ age' = [c \in Fd |-> Min({age[c] + tick, Grace + 1})]
    /\ Closed(HangUps, count)
    /\ armed' = [c \in Fd |-> armed[c] /\ c \notin Writable]
    /\ Then((IF review THEN <<Task("review", 0)>> ELSE <<>>) \o <<Task("unwind", 0)>>,
            AsTasks("ready", Writable))
    /\ need_review' = (need_review /\ ~review)
    /\ new_second' = (~review /\ (new_second \/ tick = 1))
    /\ UNCHANGED <<links, closing, counted, clientVars, phase, cut>>

\* fio_cycle_unwind, when all are gone: it is not pushed again.
Stop ==
    /\ IsTask("unwind", 0) /\ count = 0
    /\ Then(<<>>, <<>>)
    /\ UNCHANGED <<links, connVars, clientVars, reviewVars, phase, cut>>

\* fio_review_timeout: a connection past its timeout is pinged, and the next open
\* descriptor is looked at; after the last one a new review may begin. A link has
\* minutes, which are not counted here.
Expired(c) == c \in Fd \ links /\ open[c] /\ age[c] > Grace
NextOpen_Same(c) == {d \in Fd : d >= c /\ open[d]}
NextOpen(c) == {d \in Fd : d > c /\ open[d]}

Review(c) ==
    LET next == NextOpen(c) IN
    /\ IsTask("review", c)
    /\ Then((IF Expired(c) THEN <<Task("ping", c)>> ELSE <<>>)
              \o (IF next # {} THEN <<Task("review", Min(next))>> ELSE <<>>), <<>>)
    /\ need_review' = (next = {})
    /\ UNCHANGED <<links, connVars, clientVars, new_second, phase, cut>>

\* deferred_ping, with mock_ping: the connection is closed with what waits in it, if
\* it has not been touched in the meantime.
Ping(c) ==
    /\ IsTask("ping", c)
    /\ Then(<<>>, <<>>)
    /\ Closed(IF open[c] /\ age[c] >= Grace THEN {c} ELSE {}, count)
    /\ UNCHANGED <<links, closing, counted, age, armed, clientVars, reviewVars, phase, cut>>

\* fio_worker_cleanup goes on when nothing is left to do: what is open is closed.
Finish ==
    /\ phase = "unwinding" /\ Tasks = <<>>
    /\ phase' = "closed"
    /\ cut' = {c \in Fd : open[c] /\ unsent[c] > 0}
    /\ Closed({c \in Fd : open[c]}, count)
    /\ UNCHANGED <<links, closing, counted, age, armed, clientVars, queue, urgent, reviewVars>>

----------------------------------------------------------------------------
\* A client takes what it was sent, or hangs up; the root ends its links.
Reads(c) ==
    /\ phase = "unwinding" /\ open[c] /\ ~room[c]
    /\ room' = [room EXCEPT ![c] = TRUE]
    /\ UNCHANGED <<links, connVars, hung, queue, urgent, reviewVars, phase, cut>>

HangsUp(c) ==
    /\ phase = "unwinding" /\ open[c] /\ ~hung[c]
    /\ hung' = [hung EXCEPT ![c] = TRUE]
    /\ UNCHANGED <<links, connVars, room, queue, urgent, reviewVars, phase, cut>>

Performed ==
    \/ \E c \in Fd : Shutdown(c) \/ Ready(c) \/ Ping(c)
    \/ \E c \in 0..MaxFd : Review(c)
    \/ \E tick \in 0..1 : Cycle(tick)
    \/ Stop \/ Finish
Next == Performed \/ \E c \in Fd : Reads(c) \/ HangsUp(c)

\* The thread runs its tasks, and time passes.
Spec == /\ Init /\ [][Next]_windVars
        /\ WF_windVars(Performed) /\ SF_windVars(Cycle(1))

----------------------------------------------------------------------------
TypeOK ==
    /\ links \subseteq Fd /\ cut \subseteq Fd
    /\ open \in [Fd -> BOOLEAN] /\ unsent \in [Fd -> 0..MaxUnsent]
    /\ closing \in [Fd -> BOOLEAN] /\ counted \in [Fd -> BOOLEAN]
    /\ age \in [Fd -> 0..Grace + 1]
    /\ armed \in [Fd -> BOOLEAN] /\ room \in [Fd -> BOOLEAN] /\ hung \in [Fd -> BOOLEAN]
    /\ count \in 0..MaxFd
    /\ need_review \in BOOLEAN /\ new_second \in BOOLEAN /\ stray \in BOOLEAN
    /\ phase \in {"unwinding", "closed"}
    /\ \A i \in DOMAIN Tasks : Tasks[i].do \in {"shutdown", "ready", "unwind", "review", "ping"}

\* fio_worker_cleanup does not close a connection that has still to send, as long as
\* no link has been counted down: the counter is kept by whoever closes, and a link
\* that was not counted takes a client's place when it goes.
AnswersSent == cut # {} => stray

\* The one poll that would say that a client can take its packet is never lost: it is
\* in force, or deferred_on_ready is on its way.
WaitsWithReason ==
    \A c \in Fd : open[c] /\ counted[c] => \/ armed[c]
                                           \/ Task("ready", c) \in ToSet(urgent)

\* fio_worker_cleanup goes on although clients neither read nor hang up.
Ends == <>(phase = "closed")
=============================================================================
