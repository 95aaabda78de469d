---------------------------- MODULE MCProgress ----------------------------
(* What must happen in the end, of the parts of the system that run on their *)
(* own, for one run of TLC: the first state chooses a part and its instance, *)
(* only that one moves, and its fairness is assumed. Two threads; a client   *)
(* is throttled as soon as an answer waits.                                  *)
EXTENDS Naturals, Processes

CONSTANTS Thread, Timer, None

VARIABLES part,
          timers, deferred, running, timer, last_cycle, clock, runs, finished, refused, phase,
          fd, sock_lock, sock, gone, conns, uuid, ready, awaited, io, written, delivered, promised,
          mistaken,
          fd_data, peer, polled, protocol_lock, locks, waiting, where, attached, closed, forced, posted,
          suspended

T == INSTANCE Timers WITH Intervals <- {0, 1}, Repetitions <- {0, 2}, MaxTime <- 2
S == INSTANCE Socket WITH MaxConn <- 1, MaxWrites <- 2, Hangups <- TRUE, armed <- awaited, pc <- io
C == INSTANCE Connection WITH
        MaxConn <- 1, MaxForced <- 1, UserTasks <- 1, Suspends <- FALSE, Slowloris <- FALSE,
        fd <- fd_data, sock <- peer, armed <- polled, queue <- waiting, pc <- where, conns <- attached, tasks <- posted

timerVars == <<timers, deferred, running, timer, last_cycle, clock, runs, finished, refused, phase>>
socketVars == <<fd, sock_lock, sock, gone, conns, uuid, ready, awaited, io, written, delivered,
                promised, mistaken>>
connVars == <<fd_data, peer, polled, protocol_lock, locks, waiting, where, attached, closed, forced,
              posted, suspended>>

Parts == {"workers", "start", "timers", "sent", "closes", "requests", "unwind"}

MCInit ==
    /\ part \in Parts
    /\ Procs!Init /\ Start!Init /\ T!Init /\ S!Init /\ C!Init
    /\ Wind!Init /\ (part # "unwind" => \A c \in Wind!Fd : ~open[c])
    /\ Slow!Init /\ (part # "requests" => last = Slow!Never)

allVars == <<part, rootVars, startVars, timerVars, socketVars, connVars, httpVars, windVars>>

\* The parts that do not move.
Others ==
    /\ UNCHANGED part
    /\ IF part = "workers" THEN TRUE ELSE UNCHANGED rootVars
    /\ IF part = "start" THEN TRUE ELSE UNCHANGED startVars
    /\ IF part = "timers" THEN TRUE ELSE UNCHANGED timerVars
    /\ IF part = "sent" THEN TRUE ELSE UNCHANGED socketVars
    /\ IF part = "closes" THEN TRUE ELSE UNCHANGED connVars
    /\ IF part = "requests" THEN TRUE ELSE UNCHANGED httpVars
    /\ IF part = "unwind" THEN TRUE ELSE UNCHANGED windVars

MCNext ==
    \/ part = "workers" /\ Procs!Next /\ Others
    \/ part = "start" /\ Start!Next /\ Others
    \/ part = "timers" /\ T!Next /\ Others
    \/ part = "sent" /\ S!Next /\ Others
    \/ part = "closes" /\ C!Next /\ Others
    \/ part = "requests" /\ Slow!Next /\ Others
    \/ part = "unwind" /\ Wind!Next /\ Others

\* The fairness of each module, for the part that moves: one condition stands for
\* a condition of each of several modules, since only one of these moves.
Fair1 ==
    \/ part = "workers" /\ Procs!RootStep
    \/ part = "start" /\ Start!Main
    \/ part = "timers" /\ T!Tick
    \/ part = "sent" /\ S!PollWrite
    \/ part = "requests" /\ Slow!PollRead
    \/ part = "unwind" /\ Wind!Performed
Fair2 ==
    \/ part = "workers" /\ \E w \in Procs!Worker : Procs!WorkerStep(w)
    \/ part = "start" /\ \E s \in Start!Slots : Start!Decide(s)
    \/ part = "timers" /\ T!Schedule
Fair3 ==
    \/ part = "workers" /\ \E w \in Procs!Worker : Procs!AcceptLink(w)
    \/ part = "timers" /\ T!Work
Fair4 ==
    \/ part = "workers" /\ \E w \in Procs!Worker : Procs!Reap(w)
    \/ part = "timers" /\ T!ClearAll
GoesOn(t) ==
    \/ part = "sent" /\ S!Step(t)
    \/ part = "closes" /\ (C!Step(t) \/ C!Suspend(t))
    \/ part = "requests" /\ t \in Handlers /\ Slow!Handler(t)
Strong1 ==
    \/ part = "unwind" /\ Wind!Cycle(1)
    \/ \E t \in Thread :
         \/ part = "sent" /\ S!Send(t)
         \/ part = "closes" /\ C!Unlock(t)
         \/ part = "requests" /\ t \in Handlers /\ Slow!Flush(t)
Strong2 == \E t \in Thread :
    \/ part = "sent" /\ S!OnReady(t)
    \/ part = "closes" /\ C!CloseLock(t)
    \/ part = "requests" /\ t \in Handlers /\ Slow!TakeData(t)
Strong3 == \E t \in Thread :
    \/ part = "sent" /\ S!FlushLock(t)
    \/ part = "requests" /\ t \in Handlers /\ Slow!TakeForced(t)
Strong4 == \E t \in Thread :
    \/ part = "requests" /\ t \in Handlers /\ Slow!TakeReady(t)

Moving ==
    CASE part = "workers" -> rootVars [] part = "start" -> startVars
      [] part = "timers" -> timerVars [] part = "sent" -> socketVars
      [] part = "closes" -> connVars [] part = "requests" -> httpVars
      [] part = "unwind" -> windVars
SamePart == UNCHANGED part

MCSpec ==
    /\ MCInit /\ [][MCNext]_allVars
    /\ WF_Moving(Fair1 /\ SamePart) /\ WF_Moving(Fair2 /\ SamePart)
    /\ WF_Moving(Fair3 /\ SamePart) /\ WF_Moving(Fair4 /\ SamePart)
    /\ \A t \in Thread : WF_Moving(GoesOn(t) /\ SamePart)
    /\ SF_Moving(Strong1 /\ SamePart) /\ SF_Moving(Strong2 /\ SamePart)
    /\ SF_Moving(Strong3 /\ SamePart) /\ SF_Moving(Strong4 /\ SamePart)

----------------------------------------------------------------------------
\* The loop of main ends, and the server comes up when the database stays (DbConnect).
StartEnds == part = "start" => Start!StartDecides /\ Start!EventuallyServes

\* A worker that crashes is replaced, and every process ends after a signal or the
\* death of the root (Workers).
WorkersComeAndGo == part = "workers" => Procs!EventuallyRespawned /\ Procs!EventuallyAllEnd

\* What was begun is brought to an end: fio_run_every's on_finish is called at the
\* latest when the process ends (Timers), what fio_write2_fn took is sent or the
\* connection ends (Socket), a protocol that is detached gets its on_close
\* (Connection), a process that is told to stop is done with its clients (WindDown).
NothingStays == (part = "unwind" => Wind!Ends) /\ T!EventuallyFinished /\ S!EventuallySent /\ C!EventuallyClosed

\* http1_consume_data: every request of a client is answered, up to the one that asks
\* to close, and the connection closed then, but for two races that Http1 names.
AllAnswered == Slow!AllAnswered /\ Slow!ClosedAsAsked
=============================================================================
