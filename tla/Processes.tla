----------------------------- MODULE Processes -----------------------------
(* The processes of a server that are proved about: the start of main, the   *)
(* root process and its workers, the end of one of them, and in between the  *)
(* requests of a client that does not read its answers. Each has variables   *)
(* of its own.                                                               *)

CONSTANTS ConnectionsCount, MaxOutages, MaxNulls,
          WorkerCount, MaxForks, MaxCrashes, GroupSignals, RootCrashes,
          MaxFd, MaxUnsent, Grace,
          Handlers,  \* the threads that handle the requests of the client
          MaxRequests, Limit, Throttle, AsksToClose, Nobody

VARIABLES server, pc, state, made, connections, status, slot, all_ok, outages, nulls,
          root, active, signalled, left, respawn, forks, worker, wactive, saved, link, told, reaped,
          crashes,
          links, open, unsent, closing, counted, age, armed, room, hung, queue, urgent, count, need_review,
          new_second, stage, cut, stray,
          sent, answered, last, late, missed, ended, wire, buf, pending, stop, scheduled, reading, data,
          events, drained, task_lock, write_lock, in

Start == INSTANCE DbConnect WITH i <- slot
Procs == INSTANCE Workers
Wind == INSTANCE WindDown WITH phase <- stage
Slow == INSTANCE Http1 WITH
          Thread <- Handlers, None <- Nobody, Ends <- AsksToClose,
          link <- ended, armed <- reading, forced <- events, ready <- drained, pc <- in

startVars == <<server, pc, state, made, connections, status, slot, all_ok, outages, nulls>>
rootVars == <<root, active, signalled, left, respawn, forks, worker, wactive, saved, link, told, reaped,
              crashes>>
windVars == <<links, open, unsent, closing, counted, age, armed, room, hung, queue, urgent, count,
              need_review, new_second, stage, cut, stray>>
httpVars == <<sent, answered, last, late, missed, ended, wire, buf, pending, stop, scheduled, reading, data,
              events, drained, task_lock, write_lock, in>>

----------------------------------------------------------------------------
\* fio_sentinel_task never has more workers than fio_start was told and
\* fio_worker_cleanup leaves none behind (Workers); main serves only when db_stat has
\* seen every connection up, and each is freed once (DbConnect); fio_worker_cleanup
\* lets no connection go that has still to send and that was counted (WindDown).
ProcessesSound ==
    /\ Procs!TypeOK /\ Procs!NeverTooMany /\ Procs!NoneLeftBehind
    /\ Start!TypeOK /\ Start!ServesWhenAllUp /\ Start!FreedOnce
    /\ Wind!TypeOK /\ Wind!AnswersSent /\ Wind!WaitsWithReason

\* What waits for a client that does not read its answers stays bounded (Http1).
PendingBounded == Slow!PendingBounded
=============================================================================
