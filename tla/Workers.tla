------------------------------ MODULE Workers ------------------------------
(* The processes of a facil.io server (fio_start and what it calls in        *)
(* src/facil.io/fio.c): the root process, the workers it forks, respawns and *)
(* ends, the cluster connection of each worker, signals and crashes. With a  *)
(* single worker the root process serves and nothing is forked.              *)
EXTENDS Naturals, FiniteSets

CONSTANTS WorkerCount,  \* .workers of fio_start
          MaxForks,     \* bound on the processes forked
          MaxCrashes,   \* bound on the workers that crash
          GroupSignals, \* a signal reaches the whole process group, not the root only
          RootCrashes   \* the root process may be killed

Worker == 1..MaxForks

VARIABLES
    root,      \* where the root process is in fio_start
    active,    \* its fio_data->active
    signalled, \* it was told to stop, once it was active
    left,      \* workers the loop of fio_start has still to start
    respawn,   \* fio_sentinel_task tasks in its queue
    forks,     \* processes forked so far
    worker,    \* what each worker is doing
    wactive,   \* fio_data->active of each worker
    saved,     \* old_active of fio_on_fork
    link,      \* the cluster connection of each worker
    told,      \* workers with FIO_CLUSTER_MSG_SHUTDOWN on the connection
    reaped,    \* workers waited for
    crashes

Wvars == <<worker, wactive, saved, link, told>>
Rvars == <<root, active, signalled, left, respawn, forks>>
vars == <<Rvars, Wvars, reaped, crashes>>

Ended == {"exited", "crashed"}
Gone == {"done", "killed"}
Alive == {w \in Worker : worker[w] \notin {"none"} \union Ended}

Init ==
    /\ root = "setup" /\ active = FALSE /\ signalled = FALSE
    /\ left = (IF WorkerCount > 1 THEN WorkerCount ELSE 0) /\ respawn = 0 /\ forks = 0
    /\ worker = [w \in Worker |-> "none"] /\ wactive = [w \in Worker |-> FALSE]
    /\ saved = [w \in Worker |-> FALSE] /\ link = [w \in Worker |-> "none"]
    /\ told = {} /\ reaped = {} /\ crashes = 0

----------------------------------------------------------------------------
\* fio_start: the signal handlers are set, then the server is active, and a signal
\* in between is forgotten; ...
Activate ==
    /\ root = "setup"
    /\ root' = "cycle" /\ active' = TRUE
    /\ UNCHANGED <<signalled, left, respawn, forks, Wvars, reaped, crashes>>

\* ... then fio_sentinel_task runs for each worker, and later for each respawn: it
\* tests `active`,
ToStart == left > 0

Sentinel ==
    /\ root = "cycle"
    /\ IF ToStart THEN left' = left - 1 /\ UNCHANGED respawn
       ELSE respawn > 0 /\ respawn' = respawn - 1 /\ UNCHANGED left
    /\ root' = IF active THEN "fork" ELSE "cycle"
    /\ UNCHANGED <<active, signalled, forks, Wvars, reaped, crashes>>

\* and its thread forks under fio_fork_lock. The child has the parent's memory.
Fork ==
    /\ root = "fork" /\ forks < MaxForks
    /\ root' = "cycle" /\ forks' = forks + 1
    /\ worker' = [worker EXCEPT ![forks + 1] = "forked"]
    /\ wactive' = [wactive EXCEPT ![forks + 1] = active]
    /\ UNCHANGED <<active, signalled, left, respawn, saved, link, told, reaped, crashes>>

\* fio_cluster_listen_accept takes the workers' connections.
AcceptLink(w) ==
    /\ root \in {"cycle", "fork"} /\ link[w] = "backlog"
    /\ link' = [link EXCEPT ![w] = "open"]
    /\ UNCHANGED <<Rvars, worker, wactive, saved, told, reaped, crashes>>

\* A sentinel thread has waited for its worker: it asks for another one.
Respawns_Twice == IF active THEN respawn + 2 ELSE respawn
Respawns_Never == respawn
Respawns == IF active THEN respawn + 1 ELSE respawn

Reap(w) ==
    /\ root \notin Gone /\ worker[w] \in Ended /\ w \notin reaped
    /\ reaped' = reaped \union {w}
    /\ respawn' = Respawns
    /\ UNCHANGED <<root, active, signalled, left, forks, Wvars, crashes>>

----------------------------------------------------------------------------
\* fio_worker_cleanup of the root process: on_shutdown of each connection tells the
\* workers it has accepted, ...
Shutdown ==
    /\ root = "cycle" /\ ~active /\ left = 0 /\ respawn = 0
    /\ root' = "close"
    /\ told' = told \union {w \in Worker : link[w] = "open"}
    /\ UNCHANGED <<active, signalled, left, respawn, forks, worker, wactive, saved, link, reaped, crashes>>

\* ... every connection and the listening socket are closed, ...
CloseAll ==
    /\ root = "close"
    /\ root' = IF WorkerCount > 1 THEN "wait" ELSE "done"
    /\ link' = [w \in Worker |-> IF link[w] = "none" THEN "none" ELSE "closed"]
    /\ UNCHANGED <<active, signalled, left, respawn, forks, worker, wactive, saved, told, reaped, crashes>>

\* ... and it waits for its children.
Waited_Never == TRUE
Waited == \A w \in 1..forks : w \in reaped

Finish ==
    /\ root = "wait" /\ Waited
    /\ root' = "done"
    /\ UNCHANGED <<active, signalled, left, respawn, forks, Wvars, reaped, crashes>>

\* fio_stop, by the handler of SIGINT and SIGTERM, in the root or in the whole group.
Signal ==
    /\ ~signalled /\ root \notin Gone
    /\ signalled' = (root # "setup") /\ active' = FALSE
    /\ wactive' = IF GroupSignals THEN [w \in Worker |-> FALSE] ELSE wactive
    /\ UNCHANGED <<root, left, respawn, forks, worker, saved, link, told, reaped, crashes>>

Kill ==
    /\ RootCrashes /\ root \notin {"setup"} \union Gone
    /\ root' = "killed"
    /\ link' = [w \in Worker |-> IF link[w] = "none" THEN "none" ELSE "closed"]
    /\ UNCHANGED <<active, signalled, left, respawn, forks, worker, wactive, saved, told, reaped, crashes>>

----------------------------------------------------------------------------
\* The worker: fio_on_fork sets active aside to run the tasks it has inherited,
SetAside(w) ==
    /\ worker[w] = "forked"
    /\ worker' = [worker EXCEPT ![w] = "purge"]
    /\ saved' = [saved EXCEPT ![w] = wactive[w]]
    /\ wactive' = [wactive EXCEPT ![w] = FALSE]
    /\ UNCHANGED <<Rvars, link, told, reaped, crashes>>

\* and puts it back, whatever signal has come in between;
PutBack(w) ==
    /\ worker[w] = "purge"
    /\ worker' = [worker EXCEPT ![w] = "connect"]
    /\ wactive' = [wactive EXCEPT ![w] = saved[w]]
    /\ UNCHANGED <<Rvars, saved, link, told, reaped, crashes>>

\* fio_connect2cluster: with nobody listening any more the worker stops, and the root.
Listening == root \in {"cycle", "fork", "close"}
RefusedStops_Not(w) == wactive[w]
RefusedStops(w) == FALSE

Connect(w) ==
    /\ worker[w] = "connect"
    /\ worker' = [worker EXCEPT ![w] = "cycle"]
    /\ IF Listening
         THEN link' = [link EXCEPT ![w] = "backlog"] /\ UNCHANGED <<wactive, active>>
         ELSE wactive' = [wactive EXCEPT ![w] = RefusedStops(w)] /\ active' = FALSE /\ UNCHANGED link
    /\ UNCHANGED <<root, signalled, left, respawn, forks, saved, told, reaped, crashes>>

\* fio_cluster_client_handler: the message stops the worker,
Told(w) ==
    /\ worker[w] = "cycle" /\ w \in told
    /\ told' = told \ {w}
    /\ wactive' = [wactive EXCEPT ![w] = FALSE]
    /\ UNCHANGED <<Rvars, worker, saved, link, reaped, crashes>>

\* and so does fio_cluster_on_close: "Parent Process crash detected!"
LinkLost(w) ==
    /\ worker[w] = "cycle" /\ link[w] = "closed"
    /\ link' = [link EXCEPT ![w] = "none"]
    /\ wactive' = [wactive EXCEPT ![w] = FALSE]
    /\ UNCHANGED <<Rvars, worker, saved, told, reaped, crashes>>

\* fio_cycle ends, the worker cleans up and exits.
Exit(w) ==
    /\ worker[w] = "cycle" /\ ~wactive[w]
    /\ worker' = [worker EXCEPT ![w] = "exited"]
    /\ link' = [link EXCEPT ![w] = "none"]
    /\ UNCHANGED <<Rvars, wactive, saved, told, reaped, crashes>>

Crash(w) ==
    /\ w \in Alive /\ crashes < MaxCrashes
    /\ crashes' = crashes + 1
    /\ worker' = [worker EXCEPT ![w] = "crashed"]
    /\ link' = [link EXCEPT ![w] = "none"]
    /\ UNCHANGED <<Rvars, wactive, saved, told, reaped>>

----------------------------------------------------------------------------
RootStep == Activate \/ Sentinel \/ Fork \/ Shutdown \/ CloseAll \/ Finish
WorkerStep(w) == SetAside(w) \/ PutBack(w) \/ Connect(w) \/ Told(w) \/ LinkLost(w) \/ Exit(w)

Next ==
    \/ RootStep \/ Signal \/ Kill
    \/ \E w \in Worker : WorkerStep(w) \/ AcceptLink(w) \/ Reap(w) \/ Crash(w)

Spec == Init /\ [][Next]_vars

\* Every process and thread goes on.
Fairness ==
    /\ WF_vars(RootStep)
    /\ WF_vars(\E w \in Worker : WorkerStep(w))
    /\ WF_vars(\E w \in Worker : AcceptLink(w))
    /\ WF_vars(\E w \in Worker : Reap(w))
FairSpec == Spec /\ Fairness

----------------------------------------------------------------------------
TypeOK ==
    /\ root \in {"setup", "cycle", "fork", "close", "wait"} \union Gone
    /\ {active, signalled} \subseteq BOOLEAN
    /\ left \in 0..WorkerCount /\ respawn \in Nat /\ forks \in 0..MaxForks
    /\ \A w \in Worker :
        /\ worker[w] \in {"none", "forked", "purge", "connect", "cycle"} \union Ended
        /\ worker[w] = "none" <=> w > forks
        /\ link[w] \in {"none", "backlog", "open", "closed"}
        /\ {wactive[w], saved[w]} \subseteq BOOLEAN
    /\ told \subseteq 1..forks /\ reaped \subseteq 1..forks

\* However workers crash and are respawned, there are never more of them, running
\* or asked for, than fio_start was told to have.
NeverTooMany ==
    left + respawn + (IF root = "fork" THEN 1 ELSE 0) + Cardinality(1..forks \ reaped) <= WorkerCount

\* When fio_start returns, no worker is left behind.
NoneLeftBehind == root = "done" => Alive = {}

\* "Respawning worker": as long as nobody stops the server, a worker that ends is
\* replaced.
EventuallyRespawned ==
    WorkerCount > 1 =>
        <>[](signalled \/ root \in Gone
             \/ Cardinality({w \in Alive : worker[w] = "cycle"}) = WorkerCount)

\* Once the root is told to stop, or is killed, every worker ends, the ones that
\* were just forked and have no connection yet included.
EventuallyAllEnd == [](signalled \/ root = "killed" => <>(root \in Gone /\ Alive = {}))
=============================================================================
