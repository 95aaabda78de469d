------------------------------ MODULE Timers ------------------------------
(* The timers of src/facil.io/fio.c: an ordered list, moved by the    *)
(* reactor to the task queue as timers come due, performed by the threads    *)
(* of the pool and put back until their repetitions are used up.             *)
EXTENDS Naturals, Sequences, FiniteSets, SequencesExt

CONSTANTS Timer,      \* calls of fio_run_every
          Intervals, Repetitions,   \* the arguments the program passes
          MaxTime     \* bound on the clock

VARIABLES
    timers,    \* the list fio_timers, in order
    deferred,  \* timers in the task queue or with a thread
    running,   \* timers whose task a thread is executing
    timer,     \* due, interval and repetitions of each
    last_cycle, \* the time the reactor marked last
    clock,
    runs,      \* how often the task of each has run
    finished,  \* how often on_finish of each has been called
    refused,   \* calls that were answered with -1
    phase      \* "serving", "unwinding" or "cleared"

vars == <<timers, deferred, running, timer, last_cycle, clock, runs, finished, refused, phase>>

NoTimer == [due |-> 0, interval |-> 0, repetitions |-> 0]

Init ==
    /\ timers = <<>> /\ deferred = {} /\ running = {} /\ refused = {}
    /\ timer = [t \in Timer |-> NoTimer]
    /\ last_cycle = 0 /\ clock = 0
    /\ runs = [t \in Timer |-> 0] /\ finished = [t \in Timer |-> 0]
    /\ phase = "serving"

Started == Range(timers) \union deferred \union running
Free == {t \in Timer : t \notin Started \union refused /\ finished[t] = 0}

----------------------------------------------------------------------------
Place_Equal(due) == LET later == {i \in DOMAIN timers : due = timer[timers[i]].due}
                    IN  IF later = {} THEN Len(timers) + 1 ELSE CHOOSE i \in later : \A j \in later : i <= j

\* Where a timer goes: before the first that is due no earlier.
Place(due) == LET later == {i \in DOMAIN timers : due <= timer[timers[i]].due}
              IN  IF later = {} THEN Len(timers) + 1 ELSE CHOOSE i \in later : \A j \in later : i <= j

\* fio_timer_add_order: due is counted from the time that was marked last.
AddOrder(t, f, now) ==
    /\ timer' = [timer EXCEPT ![t] = [f EXCEPT !.due = now + f.interval]]
    /\ timers' = InsertAt(timers, Place(now + f.interval), t)

\* fio_run_every marks the time and adds the timer; a timer that would run for
\* ever without a pause is refused.
RunEvery(t, ms, reps) ==
    /\ phase = "serving" /\ t \in Free
    /\ IF ms = 0 /\ reps = 0
         THEN refused' = refused \union {t} /\ UNCHANGED <<timer, timers, last_cycle>>
         ELSE /\ last_cycle' = clock
              /\ AddOrder(t, [NoTimer EXCEPT !.interval = ms, !.repetitions = reps], clock)
              /\ UNCHANGED refused
    /\ UNCHANGED <<deferred, running, clock, runs, finished, phase>>

Tick == /\ clock < MaxTime /\ clock' = clock + 1
        /\ UNCHANGED <<timers, deferred, running, timer, last_cycle, runs, finished, refused, phase>>

DueBy_Head(now) == IF timers = <<>> THEN 0 ELSE 1

\* How many timers are due at a time: the list is in order.
DueBy(now) == Cardinality({i \in DOMAIN timers : \A j \in 1..i : timer[timers[j]].due <= now})

\* A cycle of the reactor: fio_mark_time and fio_timer_schedule.
Schedule ==
    LET n == DueBy(clock)
    IN  /\ phase \in {"serving", "unwinding"}
        /\ last_cycle # clock \/ n > 0
        /\ last_cycle' = clock
        /\ timers' = SubSeq(timers, n + 1, Len(timers))
        /\ deferred' = deferred \union {timers[i] : i \in 1..n}
        /\ UNCHANGED <<running, timer, clock, runs, finished, refused, phase>>

\* fio_timer_perform_single, up to the end of the task ...
Perform(t) ==
    /\ t \in deferred
    /\ deferred' = deferred \ {t} /\ running' = running \union {t}
    /\ runs' = [runs EXCEPT ![t] = IF timer[t].repetitions = 0 THEN 1 ELSE @ + 1]
    /\ UNCHANGED <<timers, timer, last_cycle, clock, finished, refused, phase>>

\* ... and what follows it: fio_atomic_sub answers what is left.
Left_Skips(t) == IF timer[t].repetitions > 1 THEN timer[t].repetitions - 2 ELSE 0
Left(t) == timer[t].repetitions - 1

Reschedule_Kept(t) ==
    /\ t \in running
    /\ timer[t].repetitions = 0 \/ Left(t) > 0
    /\ AddOrder(t, [timer[t] EXCEPT !.repetitions = IF @ = 0 THEN 0 ELSE @ - 1], last_cycle)
    /\ UNCHANGED <<running, deferred, last_cycle, clock, runs, finished, refused, phase>>

Reschedule(t) ==
    /\ t \in running
    /\ timer[t].repetitions = 0 \/ Left(t) > 0
    /\ running' = running \ {t}
    /\ AddOrder(t, [timer[t] EXCEPT !.repetitions = IF @ = 0 THEN 0 ELSE @ - 1], last_cycle)
    /\ UNCHANGED <<deferred, last_cycle, clock, runs, finished, refused, phase>>

Finish(t) ==
    /\ t \in running
    /\ timer[t].repetitions > 0 /\ Left(t) = 0
    /\ running' = running \ {t}
    /\ finished' = [finished EXCEPT ![t] = @ + 1]
    /\ timer' = [timer EXCEPT ![t] = NoTimer]
    /\ UNCHANGED <<timers, deferred, last_cycle, clock, runs, refused, phase>>

\* fio_worker_cleanup: the pool has been joined and the queue performed ...
Unwind == /\ phase = "serving" /\ phase' = "unwinding"
          /\ UNCHANGED <<timers, deferred, running, timer, last_cycle, clock, runs, finished, refused>>

QueueEmpty_Running == running = {}
QueueEmpty == deferred = {} /\ running = {}

\* ... before fio_timer_clear_all ends every timer that is in the list.
ClearAll ==
    /\ phase = "unwinding" /\ QueueEmpty
    /\ timers' = <<>>
    /\ finished' = [t \in Timer |-> finished[t] + (IF t \in Range(timers) THEN 1 ELSE 0)]
    /\ phase' = "cleared"
    /\ UNCHANGED <<deferred, running, timer, last_cycle, clock, runs, refused>>

Work == \E t \in Timer : Perform(t) \/ Reschedule(t) \/ Finish(t)

Next ==
    \/ \E t \in Timer, ms \in Intervals, reps \in Repetitions : RunEvery(t, ms, reps)
    \/ Tick \/ Schedule \/ Work \/ Unwind \/ ClearAll

Spec == Init /\ [][Next]_vars

\* Time passes, the reactor cycles, its threads perform what is in the queue, and
\* a process that is shutting down goes on to its end.
Fairness ==
    WF_vars(Tick) /\ WF_vars(Schedule) /\ WF_vars(Work) /\ WF_vars(ClearAll)
FairSpec == Spec /\ Fairness

----------------------------------------------------------------------------
TypeOK ==
    /\ Range(timers) \union deferred \union running \union refused \subseteq Timer
    /\ timer \in [Timer -> [due : Nat, interval : Intervals \union {0}, repetitions : Nat]]
    /\ finished \in [Timer -> 0..1]
    /\ last_cycle \in 0..MaxTime /\ clock \in 0..MaxTime
    /\ phase \in {"serving", "unwinding", "cleared"}

\* A timer is in one place only: in the list, in the queue or with a thread. So
\* two threads never run it at once and nothing frees it under a thread.
OnePlace ==
    /\ IsInjective(timers)
    /\ Range(timers) \intersect (deferred \union running) = {} /\ deferred \intersect running = {}
    /\ \A t \in Timer : finished[t] > 0 => t \notin Started

\* The list is in order of due times whatever threads put timers back while the
\* reactor takes others out, so that looking at its head finds all that are due.
InOrder == \A i, j \in DOMAIN timers : i < j => timer[timers[i]].due <= timer[timers[j]].due

\* No task runs before it is due.
NotEarly == \A t \in deferred \union running : timer[t].due <= last_cycle

\* A timer that is asked to run n times has run n times when it finishes by itself.
RunsAsAsked == [][\A t \in Timer : t \in running /\ t \notin running' /\ finished'[t] = 1 =>
                    runs[t] \in Repetitions]_vars

\* fio_run_every: every timer that was started has its on_finish called, at the
\* latest when the process ends.
EventuallyFinished == phase = "unwinding" ~> \A t \in Timer : t \in Started \/ runs[t] > 0 => finished[t] = 1
=============================================================================
