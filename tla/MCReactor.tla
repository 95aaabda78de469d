----------------------------- MODULE MCReactor -----------------------------
(* The parts of facil.io's reactor that threads share, for one run of TLC:   *)
(* the first state chooses a part and its instance, and only that one moves. *)
(* Two threads; the writes of a connection, and of two that have a           *)
(* descriptor one after the other; the events of two connections, and of one *)
(* that fio_flush takes for an attacker; the parser of two requests, and the *)
(* batches of a connection that closes; the allocator; and the program's     *)
(* pool with fewer connections than threads.                                 *)
EXTENDS Reactor, TLC

VARIABLES sent, stream, buf, parser, call, seen, parsed,
          requests, answered, last, late, missed, ended, wire, unparsed, pending, stop, scheduled,
          reading, data, events, drained, task_lock, write_lock, in

H == INSTANCE Http1Parser WITH MaxMessages <- 2, pc <- call
B == INSTANCE Http1 WITH
       MaxRequests <- 4, Limit <- 2, Throttle <- 9, Ends <- TRUE,
       sent <- requests, buf <- unparsed, link <- ended, armed <- reading, forced <- events,
       ready <- drained, pc <- in

parserVars == <<sent, stream, buf, parser, call, seen, parsed>>
httpVars == <<requests, answered, last, late, missed, ended, wire, unparsed, pending, stop, scheduled,
              reading, data, events, drained, task_lock, write_lock, in>>
allVars == <<part, queueVars, timerVars, socketVars, connVars, parserVars, memoryVars, poolVars, httpVars>>

Parts == {"queue", "timers", "writes", "reuse", "events", "attacked", "parser", "memory", "pool", "batches"}

MCInit ==
    /\ part \in Parts
    /\ Queue!Init /\ Times!Init
    /\ IF part = "reuse" THEN Reuse!Init ELSE Writes!Init
    /\ IF part = "attacked" THEN Attacked!Init ELSE Events!Init
    /\ H!Init
    /\ part = "parser" \/ sent = <<CHOOSE m \in H!Messages : TRUE>>
    /\ Memory!Init /\ Pool!Init /\ B!Init
    /\ part = "batches" \/ last = B!Never
    /\ part = "pool" \/ pooled = [i \in Pool!Words |-> IF i \in Pool!Conn THEN i ELSE None]

QueueStep ==
    /\ part = "queue" /\ Queue!Next
    /\ UNCHANGED <<part, timerVars, socketVars, connVars, parserVars, memoryVars, poolVars, httpVars>>
TimersStep ==
    /\ part = "timers" /\ Times!Next
    /\ UNCHANGED <<part, queueVars, socketVars, connVars, parserVars, memoryVars, poolVars, httpVars>>
WritesStep ==
    /\ part = "writes" /\ Writes!Next
    /\ UNCHANGED <<part, queueVars, timerVars, connVars, parserVars, memoryVars, poolVars, httpVars>>
ReuseStep ==
    /\ part = "reuse" /\ Reuse!Next
    /\ UNCHANGED <<part, queueVars, timerVars, connVars, parserVars, memoryVars, poolVars, httpVars>>
EventsStep ==
    /\ part = "events" /\ Events!Next
    /\ UNCHANGED <<part, queueVars, timerVars, socketVars, parserVars, memoryVars, poolVars, httpVars>>
AttackedStep ==
    /\ part = "attacked" /\ Attacked!Next
    /\ UNCHANGED <<part, queueVars, timerVars, socketVars, parserVars, memoryVars, poolVars, httpVars>>
ParserStep ==
    /\ part = "parser" /\ H!Next
    /\ UNCHANGED <<part, queueVars, timerVars, socketVars, connVars, memoryVars, poolVars, httpVars>>
MemoryStep ==
    /\ part = "memory" /\ Memory!Next
    /\ UNCHANGED <<part, queueVars, timerVars, socketVars, connVars, parserVars, poolVars, httpVars>>
PoolStep ==
    /\ part = "pool" /\ Pool!Next
    /\ UNCHANGED <<part, queueVars, timerVars, socketVars, connVars, parserVars, memoryVars, httpVars>>

BatchesStep ==
    /\ part = "batches" /\ B!Next
    /\ UNCHANGED <<part, queueVars, timerVars, socketVars, connVars, parserVars, memoryVars, poolVars>>

MCNext ==
    \/ QueueStep \/ TimersStep \/ WritesStep \/ ReuseStep \/ EventsStep \/ AttackedStep \/ ParserStep \/ MemoryStep
    \/ PoolStep \/ BatchesStep
MCSpec == MCInit /\ [][MCNext]_allVars

Symmetry == Permutations(Thread) \union Permutations(Mapping)

----------------------------------------------------------------------------
\* However its bytes arrive, unless the line that ends the headers is cut in two
\* (http1_parser.h:837), http1_parse reports what was sent (Http1Parser); after a
\* request that closes no more are handled than threads were on their way (Http1).
RequestsIntact ==
    /\ part = "parser" => H!TypeOK /\ H!RequestsIntact
    /\ part = "batches" => B!TypeOK /\ B!PendingBounded /\ B!LateBounded
=============================================================================
