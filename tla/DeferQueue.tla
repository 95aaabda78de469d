---------------------------- MODULE DeferQueue ----------------------------
(* A task queue of src/facil.io/fio.c: a chain of ring buffers of which the  *)
(* first is static memory and the others are allocated when the last is full *)
(* and freed when they have been read. Push and pop hold the lock of the     *)
(* queue from their first to their last access, so each is one action.       *)
EXTENDS Integers, Sequences, FiniteSets, SequencesExt

CONSTANTS Task,
          Block,       \* addresses of buffers
          StaticBlock, \* the one built in the queue
          N,           \* DEFER_QUEUE_BLOCK_COUNT
          Null

Slot == 0..N - 1

VARIABLES tasks, write, read, next,   \* fields of each buffer
          state,     \* 0 or 1: the writer has wrapped around; 2: the static buffer is free
          reader, writer,
          owned      \* buffers allocated, the static one included

vars == <<tasks, write, read, next, state, reader, writer, owned>>

Init ==
    /\ tasks = [b \in Block |-> [i \in Slot |-> Null]]
    /\ write = [b \in Block |-> 0] /\ read = [b \in Block |-> 0]
    /\ next = [b \in Block |-> Null]
    /\ state = [b \in Block |-> 0]
    /\ reader = StaticBlock /\ writer = StaticBlock
    /\ owned = {StaticBlock}

----------------------------------------------------------------------------
Full_AtEnd(b) == write[b] = N
Full(b) == state[b] # 0 /\ write[b] = read[b]
Drained(b) == write[b] = read[b] /\ state[b] = 0

\* The position after p: the buffer is a ring.
Step(p) == IF p + 1 = N THEN 0 ELSE p + 1

\* Place the task in buffer b, whose write position is w and whose state is s.
PlaceIn(t, b, w, s) ==
    /\ tasks' = [tasks EXCEPT ![b][w] = t]
    /\ write' = [write EXCEPT ![b] = Step(w)]
    /\ state' = [state EXCEPT ![b] = IF w + 1 = N THEN 1 ELSE s]

PushHere(t) ==
    /\ ~Full(writer)
    /\ PlaceIn(t, writer, write[writer], state[writer])
    /\ UNCHANGED <<read, next, reader, writer, owned>>

\* The static buffer when it is free, a new one otherwise.
Spare == IF state[StaticBlock] = 2 THEN {StaticBlock} ELSE Block \ owned

PushNewBlock(t) == \E b \in Spare :
    /\ Full(writer)
    /\ PlaceIn(t, b, 0, 0)
    /\ read' = [read EXCEPT ![b] = 0]
    /\ next' = [next EXCEPT ![writer] = b, ![b] = Null]
    /\ writer' = b
    /\ owned' = owned \union {b}
    /\ UNCHANGED reader

Push(t) == PushHere(t) \/ PushNewBlock(t)

----------------------------------------------------------------------------
\* Where the reader is once it has taken a task, and its state.
ReadNext == Step(read[reader])
StateNext == IF read[reader] + 1 = N THEN 0 ELSE state[reader]
TakesLast == write[reader] = ReadNext

\* A task is taken and more are left in the buffer.
PopSome ==
    /\ ~Drained(reader) /\ ~TakesLast
    /\ read' = [read EXCEPT ![reader] = ReadNext]
    /\ state' = [state EXCEPT ![reader] = StateNext]
    /\ UNCHANGED <<tasks, write, next, reader, writer, owned>>

Free_Static(b) == next' = [next EXCEPT ![b] = Null] /\ UNCHANGED owned

\* Free a buffer that has been read: the static one is marked as free.
Free(b) == /\ owned' = IF b = StaticBlock THEN owned ELSE owned \ {b}
           /\ next' = [next EXCEPT ![b] = Null]

\* The last task of a buffer is taken and the next buffer follows.
PopToNext ==
    /\ ~Drained(reader) /\ TakesLast /\ next[reader] # Null
    /\ reader' = next[reader]
    /\ Free(reader)
    /\ read' = [read EXCEPT ![reader] = ReadNext]
    /\ state' = [state EXCEPT ![reader] = IF reader = StaticBlock THEN 2 ELSE StateNext]
    /\ UNCHANGED <<tasks, write, writer>>

\* The last task of the queue is taken: back to the static buffer if it is free.
PopLast ==
    LET home == reader # StaticBlock /\ state[StaticBlock] = 2
        r == IF home THEN StaticBlock ELSE reader
    IN  /\ ~Drained(reader) /\ TakesLast /\ next[reader] = Null
        /\ reader' = r
        /\ writer' = IF home THEN StaticBlock ELSE writer
        /\ IF home THEN Free(reader) ELSE UNCHANGED <<owned, next>>
        /\ read' = [read EXCEPT ![r] = 0]
        /\ write' = [write EXCEPT ![r] = 0]
        /\ state' = [state EXCEPT ![r] = 0]
        /\ UNCHANGED tasks

Pop == PopSome \/ PopToNext \/ PopLast

\* fio_defer_clear_tasks_for_queue
Clear ==
    /\ owned' = {StaticBlock}
    /\ reader' = StaticBlock /\ writer' = StaticBlock
    /\ read' = [read EXCEPT ![StaticBlock] = 0]
    /\ write' = [write EXCEPT ![StaticBlock] = 0]
    /\ next' = [next EXCEPT ![StaticBlock] = Null]
    /\ state' = [state EXCEPT ![StaticBlock] = 0]
    /\ UNCHANGED tasks

Next == Pop \/ Clear \/ \E t \in Task : Push(t)
Spec == Init /\ [][Next]_vars

----------------------------------------------------------------------------
\* The buffers from the reader on, to the one that is followed by none.
Chain ==
    LET at[i \in 1..Cardinality(Block)] ==
          IF i = 1 THEN reader
          ELSE LET b == at[i - 1] IN IF b = Null THEN Null ELSE next[b]
    IN  [i \in 1..Cardinality({j \in 1..Cardinality(Block) : at[j] # Null}) |-> at[i]]

\* The tasks in one of them, and in all.
Waiting(b) == IF Drained(b) \/ state[b] = 2 THEN 0
              ELSE IF write[b] > read[b] THEN write[b] - read[b] ELSE write[b] - read[b] + N
Behind(p, i) == IF p + i < N THEN p + i ELSE p + i - N
Held == [b \in Block |-> [i \in 1..Waiting(b) |-> tasks[b][Behind(read[b], i - 1)]]]

Contents ==
    LET chain == Chain
        of[i \in 1..Len(chain)] ==
          IF i = 1 THEN Held[chain[1]] ELSE of[i - 1] \o Held[chain[i]]
    IN  of[Len(chain)]

HasQueue_Positions == write[reader] # read[reader]

\* fio_defer_has_queue compares the positions and not the state, without the lock.
HasQueue == reader # writer \/ write[reader] # read[reader]

TypeOK ==
    /\ tasks \in [Block -> [Slot -> Task \union {Null}]]
    /\ write \in [Block -> Slot] /\ read \in [Block -> Slot]
    /\ next \in [Block -> Block \union {Null}]
    /\ state \in [Block -> 0..2]
    /\ owned \subseteq Block

\* No buffer is written or read after it was freed, none is lost, and the chain
\* ends at the writer.
BlocksOwned ==
    LET chain == Chain IN
    /\ chain[Len(chain)] = writer
    /\ owned \ {StaticBlock} \subseteq Range(chain) /\ Range(chain) \subseteq owned
    /\ \A b \in Range(chain) : state[b] # 2

\* fio.c 1062: fio_defer_has_queue "Returns true if there are deferred functions
\* waiting for execution." It never says so of an empty queue, and overlooks tasks
\* only when they fill the one buffer there is.
HasQueueTells ==
    /\ HasQueue => Contents # <<>>
    /\ Contents # <<>> /\ ~HasQueue => reader = writer /\ Full(reader)
=============================================================================
