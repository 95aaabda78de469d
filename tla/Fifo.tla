------------------------------- MODULE Fifo -------------------------------
(* What a task queue of facil.io promises: tasks leave in the order in which *)
(* they came, none is lost and none leaves twice.                            *)
EXTENDS Sequences

CONSTANT Task
VARIABLE queue

Init == queue = <<>>
Push(t) == queue' = Append(queue, t)
Pop == queue # <<>> /\ queue' = Tail(queue)
Clear == queue' = <<>>
Next == Pop \/ Clear \/ \E t \in Task : Push(t)
Spec == Init /\ [][Next]_queue
=============================================================================
