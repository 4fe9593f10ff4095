------------------------------- MODULE RunQueue -------------------------------
(***************************************************************************)
(* What the scheduler expects of its run queue: a sequence of distinct     *)
(* threads, that Threads handles as one.                                   *)
(***************************************************************************)
EXTENDS Sequences, Functions

CONSTANT Threads
VARIABLE queue

Init == queue = <<>>

EnqueueFirst(t) == t \notin Range(queue) /\ queue' = <<t>> \o queue
EnqueueLast(t)  == t \notin Range(queue) /\ queue' = Append(queue, t)
Dequeue         == queue # <<>> /\ queue' = Tail(queue)

Next ==
  \/ \E t \in Threads : EnqueueFirst(t) \/ EnqueueLast(t)
  \/ Dequeue

Spec == Init /\ [][Next]_queue
=============================================================================
