----------------------------- MODULE RunQueueList -----------------------------
(***************************************************************************)
(* The run queue of src/src/kernel/core/thread.c as it is stored: a list   *)
(* linked through next_in_queue, with a pointer to each end.  The links of *)
(* threads that are not queued are left as they were.                      *)
(***************************************************************************)
EXTENDS Integers, Sequences, FiniteSets

CONSTANTS
  Threads,
  NoThread   \* the null pointer

\* The pointers, as one value: first and last stand for queue_first_thread and
\* queue_last_thread, next[t] for t->next_in_queue
EmptyList ==
  [first |-> NoThread, last |-> NoThread, next |-> [t \in Threads |-> NoThread]]

\* enqueue_thread() that does not clear the link of the thread it appends
enqueue_thread_NoClear(l, t, just_ran) ==
  IF l.first = NoThread
  THEN [l EXCEPT !.first = t, !.last = t]
  ELSE IF just_ran
  THEN [l EXCEPT !.next[l.last] = t, !.last = t]
  ELSE [l EXCEPT !.next[t] = l.first, !.first = t]

enqueue_thread(l, t, just_ran) ==
  IF l.first = NoThread
  THEN [first |-> t, last |-> t, next |-> [l.next EXCEPT ![t] = NoThread]]
  ELSE IF just_ran
  THEN [l EXCEPT !.next = [l.next EXCEPT ![t] = NoThread, ![l.last] = t],
                 !.last = t]
  ELSE [l EXCEPT !.next[t] = l.first, !.first = t]

\* dequeue_thread() of a list that is not empty
dequeue_thread(l) ==
  LET rest == l.next[l.first]
  IN  [l EXCEPT !.first = rest,
                !.last = IF rest = NoThread THEN NoThread ELSE l.last]

-----------------------------------------------------------------------------
VARIABLE list

\* The nodes met from the first one on, NoThread after the end
Node ==
  LET at[n \in 1 .. Cardinality(Threads) + 1] ==
        IF n = 1 THEN list.first
        ELSE IF at[n - 1] = NoThread THEN NoThread
        ELSE list.next[at[n - 1]]
  IN  at

Queued == {Node[n] : n \in DOMAIN Node} \ {NoThread}

Init == list = EmptyList

Enqueue(t, just_ran) ==
  /\ t \notin Queued
  /\ list' = enqueue_thread(list, t, just_ran)

Dequeue == list.first # NoThread /\ list' = dequeue_thread(list)

Next ==
  \/ \E t \in Threads, just_ran \in BOOLEAN : Enqueue(t, just_ran)
  \/ Dequeue

Spec == Init /\ [][Next]_list

-----------------------------------------------------------------------------
(***************************************************************************)
(* Properties.                                                             *)
(***************************************************************************)

\* The sequence the list stands for
AbsQueue == SubSeq(Node, 1, Cardinality({n \in DOMAIN Node : Node[n] # NoThread}))

\* The queue that Threads uses.  The pointers implement it: the list ends, holds
\* no thread twice, and each operation does what it does to the sequence.
Abstract == INSTANCE RunQueue WITH queue <- AbsQueue
=============================================================================
