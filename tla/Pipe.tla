--------------------------------- MODULE Pipe ---------------------------------
(***************************************************************************)
(* What one direction of a channel promises: the bytes written come out in *)
(* order, none lost and none twice, and at most Capacity of them are under *)
(* way.  A byte is its position in the stream.                             *)
(***************************************************************************)
EXTENDS Integers, Sequences

CONSTANT Capacity
VARIABLES
  sent,       \* how many bytes have been written
  received    \* the bytes that have been read, in the order of the reads

pipeVars == <<sent, received>>

Init == sent = 0 /\ received = <<>>

Write(n) ==
  /\ sent - Len(received) + n <= Capacity
  /\ sent' = sent + n
  /\ UNCHANGED received

Read(n) ==
  /\ n <= sent - Len(received)
  /\ received' = received \o [j \in 1 .. n |-> Len(received) + j - 1]
  /\ UNCHANGED sent

Next == \E n \in 1 .. Capacity : Write(n) \/ Read(n)

Spec == Init /\ [][Next]_pipeVars
=============================================================================
